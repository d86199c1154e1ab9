----------------------------- MODULE FileProofs -----------------------------
(***************************************************************************)
(* Proofs about the two modules whose files outlive a crash, one after the *)
(* other; neither uses a fact of the other.                                *)
(*                                                                         *)
(* FileJobs: the types and the invariants that relate the table, the disk  *)
(* and the worker, through crashes and removals cut off or refused, and,   *)
(* when every folder that is removed goes, that a running row is the       *)
(* worker's and that the rows live the lives FileLife describes.           *)
(*                                                                         *)
(* Writer, for any tracks, ring, length of time and mishaps: the header    *)
(* never tells of samples the file has not, what a synced line of the      *)
(* manifest told of stays on disk, and what was heard is at the place of   *)
(* its time.                                                               *)
(***************************************************************************)
EXTENDS FileJobs, Writer, SequenceTheorems, WellFoundedInduction, TLAPS

(***************************************************************************)
(* FileJobs.                                                               *)
(***************************************************************************)
\* The worker has a job in hand that nobody else may end.
Busy == {"claimed", "engine", "handle", "marking", "complete"}

\* The state of a row that a handler or the sweep may remove.
Removable(f) == row[f].state \in {"pending", "done", "failed", "cancelled"}

\* What makes the properties inductive: which rows run at each place of the worker,
\* what a request may name, and where a result is on its way to a done row.
FileInv ==
    /\ TypeOK
    /\ Budget["held"] = 0 => left["held"] = 0 /\ RunningIsHeld
    /\ pc \in Busy => Is(cur, "running")
    /\ pc = "popping" => ~Is(cur, "running")
    /\ pc \in {"handle", "marking", "popping"} => ~Returned
    /\ pc = "marking" \/ (pc = "handle" /\ outcome = "cancelled") => stopping[cur] # "none"
    /\ pc = "finally" =>
          IF Returned THEN Is(cur, "running") ELSE Is(cur, "running") => stopping[cur] = "delete"
    /\ pc = "removing" => ~Is(cur, "new") /\ cur \notin folder \union result
    /\ pc = "removing" /\ Is(cur, "running") => stopping[cur] = "delete"
    /\ \A f \in purging : (Removable(f) \/ Is(f, "gone")) /\ f \notin folder \union result
    /\ pc = "complete" \/ (pc = "finally" /\ Returned) => cur \in result \union removed
    /\ \A f \in Files : Is(f, "new") \/ Is(f, "gone") => stopping[f] = "none"
    /\ GoneLeavesNothing
    /\ DoneHasResult

\* Only the row of one file changes, in its state or in its place in the queue.
RowOnly(f) == \A g \in Files : g # f => row'[g] = row[g]

\* Writing a state to a row.
LEMMA SetStateEffect ==
    ASSUME TypeOK, NEW f \in Files, NEW st \in States, SetState(f, st)
    PROVE  /\ row' \in [Files -> Row]
           /\ row'[f].state = st
           /\ RowOnly(f)
BY DEF TypeOK, SetState, Row, RowOnly

LEMMA StopEffect ==
    ASSUME TypeOK, NEW f \in Files, Stop(f)
    PROVE  /\ row' \in [Files -> Row]
           /\ row'[f].state = "cancelled"
           /\ RowOnly(f)
<1> DEFINE new == [row[f] EXCEPT !.state = "cancelled", !.due = TRUE]
<1>1. row[f] \in Row
  BY DEF TypeOK
<1>2. new \in Row /\ new.state = "cancelled"
  BY <1>1 DEF Row, States
<1>3. row' = [row EXCEPT ![f] = new]
  BY DEF Stop
<1> HIDE DEF new
<1> QED BY <1>2, <1>3 DEF TypeOK, RowOnly

\* Writing a request.
LEMMA AskEffect ==
    ASSUME TypeOK, NEW f \in Files, NEW how \in {"none", "cancel", "delete"}, Ask(f, how)
    PROVE  /\ stopping' \in [Files -> {"none", "cancel", "delete"}]
           /\ stopping'[f] = how
           /\ \A g \in Files : g # f => stopping'[g] = stopping[g]
BY DEF TypeOK, Ask

\* A new row, at the back of the queue.
LEMMA CreatedEffect ==
    ASSUME TypeOK, NEW f \in Files, Created(f)
    PROVE  /\ row' \in [Files -> Row]
           /\ row'[f].state = "pending"
           /\ RowOnly(f)
           /\ nextKey' \in Nat
<1> DEFINE new == [NoRow EXCEPT !.state = "pending", !.key = nextKey]
<1>1. new \in Row /\ new.state = "pending"
  BY DEF TypeOK, NoRow, Row, States
<1>2. row' = [row EXCEPT ![f] = new] /\ nextKey' = nextKey + 1
  BY DEF Created
<1> HIDE DEF new
<1> QED BY <1>1, <1>2 DEF TypeOK, RowOnly

\* What a run that did not return its result leaves is a row that waits or failed.
LEMMA HandledRow ==
    ASSUME TypeOK
    PROVE  /\ Released \in Row /\ Released.state = "pending"
           /\ Failed \in Row /\ Failed.state \in {"pending", "failed"}
<1> DEFINE attempts == row[cur].attempts + 1
           final == outcome = "permanent" \/ attempts >= MAX_ATTEMPTS
<1>1. row[cur] \in Row
  BY DEF TypeOK
<1>2. Released \in Row /\ Released.state = "pending"
  BY <1>1 DEF Released, Row, States
<1>3. attempts \in Nat /\ final \in BOOLEAN
  BY <1>1 DEF Row
<1>4. Failed = [row[cur] EXCEPT !.state = IF final THEN "failed" ELSE "pending",
                                !.attempts = attempts, !.due = final]
  BY DEF Failed
<1> HIDE DEF attempts, final
<1> QED BY <1>1, <1>2, <1>3, <1>4 DEF Row, States

\* A removal's first step changes nothing a client sees of the rows.
LEMMA FolderEffect ==
    ASSUME TypeOK, NEW f \in Files, FolderGoes(f) \/ FolderStays(f)
    PROVE  /\ UNCHANGED <<row, stopping>>
           /\ folder' \subseteq folder /\ result' \subseteq result
           /\ result \ {f} \subseteq result'
           /\ removed' = removed \union {f}
           /\ left' \in [Events -> Nat]
           /\ left["held"] = 0 => FolderGoes(f) /\ left' = left
           /\ FolderGoes(f) => f \notin folder' \union result'
<1>1. CASE FolderGoes(f)
  BY <1>1 DEF FolderGoes, TypeOK
<1>2. CASE FolderStays(f)
  <2>1. left["held"] > 0 /\ left["held"] - 1 \in Nat
    BY <1>2 DEF FolderStays, Spend, TypeOK, Events
  <2>2. folder' = folder
    BY <1>2 DEF FolderStays
  <2>3. left' \in [Events -> Nat] /\ ~(left["held"] = 0)
    BY <1>2, <2>1 DEF FolderStays, Spend, TypeOK, Events
  <2>4. UNCHANGED <<row, stopping>> /\ removed' = removed \union {f}
    BY <1>2 DEF FolderStays
  <2>5. result' \subseteq result /\ result \ {f} \subseteq result'
    BY <1>2 DEF FolderStays
  <2>6. FolderGoes(f) => f \notin folder' \union result'
    BY DEF FolderGoes
  <2> QED BY <2>2, <2>3, <2>4, <2>5, <2>6
<1> QED BY <1>1, <1>2

\* Its second step takes the row and the request, and leaves all of the others.
LEMMA RowEffect ==
    ASSUME TypeOK, NEW f \in Files, RowGoes(f)
    PROVE  /\ row' \in [Files -> Row] /\ row'[f].state = "gone" /\ RowOnly(f)
           /\ stopping' \in [Files -> {"none", "cancel", "delete"}]
           /\ stopping'[f] = "none"
           /\ \A g \in Files : g # f => stopping'[g] = stopping[g]
           /\ UNCHANGED <<folder, result, removed, left>>
BY SetStateEffect, AskEffect DEF RowGoes, States, diskVars

\* With no folder held open a removal is never refused.
LEMMA NeverRefused == left["held"] = 0 => \A f \in Files : ~FolderStays(f)
BY DEF FolderStays, Spend

LEMMA SpendEffect ==
    ASSUME TypeOK, NEW e \in Events \ {"held"}, Spend(e)
    PROVE  left' \in [Events -> Nat] /\ left'["held"] = left["held"]
<1>1. left[e] - 1 \in Nat
  BY DEF TypeOK, Spend
<1> QED BY <1>1 DEF TypeOK, Spend, Events

LEMMA IdleEffect ==
    ASSUME FileJobsAssumption, ToIdle
    PROVE  pc' = "idle" /\ cur' \in Files /\ outcome' = "none"
BY DEF ToIdle, NoFile, FileJobsAssumption

LEMMA InitFileInv ==
    ASSUME FileJobsAssumption, Init
    PROVE  FileInv
<1>1. cur \in Files
  BY DEF Init, NoFile, FileJobsAssumption
<1>2. TypeOK
  BY <1>1 DEF Init, TypeOK, NoRow, Row, States, PC, Outcome, FileJobsAssumption
<1> QED
  BY <1>2 DEF Init, FileInv, NoRow, Is, RunningIsHeld, GoneLeavesNothing, DoneHasResult,
              Busy

\* The worker's steps.
LEMMA WorkerKeeps ==
    ASSUME FileInv, FileJobsAssumption, WorkerStep
    PROVE  FileInv'
<1> USE DEF diskVars, Is
<1>1. TypeOK /\ cur \in Files
  BY DEF Removable, FileInv, TypeOK
<1>2. CASE Peek
  BY <1>1, <1>2
     DEF Peek, Runnable, Removable, FileInv, TypeOK, PC, RunningIsHeld, GoneLeavesNothing,
         DoneHasResult, Busy
<1>3. CASE Claim
  <2>1. CASE Claimable /\ SetState(cur, "running") /\ Goto("claimed")
    <3>1. /\ row' \in [Files -> Row] /\ row'[cur].state = "running" /\ RowOnly(cur)
      BY <1>1, <2>1, SetStateEffect DEF States
    <3> QED
      BY <1>1, <1>3, <2>1, <3>1
         DEF Claim, Claimable, Unlocked, Goto, RowOnly, Removable, FileInv, TypeOK, PC, RunningIsHeld,
             GoneLeavesNothing, DoneHasResult, Busy
  <2>2. CASE ToIdle /\ UNCHANGED row
    BY <1>1, <1>3, <2>2, IdleEffect
       DEF Claim, Removable, FileInv, TypeOK, PC, Outcome, RunningIsHeld, GoneLeavesNothing,
           DoneHasResult, Busy
  <2> QED BY <1>3, <2>1, <2>2 DEF Claim
<1>4. CASE MakeFolder
  BY <1>1, <1>4
     DEF MakeFolder, Goto, Removable, FileInv, TypeOK, PC, RunningIsHeld, GoneLeavesNothing,
         DoneHasResult, Busy
<1>5. CASE EngineReturns
  BY <1>1, <1>5
     DEF EngineReturns, EngineEnds, Removable, FileInv, TypeOK, PC, Outcome, RunningIsHeld,
         GoneLeavesNothing, DoneHasResult, Busy, Returned
<1>6. CASE EngineRaises
  <2>1. /\ UNCHANGED <<row, nextKey, diskVars, stopping, uploads, purging, yield, left, cur>>
        /\ pc = "engine" /\ pc' = "handle"
        /\ outcome' \in Outcome /\ outcome' # "ok"
        /\ outcome' = "cancelled" => stopping[cur] # "none"
    BY <1>6 DEF EngineRaises, EngineEnds, Outcome
  <2>2. TypeOK'
    BY <1>1, <2>1 DEF TypeOK, PC
  <2> QED
    BY <2>1, <2>2
       DEF Removable, FileInv, RunningIsHeld, GoneLeavesNothing, DoneHasResult, Busy, Returned
<1>7. CASE HandleCancelled
  BY <1>1, <1>7
     DEF HandleCancelled, Goto, Removable, FileInv, TypeOK, PC, RunningIsHeld, GoneLeavesNothing,
         DoneHasResult, Busy, Returned
<1>8. CASE MarkCancelled
  <2>1. row' \in [Files -> Row] /\ row'[cur].state = "cancelled" /\ RowOnly(cur)
    BY <1>1, <1>8, StopEffect DEF MarkCancelled
  <2> QED
    BY <1>1, <1>8, <2>1
       DEF MarkCancelled, Goto, RowOnly, Removable, FileInv, TypeOK, PC, RunningIsHeld,
           GoneLeavesNothing, DoneHasResult, Busy, Returned
<1>9. CASE PopRequest
  <2>1. /\ stopping' \in [Files -> {"none", "cancel", "delete"}]
        /\ stopping'[cur] = "none"
        /\ \A g \in Files : g # cur => stopping'[g] = stopping[g]
    BY <1>1, <1>9, AskEffect DEF PopRequest
  <2>2. ~Returned
    BY <1>9 DEF PopRequest, FileInv
  <2> QED
    BY <1>1, <1>9, <2>1, <2>2
       DEF PopRequest, Goto, Removable, FileInv, TypeOK, PC, RunningIsHeld, GoneLeavesNothing,
           DoneHasResult, Busy, Returned
<1>10. CASE HandleOther
  <2> DEFINE new == IF outcome = "preempted" THEN Released ELSE Failed
  <2>1. new \in Row /\ new.state \in {"pending", "failed"}
    BY <1>1, HandledRow
  <2>2. row' = [row EXCEPT ![cur] = new]
    BY <1>10 DEF HandleOther
  <2> HIDE DEF new
  <2>3. row' \in [Files -> Row] /\ row'[cur].state \in {"pending", "failed"} /\ RowOnly(cur)
    BY <1>1, <2>1, <2>2 DEF TypeOK, RowOnly
  <2> QED
    BY <1>1, <1>10, <2>3
       DEF HandleOther, Goto, RowOnly, Removable, FileInv, TypeOK, PC, RunningIsHeld,
           GoneLeavesNothing, DoneHasResult, Busy, Returned
<1>11. CASE FinishDelete
  <2>1. CASE stopping[cur] = "delete" /\ FolderGoes(cur) /\ Goto("removing")
    BY <1>1, <1>11, <2>1, FolderEffect
       DEF FinishDelete, FolderGoes, Goto, Removable, FileInv, TypeOK, PC, RunningIsHeld,
           GoneLeavesNothing, DoneHasResult, Busy, Returned
  <2>2. CASE /\ stopping[cur] = "delete" /\ FolderStays(cur)
             /\ IF Returned THEN Goto("complete") ELSE ToIdle
    <3>1. Budget["held"] # 0
      BY <1>1, <2>2, NeverRefused DEF FileInv
    <3>2. UNCHANGED <<row, folder, stopping>> /\ result' \subseteq result
      BY <2>2 DEF FolderStays
    <3> QED
      BY <1>1, <1>11, <2>2, <3>1, <3>2, FolderEffect, IdleEffect
         DEF FinishDelete, Goto, Removable, FileInv, TypeOK, PC, Outcome,
             GoneLeavesNothing, DoneHasResult, Busy, Returned
  <2>3. CASE /\ stopping[cur] # "delete" /\ UNCHANGED <<row, diskVars, stopping, left>>
             /\ IF Returned THEN Goto("complete") ELSE ToIdle
    BY <1>1, <1>11, <2>3, IdleEffect
       DEF FinishDelete, Goto, Removable, FileInv, TypeOK, PC, Outcome, RunningIsHeld,
           GoneLeavesNothing, DoneHasResult, Busy, Returned
  <2> QED BY <1>11, <2>1, <2>2, <2>3 DEF FinishDelete
<1>13. CASE FinishRow
  BY <1>1, <1>13, RowEffect, IdleEffect
     DEF FinishRow, RowOnly, Removable, FileInv, TypeOK, PC, Outcome, RunningIsHeld,
         GoneLeavesNothing, DoneHasResult, Busy, Returned
<1>12. CASE Complete
  <2>1. row' \in [Files -> Row] /\ row'[cur].state = "done" /\ RowOnly(cur)
    BY <1>1, <1>12, SetStateEffect DEF Complete, States
  <2> QED
    BY <1>1, <1>12, <2>1, IdleEffect
       DEF Complete, RowOnly, Removable, FileInv, TypeOK, PC, Outcome, RunningIsHeld,
           GoneLeavesNothing, DoneHasResult, Busy, Returned
<1> QED
  BY <1>2, <1>3, <1>4, <1>5, <1>6, <1>7, <1>8, <1>9, <1>10, <1>11, <1>12, <1>13
     DEF WorkerStep

\* The steps of everyone else.
LEMMA OthersKeep ==
    ASSUME FileInv, FileJobsAssumption, Next, ~WorkerStep
    PROVE  FileInv'
<1> USE DEF diskVars, workerVars, Is
<1>1. TypeOK /\ cur \in Files
  BY DEF Removable, FileInv, TypeOK
<1>2. ASSUME NEW f \in Files, Upload(f)
      PROVE  FileInv'
  BY <1>1, <1>2
     DEF Upload, Removable, FileInv, TypeOK, RunningIsHeld, GoneLeavesNothing, DoneHasResult, Returned
<1>3. ASSUME NEW f \in Files, Create(f)
      PROVE  FileInv'
  <2>1. CASE Created(f) /\ folder' = folder
    BY <1>1, <1>3, <2>1, CreatedEffect
       DEF Create, RowOnly, Removable, FileInv, TypeOK, RunningIsHeld, GoneLeavesNothing,
           DoneHasResult, Returned, Busy
  <2>2. CASE folder' = folder \ {f} /\ UNCHANGED <<row, nextKey>>
    BY <1>1, <1>3, <2>2
       DEF Create, Removable, FileInv, TypeOK, RunningIsHeld, GoneLeavesNothing, DoneHasResult,
           Returned
  <2> QED BY <1>3, <2>1, <2>2 DEF Create
<1>4. ASSUME NEW f \in Files, Removable(f), Unlocked, RemoveFolder(f),
             UNCHANGED <<nextKey, uploads, workerVars, yield>>
      PROVE  FileInv'
  <2>1. /\ ~Is(f, "running") /\ ~Is(f, "new") /\ ~Is(f, "gone")
        /\ pc \in Busy \/ (pc = "finally" /\ Returned) => cur # f
    BY <1>4 DEF Removable, FileInv, Busy
  <2>2. CASE FolderGoes(f) /\ purging' = {f}
    <3>1. /\ UNCHANGED <<row, stopping, left>> /\ removed' = removed \union {f}
          /\ folder' = folder \ {f} /\ result' = result \ {f}
      BY <2>2 DEF FolderGoes
    <3> QED
      BY <1>1, <1>4, <2>1, <2>2, <3>1
         DEF Removable, FileInv, TypeOK, RunningIsHeld, GoneLeavesNothing, DoneHasResult,
             Returned, Busy
  <2>3. CASE FolderStays(f) /\ UNCHANGED purging
    <3>1. Budget["held"] # 0
      BY <1>1, <2>3, NeverRefused DEF FileInv
    <3>2. /\ UNCHANGED <<row, folder, stopping>> /\ removed' = removed \union {f}
          /\ result' \subseteq result /\ result \ {f} \subseteq result'
          /\ left' \in [Events -> Nat]
      BY <1>1, <2>3, FolderEffect DEF FolderStays
    <3> QED
      BY <1>1, <1>4, <2>1, <2>3, <3>1, <3>2
         DEF Removable, FileInv, TypeOK, GoneLeavesNothing, DoneHasResult, Returned, Busy
  <2> QED BY <1>4, <2>2, <2>3 DEF RemoveFolder
<1>5. ASSUME NEW f \in Files, Sweep(f)
      PROVE  FileInv'
  BY <1>4, <1>5 DEF Sweep, Ended, Removable
<1>13. ASSUME NEW f \in Files, RemoveRow(f)
       PROVE  FileInv'
  <2>1. /\ row' \in [Files -> Row] /\ row'[f].state = "gone" /\ RowOnly(f)
        /\ stopping' \in [Files -> {"none", "cancel", "delete"}]
        /\ stopping'[f] = "none"
        /\ \A g \in Files : g # f => stopping'[g] = stopping[g]
        /\ UNCHANGED <<folder, result, removed, left>>
    BY <1>1, <1>13, RowEffect DEF RemoveRow
  <2>2. f \in purging /\ (Removable(f) \/ Is(f, "gone")) /\ f \notin folder \union result
    BY <1>13 DEF RemoveRow, FileInv
  <2>3. ~Is(f, "running") /\ ~Is(f, "new")
    BY <2>2 DEF Removable
  <2> QED
    BY <1>1, <1>13, <2>1, <2>2, <2>3
       DEF RemoveRow, RowOnly, Removable, FileInv, TypeOK, RunningIsHeld,
           GoneLeavesNothing, DoneHasResult, Returned, Busy
<1>6. ASSUME NEW f \in Files, Cancel(f)
      PROVE  FileInv'
  <2>1. CASE Is(f, "pending") /\ Stop(f) /\ Ask(f, "none")
    BY <1>1, <1>6, <2>1, StopEffect, AskEffect
       DEF Cancel, RowOnly, Removable, FileInv, TypeOK, RunningIsHeld, GoneLeavesNothing,
           DoneHasResult, Returned, Busy
  <2>2. CASE Is(f, "running") /\ Ask(f, "cancel") /\ UNCHANGED row /\ stopping[f] = "none"
    BY <1>1, <1>6, <2>2, AskEffect
       DEF Cancel, Removable, FileInv, TypeOK, RunningIsHeld, GoneLeavesNothing, DoneHasResult,
           Returned, Busy
  <2> QED BY <1>6, <2>1, <2>2 DEF Cancel
<1>7. ASSUME NEW f \in Files, Retry(f)
      PROVE  FileInv'
  BY <1>1, <1>7, CreatedEffect, SpendEffect
     DEF Retry, Events, RowOnly, Removable, FileInv, TypeOK, RunningIsHeld, GoneLeavesNothing,
         DoneHasResult, Returned, Busy
<1>8. ASSUME NEW f \in Files, Delete(f)
      PROVE  FileInv'
  <2>1. CASE HandedOff(f) /\ Ask(f, "delete") /\ UNCHANGED <<row, diskVars, purging, left>>
    BY <1>1, <1>8, <2>1, AskEffect
       DEF Delete, HandedOff, Removable, FileInv, TypeOK, RunningIsHeld, GoneLeavesNothing,
           DoneHasResult, Returned, Busy
  <2>2. CASE ~HandedOff(f)
    <3>1. row[f].state \in States \ {"new", "gone", "running"}
      BY <1>1, <1>8, <2>2 DEF Delete, HandedOff, TypeOK, Row
    <3> QED BY <1>4, <1>8, <2>2, <3>1 DEF Delete, Removable, States
  <2> QED BY <1>8, <2>1, <2>2 DEF Delete
<1>9. ASSUME NEW f \in Files, BecomeDue(f)
      PROVE  FileInv'
  <2>1. /\ row' \in [Files -> Row] /\ row'[f].state = row[f].state /\ RowOnly(f)
    BY <1>1, <1>9 DEF BecomeDue, TypeOK, Row, RowOnly
  <2> QED
    BY <1>1, <1>9, <2>1
       DEF BecomeDue, RowOnly, Removable, FileInv, TypeOK, RunningIsHeld, GoneLeavesNothing,
           DoneHasResult, Returned, Busy
<1>10. CASE RecordingStarts
  BY <1>1, <1>10, SpendEffect
     DEF RecordingStarts, Events, Removable, FileInv, TypeOK, RunningIsHeld, GoneLeavesNothing,
         DoneHasResult, Returned
<1>11. CASE RecordingEnds
  BY <1>1, <1>11
     DEF RecordingEnds, Removable, FileInv, TypeOK, RunningIsHeld, GoneLeavesNothing, DoneHasResult,
         Returned
<1>12. CASE Restart
  <2>1. /\ row' \in [Files -> Row]
        /\ \A f \in Files :
              row'[f].state = IF row[f].state = "running" THEN "pending" ELSE row[f].state
    BY <1>1, <1>12 DEF Restart, Reset, TypeOK, Row, States
  <2> QED
    BY <1>1, <1>12, <2>1, SpendEffect, IdleEffect
       DEF Restart, Events, Removable, FileInv, TypeOK, PC, Outcome, RunningIsHeld,
           GoneLeavesNothing, DoneHasResult, Returned, Busy
<1> QED
  BY <1>2, <1>3, <1>5, <1>6, <1>7, <1>8, <1>9, <1>10, <1>11, <1>12, <1>13 DEF Next

\* FileInv holds throughout.
LEMMA FileInvariant == Spec => []FileInv
<1>1. Init => FileInv
  BY InitFileInv, FileJobsAssumption
<1>2. FileInv /\ [Next]_vars => FileInv'
  <2> SUFFICES ASSUME FileInv, [Next]_vars
               PROVE  FileInv'
    OBVIOUS
  <2>1. CASE WorkerStep
    BY <2>1, WorkerKeeps, FileJobsAssumption
  <2>2. CASE Next /\ ~WorkerStep
    BY <2>2, OthersKeep, FileJobsAssumption
  <2>3. CASE UNCHANGED vars
    BY <2>3
       DEF vars, diskVars, workerVars, Removable, FileInv, TypeOK, Is, Busy, Returned,
           RunningIsHeld, GoneLeavesNothing, DoneHasResult
  <2> QED BY <2>1, <2>2, <2>3
<1> QED BY <1>1, <1>2, PTL DEF Spec

\* The table, the folders, the requests and the worker have their types.
THEOREM FileTypeCorrect == Spec => []TypeOK
<1>1. FileInv => TypeOK
  BY DEF FileInv
<1> QED BY <1>1, FileInvariant, PTL

\* However many files and attempts there are, a row says "running" only while the
\* worker has that file in hand: busy() never stays true for nothing (store.py runnable).
THEOREM FileRunningHeld ==
    ASSUME Budget["held"] = 0
    PROVE  Spec => []RunningIsHeld
<1>1. FileInv => RunningIsHeld
  BY DEF FileInv
<1> QED BY <1>1, FileInvariant, PTL

\* A file that was removed leaves no folder, whoever removed it and whatever a removal
\* before found held open.
THEOREM RemovedWhole == Spec => []GoneLeavesNothing
<1>1. FileInv => GoneLeavesNothing
  BY DEF FileInv
<1> QED BY <1>1, FileInvariant, PTL

\* A row that says "done" has its result on disk, through crashes, retries and removals
\* cut off or refused, unless a removal took files of it since.
THEOREM DoneIsServed == Spec => []DoneHasResult
<1>1. FileInv => DoneHasResult
  BY DEF FileInv
<1> QED BY <1>1, FileInvariant, PTL

(***************************************************************************)
(* The rows live the lives FileLife describes.                             *)
(***************************************************************************)
LEMMA BecomesMaps ==
    ASSUME NEW f \in Files, NEW st, RowOnly(f), row'[f].state = st
    PROVE  Life!Becomes(f, st)
BY DEF RowOnly, Life!Becomes

LEMMA QuietMaps ==
    ASSUME TypeOK, NEW f \in Files, Ask(f, "none")
    PROVE  Life!Quiet(f)
BY DEF Ask, Life!Quiet

\* What keeps the rows' states and the requests is a step nobody sees.
LEMMA Unseen ==
    ASSUME UNCHANGED stopping, \A f \in Files : row'[f].state = row[f].state
    PROVE  UNCHANGED Life!vars
BY DEF Life!vars

\* Removing a row that may be removed, or that is gone already.
LEMMA RemoveMaps ==
    ASSUME TypeOK, NEW f \in Files, RowGoes(f),
           \/ Removable(f)
           \/ row[f].state = "running" /\ stopping[f] = "delete"
           \/ row[f].state = "gone" /\ stopping[f] = "none"
    PROVE  [Life!Next]_Life!vars
<1>1. Life!Becomes(f, "gone")
  BY RowEffect, BecomesMaps
<1>2. Life!Quiet(f)
  BY QuietMaps DEF RowGoes
<1>3. CASE row[f].state = "gone" /\ stopping[f] = "none"
  <2>1. \A g \in Files : row'[g].state = row[g].state
    BY <1>3, RowEffect DEF RowOnly
  <2>2. UNCHANGED stopping
    BY <1>3 DEF RowGoes, Ask, TypeOK
  <2> QED BY <2>1, <2>2, Unseen
<1> QED BY <1>1, <1>2, <1>3 DEF Removable, Life!Remove, Life!Next

LEMMA InitMaps == Init => Life!Init
BY DEF Init, NoRow, Life!Init

\* What the worker does, a client sees as a start, a row given back, an end, a
\* cancellation, a request forgotten or a removal, or does not see.
LEMMA WorkerMaps ==
    ASSUME FileInv, FileJobsAssumption, Budget["held"] = 0, WorkerStep
    PROVE  [Life!Next]_Life!vars
<1> USE DEF Is
<1>1. TypeOK /\ cur \in Files
  BY DEF FileInv, TypeOK
<1>2. CASE Peek \/ MakeFolder \/ EngineReturns \/ EngineRaises \/ HandleCancelled
  <2>1. UNCHANGED <<row, stopping>>
    BY <1>2 DEF Peek, MakeFolder, EngineReturns, EngineRaises, HandleCancelled
  <2> QED BY <2>1, Unseen
<1>3. CASE Claim
  <2>1. CASE Claimable /\ SetState(cur, "running")
    <3>1. Life!Becomes(cur, "running")
      BY <1>1, <2>1, SetStateEffect, BecomesMaps DEF States
    <3>2. row[cur].state = "pending" /\ UNCHANGED stopping
      BY <1>3, <2>1 DEF Claim, Claimable
    <3>3. \A g \in Files : row[g].state # "running"
      BY <1>3 DEF Claim, FileInv, RunningIsHeld
    <3> QED BY <1>1, <3>1, <3>2, <3>3 DEF Life!Start, Life!Next
  <2>2. CASE ~Claimable /\ UNCHANGED row
    BY <1>3, <2>2, Unseen DEF Claim
  <2> QED BY <1>3, <2>1, <2>2 DEF Claim
<1>4. CASE MarkCancelled
  <2>1. Life!Becomes(cur, "cancelled")
    BY <1>1, <1>4, StopEffect, BecomesMaps DEF MarkCancelled
  <2>2. row[cur].state = "running" /\ stopping[cur] # "none" /\ UNCHANGED stopping
    BY <1>4 DEF MarkCancelled, FileInv, Busy
  <2> QED BY <1>1, <2>1, <2>2 DEF Life!Cancel, Life!Next
<1>5. CASE PopRequest
  <2>1. Life!Quiet(cur) /\ UNCHANGED row
    BY <1>1, <1>5, QuietMaps DEF PopRequest
  <2> QED BY <1>1, <2>1 DEF Life!Forget, Life!Next
<1>6. CASE HandleOther
  <2> DEFINE new == IF outcome = "preempted" THEN Released ELSE Failed
  <2>1. new \in Row /\ new.state \in {"pending", "failed"}
    BY <1>1, HandledRow
  <2>2. row' = [row EXCEPT ![cur] = new]
    BY <1>6 DEF HandleOther
  <2> HIDE DEF new
  <2>3. row'[cur].state \in {"pending", "failed"} /\ RowOnly(cur)
    BY <1>1, <2>1, <2>2 DEF TypeOK, RowOnly
  <2>4. row[cur].state = "running" /\ UNCHANGED stopping
    BY <1>6 DEF HandleOther, FileInv, Busy
  <2>5. CASE row'[cur].state = "pending"
    BY <1>1, <2>3, <2>4, <2>5, BecomesMaps DEF Life!GiveBack, Life!Next
  <2>6. CASE row'[cur].state = "failed"
    BY <1>1, <2>3, <2>4, <2>6, BecomesMaps DEF Life!End, Life!Next
  <2> QED BY <2>3, <2>5, <2>6
<1>7. CASE FinishDelete
  <2>1. UNCHANGED <<row, stopping>>
    BY <1>1, <1>7, FolderEffect DEF FinishDelete
  <2> QED BY <2>1, Unseen
<1>9. CASE FinishRow
  <2>1. row[cur].state \in States \ {"new"}
    BY <1>1, <1>9 DEF FinishRow, FileInv, TypeOK, Row
  <2>2. \/ Removable(cur)
        \/ row[cur].state = "running" /\ stopping[cur] = "delete"
        \/ row[cur].state = "gone" /\ stopping[cur] = "none"
    BY <1>1, <1>9, <2>1 DEF FinishRow, FileInv, Removable, States
  <2> QED BY <1>1, <1>9, <2>2, RemoveMaps DEF FinishRow
<1>8. CASE Complete
  <2>1. Life!Becomes(cur, "done")
    BY <1>1, <1>8, SetStateEffect, BecomesMaps DEF Complete, States
  <2>2. row[cur].state = "running" /\ UNCHANGED stopping
    BY <1>8 DEF Complete, FileInv, Busy
  <2> QED BY <1>1, <2>1, <2>2 DEF Life!End, Life!Next
<1> QED
  BY <1>2, <1>3, <1>4, <1>5, <1>6, <1>7, <1>8, <1>9 DEF WorkerStep

\* What everyone else does: a submission, a press, a removal, a restart, or nothing.
LEMMA OthersMap ==
    ASSUME FileInv, FileJobsAssumption, Budget["held"] = 0, Next, ~WorkerStep
    PROVE  [Life!Next]_Life!vars
<1> USE DEF Is
<1>1. TypeOK
  BY DEF FileInv
<1>2. ASSUME NEW f \in Files, Upload(f)
      PROVE  UNCHANGED Life!vars
  BY <1>2, Unseen DEF Upload
<1>3. ASSUME NEW f \in Files, Create(f)
      PROVE  [Life!Next]_Life!vars
  <2>1. UNCHANGED stopping /\ row[f].state = "new"
    BY <1>3 DEF Create
  <2>2. CASE Created(f)
    <3>1. Life!Becomes(f, "pending")
      BY <1>1, <2>2, CreatedEffect, BecomesMaps
    <3> QED BY <2>1, <3>1 DEF Life!Submit, Life!Next
  <2>3. CASE UNCHANGED row
    BY <2>1, <2>3, Unseen
  <2> QED BY <1>3, <2>2, <2>3 DEF Create
<1>4. ASSUME NEW f \in Files, Sweep(f)
      PROVE  UNCHANGED Life!vars
  BY <1>1, <1>4, FolderEffect, Unseen DEF Sweep, RemoveFolder
<1>11. ASSUME NEW f \in Files, RemoveRow(f)
       PROVE  [Life!Next]_Life!vars
  BY <1>1, <1>11, RemoveMaps DEF RemoveRow, FileInv
<1>5. ASSUME NEW f \in Files, Cancel(f)
      PROVE  Life!Next
  <2>1. CASE Is(f, "pending") /\ Stop(f) /\ Ask(f, "none")
    <3>1. Life!Becomes(f, "cancelled") /\ Life!Quiet(f)
      BY <1>1, <2>1, StopEffect, BecomesMaps, QuietMaps
    <3> QED BY <2>1, <3>1 DEF Life!Cancel, Life!Next
  <2>2. CASE /\ Is(f, "running")
             /\ stopping[f] = "none"
             /\ Ask(f, "cancel")
             /\ UNCHANGED row
    BY <2>2 DEF Ask, Life!Ask, Life!Next
  <2> QED BY <1>5, <2>1, <2>2 DEF Cancel
<1>6. ASSUME NEW f \in Files, Retry(f)
      PROVE  Life!Next
  <2>1. Life!Becomes(f, "pending")
    BY <1>1, <1>6, CreatedEffect, BecomesMaps DEF Retry
  <2> QED BY <1>6, <2>1 DEF Retry, Life!Retry, Life!Next
<1>7. ASSUME NEW f \in Files, Delete(f)
      PROVE  [Life!Next]_Life!vars
  <2>1. CASE HandedOff(f) /\ Ask(f, "delete") /\ UNCHANGED row
    BY <2>1 DEF HandedOff, Ask, Life!Ask, Life!Next
  <2>2. CASE ~HandedOff(f) /\ RemoveFolder(f)
    BY <1>1, <2>2, FolderEffect, Unseen DEF RemoveFolder
  <2> QED BY <1>7, <2>1, <2>2 DEF Delete
<1>8. ASSUME NEW f \in Files, BecomeDue(f)
      PROVE  UNCHANGED Life!vars
  <2>1. \A g \in Files : row'[g].state = row[g].state
    BY <1>1, <1>8 DEF BecomeDue, TypeOK, Row
  <2> QED BY <1>8, <2>1, Unseen DEF BecomeDue
<1>9. CASE RecordingStarts \/ RecordingEnds
  BY <1>9, Unseen DEF RecordingStarts, RecordingEnds
<1>10. CASE Restart
  <2>1. \A f \in Files :
           row'[f].state = IF row[f].state = "running" THEN "pending" ELSE row[f].state
    BY <1>1, <1>10 DEF Restart, Reset, TypeOK, Row
  <2>2. stopping' = [f \in Files |-> "none"]
    BY <1>10 DEF Restart
  <2> QED BY <2>1, <2>2 DEF Life!Restart, Life!Next
<1> QED
  BY <1>2, <1>3, <1>4, <1>5, <1>6, <1>7, <1>8, <1>9, <1>10, <1>11 DEF Next

\* What a client sees of a file job is a life FileLife allows: one job runs at a time,
\* what ended stays as it ended until it is retried or removed, and what is stopped or
\* removed while it runs was asked for.
THEOREM FilesLiveTheirLives ==
    ASSUME Budget["held"] = 0
    PROVE  Spec => LifeSpec
<1>1. FileInv /\ [Next]_vars => [Life!Next]_Life!vars
  <2> SUFFICES ASSUME FileInv, [Next]_vars
               PROVE  [Life!Next]_Life!vars
    OBVIOUS
  <2>1. CASE WorkerStep
    BY <2>1, WorkerMaps, FileJobsAssumption
  <2>2. CASE Next /\ ~WorkerStep
    BY <2>2, OthersMap, FileJobsAssumption
  <2>3. CASE UNCHANGED vars
    BY <2>3, Unseen DEF vars
  <2> QED BY <2>1, <2>2, <2>3
<1>2. Spec => []FileInv
  BY FileInvariant
<1> QED BY <1>1, <1>2, InitMaps, PTL DEF Spec, LifeSpec, Life!Spec

(***************************************************************************)
(* Writer.                                                                 *)
(***************************************************************************)
Written == Line \union {Torn}

\* The data of the chunk being closed is in the file, its line is not.
Inked == closing.at \in {"header", "line"}

\* The chunk being closed is of what waits, and its gap is in the file with it.
ShapeInv ==
    /\ ended <= now
    /\ closing # NoChunk =>
          mode # "off" /\ closing.count \in 1 .. Len(track[closing.track].pending)
    /\ Inked => track[closing.track].opened /\ track[closing.track].gap = 0

\* What makes HeaderPlays inductive: a file is as long as its track says once it is open,
\* and no shorter than the manifest says before.
FilesInv ==
    /\ \A t \in Tracks : Described(t) <= Len(wav[t])
    /\ mode # "off" =>
          \A t \in Tracks : /\ track[t].opened => Len(wav[t]) = track[t].written
                            /\ ~track[t].opened => track[t].written = Described(t)
    /\ "tail" \notin drifts =>
          \A t \in Tracks : /\ header[t] <= Len(wav[t])
                            /\ mode # "off" /\ ~track[t].opened => header[t] <= track[t].written

\* No line was torn.
Untorn == \A i \in 1 .. Len(manifest) : manifest[i] # Torn

\* What makes PromiseKept inductive: what is promised is in the part of the file that the
\* manifest tells of, which no opening cuts off; what is about to be is in the file.
PromiseInv == Untorn =>
    /\ \A t \in Tracks : \A x \in promised[t] : \E i \in 1 .. Described(t) : wav[t][i] = x
    /\ Inked => \A k \in 1 .. closing.count :
          \E i \in 1 .. track[closing.track].written :
              wav[closing.track][i] = track[closing.track].pending[k]

\* The place in the file of what waits: behind the gap, or where it has been written.
Base(t) ==
    IF Inked /\ closing.track = t THEN track[t].written - closing.count
    ELSE track[t].written + track[t].gap

\* What is written, what waits and what was missed make up the time there was.
Timely(t) ==
    /\ Base(t) + Len(track[t].pending) + track[t].missed = now
    /\ \A k \in 1 .. Len(track[t].pending) : track[t].pending[k] = Base(t) + k
    /\ track[t].lost => track[t].pending = <<>> /\ mode # "holding"
    /\ ~track[t].lost /\ mode # "holding" => track[t].missed = 0
    /\ ~(Inked /\ closing.track = t) => track[t].written = Described(t)

\* What makes TimelineKeptThroughGaps inductive.
TimeInv == drifts = {} =>
    /\ TimelineKept /\ Untorn
    /\ mode = "off" => \A t \in Tracks : Described(t) = ended
    /\ mode # "off" => \A t \in Tracks : Timely(t)

(***************************************************************************)
(* Numbers.                                                                *)
(***************************************************************************)
LEMMA LeastExists ==
    ASSUME NEW S \in SUBSET Nat, S # {}
    PROVE  \E x \in S : \A y \in S : x <= y
<1>1. PICK x \in S : \A y \in S : <<y, x>> \notin OpToRel(<, Nat)
  BY NatLessThanWellFounded, WFMin
<1>2. \A y \in S : ~(y < x)
  BY <1>1 DEF OpToRel
<1> QED BY <1>2

LEMMA GreatestIs ==
    ASSUME NEW S \in SUBSET Nat, S # {}, NEW top \in Nat, \A y \in S : y <= top
    PROVE  Max(S) \in S /\ \A y \in S : y <= Max(S)
<1> DEFINE T == {top - y : y \in S}
<1>1. T \in SUBSET Nat /\ T # {}
  <2>1. \A y \in S : top - y \in Nat
    OBVIOUS
  <2> QED BY <2>1
<1>2. PICK t \in T : \A u \in T : t <= u
  BY <1>1, LeastExists
<1>3. PICK x \in S : t = top - x
  BY <1>2
<1>4. \A y \in S : top - x <= top - y
  BY <1>2, <1>3
<1>5. \A y \in S : x >= y
  BY <1>4
<1> QED BY <1>3, <1>5 DEF Max

\* The lines of a manifest end somewhere: the first one that no bound covers cannot be.
LEMMA LinesAreBounded ==
    ASSUME NEW m \in Seq(Written)
    PROVE  \E top \in Nat : \A i \in 1 .. Len(m) : m[i].end <= top
<1> DEFINE Bounded(k) == \E top \in Nat : \A i \in 1 .. k : m[i].end <= top
           Open == {k \in 0 .. Len(m) : ~Bounded(k)}
<1>1. Len(m) \in Nat /\ \A i \in 1 .. Len(m) : m[i].end \in Nat
  <2>1. \A i \in 1 .. Len(m) : m[i] \in Written
    BY ElementOfSeq
  <2> QED BY <2>1 DEF Written, Line, Torn
<1>2. ASSUME NEW k \in 0 .. Len(m), k # 0, Bounded(k - 1) PROVE Bounded(k)
  <2>1. PICK top \in Nat : \A i \in 1 .. k - 1 : m[i].end <= top
    BY <1>2
  <2>2. k \in 1 .. Len(m) /\ m[k].end \in Nat /\ \A i \in 1 .. k : i \in 1 .. k - 1 \/ i = k
    BY <1>1, <1>2
  <2>3. CASE m[k].end <= top
    BY <2>1, <2>2, <2>3
  <2>4. CASE m[k].end > top
    <3>1. \A i \in 1 .. k : m[i].end <= m[k].end
      BY <1>1, <2>1, <2>2, <2>4
    <3> QED BY <2>2, <3>1
  <2> HIDE DEF Bounded
  <2>5. m[k].end <= top \/ m[k].end > top
    BY <2>1, <2>2
  <2> QED BY <2>3, <2>4, <2>5
<1>3. Bounded(0)
  OBVIOUS
<1> HIDE DEF Bounded
<1>4. Open = {}
  <2> SUFFICES ASSUME Open # {} PROVE FALSE
    OBVIOUS
  <2>1. Open \in SUBSET Nat
    BY <1>1
  <2>2. PICK k \in Open : \A j \in Open : k <= j
    <3> HIDE DEF Open
    <3> QED BY <2>1, LeastExists
  <2>3. k \in 0 .. Len(m) /\ ~Bounded(k) /\ k # 0
    BY <1>3, <2>2
  <2>4. k - 1 \in 0 .. Len(m) /\ ~(k <= k - 1)
    BY <1>1, <2>3
  <2>5. Bounded(k - 1)
    BY <2>2, <2>4
  <2> QED BY <1>2, <2>3, <2>5
<1>5. Len(m) \in 0 .. Len(m)
  BY <1>1
<1>6. Bounded(Len(m))
  BY <1>4, <1>5
<1> QED BY <1>6 DEF Bounded

(***************************************************************************)
(* What the manifest tells.                                                *)
(***************************************************************************)
DescribedIn(m, t) == Max({0} \union {l.end : l \in {k \in ToSet(m) : k.track = t}})

LEMMA DescribedIs ==
    ASSUME NEW m \in Seq(Written), NEW t
    PROVE  /\ DescribedIn(m, t) \in Nat
           /\ \A i \in 1 .. Len(m) : m[i].track = t => m[i].end <= DescribedIn(m, t)
           /\ \/ DescribedIn(m, t) = 0
              \/ \E i \in 1 .. Len(m) : m[i].track = t /\ m[i].end = DescribedIn(m, t)
<1> DEFINE S == {0} \union {l.end : l \in {k \in ToSet(m) : k.track = t}}
<1>1. /\ Len(m) \in Nat /\ DOMAIN m = 1 .. Len(m)
      /\ \A i \in 1 .. Len(m) : m[i].end \in Nat
  <2>1. \A i \in 1 .. Len(m) : m[i] \in Written
    BY ElementOfSeq
  <2> QED BY <2>1, LenProperties DEF Written, Line, Torn
<1>2. \A x \in S : x = 0 \/ \E i \in 1 .. Len(m) : m[i].track = t /\ m[i].end = x
  BY <1>1 DEF ToSet
<1>3. \A i \in 1 .. Len(m) : m[i].track = t => m[i].end \in S
  BY <1>1 DEF ToSet
<1>4. PICK top \in Nat : \A i \in 1 .. Len(m) : m[i].end <= top
  BY LinesAreBounded
<1>5. S \in SUBSET Nat /\ S # {} /\ \A x \in S : x <= top
  <2>1. S # {}
    OBVIOUS
  <2> HIDE DEF S
  <2>2. \A x \in S : x \in Nat /\ x <= top
    BY <1>1, <1>2, <1>4
  <2> QED BY <2>1, <2>2
<1>6. DescribedIn(m, t) = Max(S)
  BY DEF DescribedIn
<1> HIDE DEF S
<1>7. Max(S) \in S /\ \A y \in S : y <= Max(S)
  BY <1>5, GreatestIs
<1> QED BY <1>2, <1>3, <1>5, <1>6, <1>7

LEMMA DescribedAtFirst == \A t : DescribedIn(<<>>, t) = 0
<1> SUFFICES ASSUME NEW t PROVE DescribedIn(<<>>, t) = 0
  OBVIOUS
<1>1. <<>> \in Seq(Written) /\ Len(<<>>) = 0
  BY EmptySeq
<1>2. ~\E i \in 1 .. Len(<<>>) : TRUE
  BY <1>1
<1> QED BY <1>1, <1>2, DescribedIs

\* A line more tells of as much, or of what it tells.
LEMMA DescribedAppend ==
    ASSUME NEW m \in Seq(Written), NEW line \in Written, NEW t
    PROVE  DescribedIn(Append(m, line), t) =
               IF line.track = t /\ line.end > DescribedIn(m, t) THEN line.end
               ELSE DescribedIn(m, t)
<1> DEFINE n == Append(m, line)
           old == DescribedIn(m, t)
           new == DescribedIn(n, t)
<1>1. /\ n \in Seq(Written) /\ Len(m) \in Nat /\ Len(n) = Len(m) + 1
      /\ \A i \in 1 .. Len(m) : n[i] = m[i]
      /\ n[Len(m) + 1] = line
  OBVIOUS
<1>2. line.end \in Nat
  BY DEF Written, Line, Torn
<1>3. /\ old \in Nat
      /\ \A i \in 1 .. Len(m) : m[i].track = t => m[i].end <= old
      /\ old = 0 \/ \E i \in 1 .. Len(m) : m[i].track = t /\ m[i].end = old
  BY DescribedIs
<1>4. /\ new \in Nat
      /\ \A i \in 1 .. Len(n) : n[i].track = t => n[i].end <= new
      /\ new = 0 \/ \E i \in 1 .. Len(n) : n[i].track = t /\ n[i].end = new
  BY <1>1, DescribedIs
<1> HIDE DEF n, old, new
<1>5. old <= new
  BY <1>1, <1>3, <1>4
<1>6. line.track = t => line.end <= new
  BY <1>1, <1>4
<1>7. new <= old \/ (line.track = t /\ new = line.end)
  <2>1. CASE new = 0
    BY <1>3, <2>1
  <2>2. ASSUME NEW i \in 1 .. Len(n), n[i].track = t, n[i].end = new
        PROVE  new <= old \/ (line.track = t /\ new = line.end)
    <3>1. i \in 1 .. Len(m) \/ i = Len(m) + 1
      BY <1>1, <2>2
    <3> QED BY <1>1, <1>3, <2>2, <3>1
  <2> QED BY <1>4, <2>1, <2>2
<1> QED BY <1>2, <1>3, <1>4, <1>5, <1>6, <1>7 DEF n, old, new

LEMMA LinesAre ==
    ASSUME manifest \in Seq(Written), NEW line \in Written
    PROVE  /\ Lines(line) \in Seq(Written)
           /\ Lines(line) = manifest \/ Lines(line) = Append(manifest, line)
           /\ Untorn => Lines(line) = Append(manifest, line)
<1>1. Lines(line) = manifest \/ Lines(line) = Append(manifest, line)
  BY DEF Lines
<1>2. Untorn => Lines(line) = Append(manifest, line)
  <2>1. manifest # <<>> => Len(manifest) \in 1 .. Len(manifest)
    BY EmptySeq
  <2> QED BY <2>1 DEF Lines, Untorn, Last
<1> QED BY <1>1, <1>2

(***************************************************************************)
(* What the operators give.                                                *)
(***************************************************************************)
LEMMA Times == MaxTime \in Nat /\ RingUnits \in Nat /\ Tracks # {} /\ 0 \in Unit /\ Unit \subseteq Nat
BY UnitsAssumption DEF Unit

LEMMA TrackIs ==
    ASSUME WriterTypeOK, NEW t \in Tracks
    PROVE  /\ track[t] \in TrackState /\ now \in Unit /\ now \in Nat /\ ended \in Nat
           /\ track[t].pending \in Seq(Unit) /\ Len(track[t].pending) \in Nat
           /\ track[t].gap \in Nat /\ track[t].written \in Nat /\ track[t].missed \in Nat
           /\ track[t].opened \in BOOLEAN /\ track[t].lost \in BOOLEAN
           /\ track[t].ring \in Seq(Unit)
           /\ wav[t] \in Seq(Unit) /\ Len(wav[t]) \in Nat /\ header[t] \in Nat
           /\ manifest \in Seq(Written) /\ Described(t) \in Nat
           /\ Described(t) = DescribedIn(manifest, t)
<1>1. track[t] \in TrackState /\ wav[t] \in Seq(Unit) /\ header[t] \in Nat
  BY DEF WriterTypeOK
<1>2. now \in 0 .. MaxTime /\ ended \in 0 .. MaxTime
  BY DEF WriterTypeOK
<1>3. manifest \in Seq(Written)
  BY DEF WriterTypeOK, Written
<1>4. Described(t) = DescribedIn(manifest, t)
  BY DEF Described, DescribedIn
<1>5. Described(t) \in Nat
  BY <1>3, <1>4, DescribedIs
<1> QED BY <1>1, <1>2, <1>3, <1>4, <1>5, Times DEF TrackState, Unit

LEMMA FreshIs == Fresh \in TrackState
BY EmptySeq DEF Fresh, TrackState

\* What a track hears, it notes as heard or as missed.
LEMMA HeardByIs ==
    ASSUME NEW ts \in TrackState, now \in 0 .. MaxTime, now < MaxTime
    PROVE  /\ HeardBy(ts) \in TrackState
           /\ HeardBy(ts).written = ts.written /\ HeardBy(ts).gap = ts.gap
           /\ HeardBy(ts).lost = ts.lost /\ HeardBy(ts).opened = ts.opened
           /\ IF ts.lost \/ mode # "writing"
              THEN HeardBy(ts).pending = ts.pending /\ HeardBy(ts).missed = ts.missed + 1
              ELSE /\ HeardBy(ts).pending = Append(ts.pending, now + 1)
                   /\ HeardBy(ts).missed = ts.missed
<1>1. now + 1 \in Unit
  BY Times DEF Unit
<1>2. ts.missed + 1 \in Nat /\ Append(ts.pending, now + 1) \in Seq(Unit)
  BY <1>1 DEF TrackState
<1>3. LastOf(Append(ts.ring, now + 1), RingUnits) \in Seq(Unit)
  <2> DEFINE s == Append(ts.ring, now + 1)
  <2>1. s \in Seq(Unit) /\ Len(s) \in Nat /\ \A i \in 1 .. Len(s) : s[i] \in Unit
    BY <1>1 DEF TrackState
  <2> HIDE DEF s
  <2>2. SubSeq(s, Len(s) - RingUnits + 1, Len(s)) \in Seq(Unit) \/ Len(s) <= RingUnits
    <3> SUFFICES ASSUME ~(Len(s) <= RingUnits)
                 PROVE  SubSeq(s, Len(s) - RingUnits + 1, Len(s)) \in Seq(Unit)
      OBVIOUS
    <3>1. Len(s) - RingUnits + 1 \in Int /\ Len(s) - RingUnits + 1 >= 1
      BY <2>1, Times
    <3>2. \A i \in Len(s) - RingUnits + 1 .. Len(s) : s[i] \in Unit
      BY <2>1, <3>1
    <3> QED BY <2>1, <3>1, <3>2, SubSeqProperties
  <2> QED BY <2>1, <2>2 DEF LastOf, s
<1>4. CASE ts.lost
  BY <1>2, <1>4 DEF HeardBy, TrackState
<1>5. CASE ~ts.lost /\ mode = "writing"
  BY <1>2, <1>5 DEF HeardBy, TrackState
<1>6. CASE ~ts.lost /\ mode # "writing"
  <2> DEFINE heard == LastOf(Append(ts.ring, now + 1), RingUnits)
  <2>1. HeardBy(ts) = [ts EXCEPT !.ring = heard, !.missed = @ + 1]
    BY <1>6 DEF HeardBy
  <2>2. heard \in Seq(Unit)
    BY <1>3
  <2> HIDE DEF heard
  <2> QED BY <1>2, <1>6, <2>1, <2>2 DEF TrackState
<1> QED BY <1>4, <1>5, <1>6

LEMMA SilenceIs ==
    ASSUME NEW n \in Nat
    PROVE  Silence(n) \in Seq(Unit) /\ Len(Silence(n)) = n /\ \A i \in 1 .. n : Silence(n)[i] = 0
<1>1. Silence(n) = [i \in 1 .. n |-> 0]
  BY DEF Silence
<1>2. Silence(n) \in Seq(Unit)
  BY <1>1, Times, SeqDef
<1> QED BY <1>1, <1>2

\* What is taken of what waits, and what is left of it.
LEMMA TakenIs ==
    ASSUME WriterTypeOK, NEW t \in Tracks, closing.count \in 1 .. Len(track[t].pending)
    PROVE  /\ Taken(t) \in Seq(Unit) /\ Len(Taken(t)) = closing.count
           /\ \A k \in 1 .. closing.count : Taken(t)[k] = track[t].pending[k]
           /\ SubSeq(track[t].pending, closing.count + 1, Len(track[t].pending)) \in Seq(Unit)
           /\ Len(SubSeq(track[t].pending, closing.count + 1, Len(track[t].pending)))
                 = Len(track[t].pending) - closing.count
           /\ \A k \in 1 .. Len(track[t].pending) - closing.count :
                 SubSeq(track[t].pending, closing.count + 1, Len(track[t].pending))[k]
                     = track[t].pending[closing.count + k]
<1> DEFINE p == track[t].pending
           c == closing.count
<1>1. p \in Seq(Unit) /\ Len(p) \in Nat /\ c \in 1 .. Len(p)
  BY TrackIs
<1>2. \A i \in 1 .. Len(p) : p[i] \in Unit
  BY <1>1
<1> HIDE DEF p, c
<1>3. /\ SubSeq(p, 1, c) \in Seq(Unit) /\ Len(SubSeq(p, 1, c)) = c
      /\ \A k \in 1 .. c : SubSeq(p, 1, c)[k] = p[k]
  <2>1. \A i \in 1 .. c : p[i] \in Unit
    BY <1>1, <1>2
  <2>2. 1 \in Int /\ c \in Int /\ 1 <= c /\ c - 1 + 1 = c /\ \A k \in 1 .. c : 1 + k - 1 = k
    BY <1>1
  <2> QED BY <2>1, <2>2, SubSeqProperties
<1>4. /\ SubSeq(p, c + 1, Len(p)) \in Seq(Unit)
      /\ Len(SubSeq(p, c + 1, Len(p))) = Len(p) - c
      /\ \A k \in 1 .. Len(p) - c : SubSeq(p, c + 1, Len(p))[k] = p[c + k]
  <2>1. \A i \in c + 1 .. Len(p) : p[i] \in Unit
    BY <1>1, <1>2
  <2>2. /\ c + 1 \in Int /\ Len(p) \in Int /\ Len(p) - (c + 1) + 1 = Len(p) - c
        /\ \A k \in 1 .. Len(p) - c : (c + 1) + k - 1 = c + k
        /\ ~(c + 1 <= Len(p)) => Len(p) - c = 0
    BY <1>1
  <2>3. /\ SubSeq(p, c + 1, Len(p)) \in Seq(Unit)
        /\ Len(SubSeq(p, c + 1, Len(p))) = IF c + 1 <= Len(p) THEN Len(p) - (c + 1) + 1 ELSE 0
        /\ \A k \in 1 .. Len(p) - (c + 1) + 1 : SubSeq(p, c + 1, Len(p))[k] = p[(c + 1) + k - 1]
    BY <2>1, <2>2, SubSeqProperties
  <2> QED BY <2>2, <2>3
<1> QED BY <1>3, <1>4 DEF Taken, p, c

\* A file that is open has what it had, as far as its track goes.
LEMMA OpenedIs ==
    ASSUME WriterTypeOK, FilesInv, mode # "off", NEW t \in Tracks
    PROVE  /\ Opened(t) \in Seq(Unit) /\ Len(Opened(t)) = track[t].written
           /\ track[t].written <= Len(wav[t])
           /\ \A i \in 1 .. track[t].written : Opened(t)[i] = wav[t][i]
<1> DEFINE w == wav[t]
           n == track[t].written
<1>1. w \in Seq(Unit) /\ Len(w) \in Nat /\ n \in Nat
  BY TrackIs
<1>2. n <= Len(w) /\ (track[t].opened => Len(w) = n)
  BY <1>1, TrackIs DEF FilesInv
<1>3. Opened(t) = IF track[t].opened THEN w ELSE SubSeq(w, 1, n)
  BY DEF Opened
<1> HIDE DEF w, n
<1>4. CASE track[t].opened
  BY <1>1, <1>2, <1>3, <1>4 DEF w, n
<1>5. CASE ~track[t].opened
  <2>1. \A i \in 1 .. n : w[i] \in Unit
    BY <1>1, <1>2
  <2>2. 1 \in Int /\ n \in Int /\ (~(1 <= n) => n = 0) /\ n - 1 + 1 = n /\ \A k \in 1 .. n : 1 + k - 1 = k
    BY <1>1
  <2>3. /\ SubSeq(w, 1, n) \in Seq(Unit)
        /\ Len(SubSeq(w, 1, n)) = IF 1 <= n THEN n - 1 + 1 ELSE 0
        /\ \A k \in 1 .. n - 1 + 1 : SubSeq(w, 1, n)[k] = w[1 + k - 1]
    BY <2>1, <2>2, SubSeqProperties
  <2> QED BY <1>1, <1>2, <1>3, <1>5, <2>2, <2>3 DEF w, n
<1> QED BY <1>4, <1>5

\* The file of u with the chunk of the track t behind its gap.
With(u, t) == Opened(u) \o IF u = t THEN Silence(track[t].gap) \o Taken(t) ELSE <<>>

LEMMA WithIs ==
    ASSUME WriterTypeOK, FilesInv, mode # "off", NEW t \in Tracks, NEW u \in Tracks,
           closing.count \in 1 .. Len(track[t].pending)
    PROVE  /\ With(u, t) \in Seq(Unit)
           /\ Len(Silence(track[t].gap) \o Taken(t)) = track[t].gap + closing.count
           /\ Len(With(u, t)) = track[u].written + IF u = t THEN track[t].gap + closing.count ELSE 0
           /\ \A i \in 1 .. track[u].written : With(u, t)[i] = wav[u][i]
           /\ u = t =>
                /\ \A i \in track[t].written + 1 .. track[t].written + track[t].gap : With(u, t)[i] = 0
                /\ \A k \in 1 .. closing.count :
                     With(u, t)[track[t].written + track[t].gap + k] = track[t].pending[k]
<1> DEFINE s == Silence(track[t].gap)
           c == Taken(t)
           g == track[t].gap
           n == track[u].written
           count == closing.count
<1>1. /\ s \in Seq(Unit) /\ Len(s) = g /\ \A i \in 1 .. g : s[i] = 0
      /\ c \in Seq(Unit) /\ Len(c) = count /\ \A k \in 1 .. count : c[k] = track[t].pending[k]
      /\ g \in Nat /\ count \in Nat /\ n \in Nat
  <2>1. g \in Nat /\ n \in Nat /\ Len(track[t].pending) \in Nat
    BY TrackIs
  <2>2. s \in Seq(Unit) /\ Len(s) = g /\ \A i \in 1 .. g : s[i] = 0
    BY <2>1, SilenceIs
  <2>3. c \in Seq(Unit) /\ Len(c) = count /\ \A k \in 1 .. count : c[k] = track[t].pending[k]
    BY TakenIs
  <2>4. count \in Nat
    BY <2>1
  <2> QED BY <2>1, <2>2, <2>3, <2>4
<1>2. /\ Opened(u) \in Seq(Unit) /\ Len(Opened(u)) = n
      /\ \A i \in 1 .. n : Opened(u)[i] = wav[u][i]
  BY OpenedIs
<1>3. With(u, t) = Opened(u) \o IF u = t THEN s \o c ELSE <<>>
  BY DEF With
<1> DEFINE both == s \o c
<1> HIDE DEF s, c, g, n, count
<1>4. /\ both \in Seq(Unit) /\ Len(both) = g + count
      /\ \A i \in 1 .. g : both[i] = 0
      /\ \A k \in 1 .. count : both[g + k] = c[k]
  <2>1. /\ both \in Seq(Unit) /\ Len(both) = g + count
        /\ \A i \in 1 .. g + count : both[i] = IF i <= g THEN s[i] ELSE c[i - g]
    BY <1>1, ConcatProperties
  <2>2. \A k \in 1 .. count : g + k \in 1 .. g + count /\ ~(g + k <= g) /\ (g + k) - g = k
    BY <1>1
  <2>3. \A i \in 1 .. g : i \in 1 .. g + count
    BY <1>1
  <2> HIDE DEF both
  <2> QED BY <1>1, <2>1, <2>2, <2>3
<1>5. CASE u # t
  <2>1. With(u, t) = Opened(u)
    BY <1>2, <1>3, <1>5, ConcatEmptySeq
  <2> QED BY <1>1, <1>2, <1>4, <1>5, <2>1 DEF g, count, n, s, c
<1>6. CASE u = t
  <2> HIDE DEF both
  <2>1. /\ With(u, t) \in Seq(Unit) /\ Len(With(u, t)) = n + (g + count)
        /\ \A i \in 1 .. n + (g + count) :
              With(u, t)[i] = IF i <= n THEN Opened(u)[i] ELSE both[i - n]
    BY <1>2, <1>3, <1>4, <1>6, ConcatProperties DEF both
  <2>2. \A i \in 1 .. n : With(u, t)[i] = wav[u][i]
    BY <1>1, <1>2, <2>1
  <2>3. ASSUME NEW i \in n + 1 .. n + g PROVE With(u, t)[i] = 0
    <3>1. i \in 1 .. n + (g + count) /\ ~(i <= n) /\ i - n \in 1 .. g
      BY <1>1
    <3> QED BY <1>4, <2>1, <3>1
  <2>4. ASSUME NEW k \in 1 .. count PROVE With(u, t)[n + g + k] = track[t].pending[k]
    <3>1. n + g + k \in 1 .. n + (g + count) /\ ~(n + g + k <= n) /\ (n + g + k) - n = g + k
      BY <1>1
    <3> QED BY <1>1, <1>4, <2>1, <3>1
  <2>5. track[t].written = n
    BY <1>6 DEF n
  <2> QED BY <1>4, <1>6, <2>1, <2>2, <2>3, <2>4, <2>5 DEF g, count, n, s, c, both
<1> QED BY <1>5, <1>6

(***************************************************************************)
(* The files are what the code believes them to be, and play.              *)
(***************************************************************************)
Believed == WriterTypeOK /\ ShapeInv /\ FilesInv

LEMMA DescribedStays ==
    ASSUME manifest' = manifest
    PROVE  \A t : Described(t)' = Described(t)
BY DEF Described

\* Between chunks, the shape is that of the end.
LEMMA CalmShape ==
    ASSUME closing' = NoChunk, ended' <= now'
    PROVE  ShapeInv'
BY DEF ShapeInv, Inked, NoChunk

\* Nothing is written, nothing opened.
LEMMA SameFiles ==
    ASSUME FilesInv, UNCHANGED <<wav, header, manifest>>, drifts \subseteq drifts',
           mode' # "off" => mode # "off",
           \A t \in Tracks : /\ track'[t].opened = track[t].opened
                             /\ track'[t].written = track[t].written
    PROVE  FilesInv'
<1>1. \A t : Described(t)' = Described(t)
  BY DescribedStays
<1>2. \A t \in Tracks : Described(t)' <= Len(wav'[t])
  BY <1>1 DEF FilesInv
<1>3. mode' # "off" =>
          \A t \in Tracks : /\ track'[t].opened => Len(wav'[t]) = track'[t].written
                            /\ ~track'[t].opened => track'[t].written = Described(t)'
  BY <1>1 DEF FilesInv
<1>4. "tail" \notin drifts' =>
          \A t \in Tracks : /\ header'[t] <= Len(wav'[t])
                            /\ mode' # "off" /\ ~track'[t].opened => header'[t] <= track'[t].written
  BY DEF FilesInv
<1> QED BY <1>2, <1>3, <1>4 DEF FilesInv

LEMMA ChanceIs ==
    ASSUME WriterTypeOK, NEW k \in Kinds, Chance(k)
    PROVE  chances' \in [Kinds -> Nat]
<1>1. chances \in [Kinds -> Nat] /\ chances[k] \in Nat /\ chances[k] > 0
  BY DEF WriterTypeOK, Chance
<1>2. chances[k] - 1 \in Nat
  BY <1>1
<1> QED BY <1>1, <1>2 DEF Chance

LEMMA HearsIs ==
    ASSUME WriterTypeOK, Hears1, mode # "off", NEW t \in Tracks
    PROVE  track'[t] = HeardBy(track[t])
BY DEF Hears1

LEMMA HearsFiles == ASSUME Believed, Hears1 PROVE Believed'
<1> USE DEF Believed
<1>1. now \in 0 .. MaxTime /\ now < MaxTime /\ now' = now + 1 /\ now' \in 0 .. MaxTime
  BY Times DEF Hears1, WriterTypeOK
<1>2. ASSUME NEW t \in Tracks
      PROVE  /\ track'[t] \in TrackState
             /\ track'[t].opened = track[t].opened /\ track'[t].written = track[t].written
  <2>1. track[t] \in TrackState
    BY TrackIs
  <2>2. CASE mode = "off"
    BY <2>1, <2>2 DEF Hears1
  <2>3. CASE mode # "off"
    BY <1>1, <2>1, <2>3, HearsIs, HeardByIs
  <2> QED BY <2>2, <2>3
<1>3. track' = [t \in Tracks |-> track'[t]]
  BY DEF Hears1, WriterTypeOK
<1>4. track' \in [Tracks -> TrackState]
  BY <1>2, <1>3
<1>5. WriterTypeOK'
  BY <1>1, <1>4 DEF Hears1, WriterTypeOK, disks
<1>6. ShapeInv'
  <2>1. closing' = NoChunk /\ ended' = ended /\ ended <= now /\ ended \in Nat
    BY DEF Hears1, Calm, ShapeInv, WriterTypeOK
  <2> QED BY <1>1, <2>1, CalmShape
<1>7. FilesInv'
  BY <1>2, SameFiles DEF Hears1, disks
<1> QED BY <1>5, <1>6, <1>7

LEMMA HoldsFiles == ASSUME Believed, Holds PROVE Believed'
<1> USE DEF Believed
<1>1. <<>> \in Seq(Unit)
  BY EmptySeq
<1>2. ASSUME NEW t \in Tracks
      PROVE  /\ [track[t] EXCEPT !.ring = <<>>] \in TrackState
             /\ track'[t].opened = track[t].opened /\ track'[t].written = track[t].written
  <2>1. track[t] \in TrackState
    BY TrackIs
  <2> QED BY <1>1, <2>1 DEF Holds, TrackState
<1>3. track' \in [Tracks -> TrackState]
  BY <1>2 DEF Holds
<1>4. chances' \in [Kinds -> Nat]
  BY ChanceIs DEF Holds, Kinds
<1>5. WriterTypeOK'
  BY <1>3, <1>4 DEF Holds, WriterTypeOK, disks
<1>6. ShapeInv'
  BY CalmShape DEF Holds, Calm, ShapeInv
<1>7. FilesInv'
  BY <1>2, SameFiles DEF Holds, disks
<1> QED BY <1>5, <1>6, <1>7

LEMMA ReleasesFiles == ASSUME Believed, NEW keep \in BOOLEAN, Releases(keep) PROVE Believed'
<1> USE DEF Believed
<1>1. <<>> \in Seq(Unit) /\ 0 \in Nat
  BY EmptySeq
<1> DEFINE After(t) == IF keep
           THEN [track[t] EXCEPT !.pending = @ \o track[t].ring, !.ring = <<>>, !.missed = 0]
           ELSE [track[t] EXCEPT !.gap = @ + track[t].missed, !.ring = <<>>, !.missed = 0]
<1>2. ASSUME NEW t \in Tracks
      PROVE  /\ After(t) \in TrackState
             /\ After(t).opened = track[t].opened /\ After(t).written = track[t].written
  <2>1. track[t] \in TrackState
    BY TrackIs
  <2>2. track[t].pending \o track[t].ring \in Seq(Unit) /\ track[t].gap + track[t].missed \in Nat
    BY <2>1 DEF TrackState
  <2>3. CASE keep
    BY <1>1, <2>1, <2>2, <2>3 DEF TrackState
  <2>4. CASE ~keep
    BY <1>1, <2>1, <2>2, <2>4 DEF TrackState
  <2> QED BY <2>3, <2>4
<1>3. track' = [t \in Tracks |-> After(t)]
  BY DEF Releases
<1> HIDE DEF After
<1>4. track' \in [Tracks -> TrackState]
  BY <1>2, <1>3
<1>5. WriterTypeOK'
  BY <1>4 DEF Releases, WriterTypeOK, disks
<1>6. ShapeInv'
  BY CalmShape DEF Releases, Calm, ShapeInv
<1>7. FilesInv'
  BY <1>2, <1>3, SameFiles DEF Releases, disks
<1> QED BY <1>5, <1>6, <1>7

LEMMA LosesFiles == ASSUME Believed, NEW t \in Tracks, Loses(t) PROVE Believed'
<1> USE DEF Believed
<1>1. /\ [track[t] EXCEPT !.lost = TRUE] \in TrackState
      /\ [track[t] EXCEPT !.lost = TRUE].opened = track[t].opened
      /\ [track[t] EXCEPT !.lost = TRUE].written = track[t].written
  BY TrackIs DEF TrackState
<1>2. track \in [Tracks -> TrackState] /\ track' = [track EXCEPT ![t] = [track[t] EXCEPT !.lost = TRUE]]
  BY DEF Loses, WriterTypeOK
<1>3. track' \in [Tracks -> TrackState]
  BY <1>1, <1>2
<1>4. chances' \in [Kinds -> Nat]
  BY ChanceIs DEF Loses, Kinds
<1>5. WriterTypeOK'
  BY <1>3, <1>4 DEF Loses, WriterTypeOK, disks
<1>6. ShapeInv'
  BY CalmShape DEF Loses, Calm, ShapeInv
<1>7. FilesInv'
  BY <1>1, <1>2, SameFiles DEF Loses, disks
<1> QED BY <1>5, <1>6, <1>7

LEMMA ReopensIs ==
    ASSUME WriterTypeOK, NEW t \in Tracks, Reopens(t)
    PROVE  /\ track' \in [Tracks -> TrackState]
           /\ track'[t] = [track[t] EXCEPT !.lost = FALSE, !.missed = 0, !.gap = @ + track[t].missed]
           /\ \A u \in Tracks : u # t => track'[u] = track[u]
<1> DEFINE new == [track[t] EXCEPT !.lost = FALSE, !.missed = 0, !.gap = @ + track[t].missed]
<1>1. new \in TrackState
  <2>1. track[t] \in TrackState /\ track[t].gap + track[t].missed \in Nat
    BY TrackIs
  <2> QED BY <2>1 DEF TrackState
<1>2. track \in [Tracks -> TrackState] /\ track' = [track EXCEPT ![t] = new]
  BY DEF Reopens, WriterTypeOK
<1> HIDE DEF new
<1>3. track' \in [Tracks -> TrackState] /\ track'[t] = new /\ \A u \in Tracks : u # t => track'[u] = track[u]
  BY <1>1, <1>2
<1> QED BY <1>3 DEF new

LEMMA ReopensFiles == ASSUME Believed, NEW t \in Tracks, Reopens(t) PROVE Believed'
<1> USE DEF Believed
<1>1. /\ track' \in [Tracks -> TrackState]
      /\ track'[t] = [track[t] EXCEPT !.lost = FALSE, !.missed = 0, !.gap = @ + track[t].missed]
      /\ \A u \in Tracks : u # t => track'[u] = track[u]
  BY ReopensIs
<1>2. track'[t].opened = track[t].opened /\ track'[t].written = track[t].written
  <2>1. track[t] \in TrackState
    BY TrackIs
  <2> QED BY <1>1, <2>1 DEF TrackState
<1>3. WriterTypeOK'
  BY <1>1 DEF Reopens, WriterTypeOK, disks
<1>4. ShapeInv'
  BY CalmShape DEF Reopens, Calm, ShapeInv
<1>5. \A u \in Tracks : track'[u].opened = track[u].opened /\ track'[u].written = track[u].written
  BY <1>1, <1>2
<1>6. FilesInv'
  BY <1>5, SameFiles DEF Reopens, disks
<1> QED BY <1>3, <1>4, <1>6

LEMMA CutsFiles == ASSUME Believed, NEW t \in Tracks, Cuts(t) PROVE Believed'
<1> USE DEF Believed
<1>1. PICK n \in 1 .. Len(track[t].pending) : closing' = [at |-> "data", track |-> t, count |-> n]
  BY DEF Cuts
<1>2. n \in Nat
  BY TrackIs
<1>3. WriterTypeOK'
  BY <1>1, <1>2 DEF Cuts, WriterTypeOK, disks
<1>4. ShapeInv'
  BY <1>1 DEF Cuts, ShapeInv, Inked
<1>5. FilesInv'
  BY SameFiles DEF Cuts, disks
<1> QED BY <1>3, <1>4, <1>5

LEMMA StopsFiles == ASSUME Believed, Stops PROVE Believed'
<1> USE DEF Believed
<1>1. chances' \in [Kinds -> Nat]
  BY ChanceIs DEF Stops, Kinds
<1>2. WriterTypeOK'
  BY <1>1 DEF Stops, WriterTypeOK, disks
<1>3. ShapeInv'
  BY CalmShape DEF Stops, Calm, ShapeInv
<1>4. FilesInv'
  BY SameFiles DEF Stops, disks
<1> QED BY <1>2, <1>3, <1>4

\* The chunk being closed.
LEMMA ChunkIs ==
    ASSUME Believed, closing # NoChunk
    PROVE  /\ closing \in [at : {"data", "header", "line"}, track : Tracks, count : Nat]
           /\ closing.track \in Tracks /\ mode # "off"
           /\ closing.count \in 1 .. Len(track[closing.track].pending)
           /\ closing.at = "data" \/ Inked
BY DEF Believed, WriterTypeOK, ShapeInv, Inked

LEMMA DataIs ==
    ASSUME Believed, WritesData
    PROVE  /\ wav' \in [Tracks -> Seq(Unit)]
           /\ track' \in [Tracks -> TrackState]
           /\ \A u \in Tracks :
                 LET here == u = closing.track IN
                 /\ wav'[u] = With(u, closing.track)
                 /\ track'[u].opened
                 /\ track'[u].written = track[u].written
                        + IF here THEN track[u].gap + closing.count ELSE 0
                 /\ Len(wav'[u]) = track'[u].written
                 /\ track'[u].gap = IF here THEN 0 ELSE track[u].gap
                 /\ track'[u].pending = track[u].pending
                 /\ track'[u].missed = track[u].missed /\ track'[u].lost = track[u].lost
<1> USE DEF Believed
<1> DEFINE t == closing.track
           more == Silence(track[t].gap) \o Taken(t)
           After(u) == [track[u] EXCEPT !.opened = TRUE,
              !.written = IF u = t THEN @ + Len(more) ELSE @,
              !.gap = IF u = t THEN 0 ELSE @]
<1>1. closing # NoChunk /\ closing.at = "data"
  <2>1. closing.at = "data"
    BY DEF WritesData
  <2> QED BY <2>1 DEF NoChunk
<1>2. t \in Tracks /\ mode # "off" /\ closing.count \in 1 .. Len(track[t].pending)
  BY <1>1, ChunkIs
<1>3. wav' = [u \in Tracks |-> With(u, t)]
  BY DEF WritesData, With
<1>4. track' = [u \in Tracks |-> After(u)]
  BY DEF WritesData
<1>5. ASSUME NEW u \in Tracks
      PROVE  /\ After(u) \in TrackState /\ After(u).opened
             /\ After(u).written = track[u].written
                    + IF u = t THEN track[u].gap + closing.count ELSE 0
             /\ After(u).gap = IF u = t THEN 0 ELSE track[u].gap
             /\ After(u).pending = track[u].pending
             /\ After(u).missed = track[u].missed /\ After(u).lost = track[u].lost
  <2>1. Len(more) = track[t].gap + closing.count
    BY <1>2, WithIs
  <2>2. closing.count \in Nat /\ track[u] \in TrackState /\ track[u].gap \in Nat /\ track[u].written \in Nat
    BY <1>2, TrackIs
  <2> HIDE DEF more, t
  <2>3. ASSUME NEW w \in Nat, NEW g \in Nat,
               After(u) = [track[u] EXCEPT !.opened = TRUE, !.written = w, !.gap = g]
        PROVE  /\ After(u) \in TrackState /\ After(u).opened
               /\ After(u).written = w /\ After(u).gap = g
               /\ After(u).pending = track[u].pending
               /\ After(u).missed = track[u].missed /\ After(u).lost = track[u].lost
    <3> HIDE DEF After
    <3>1. track[u] \in TrackState
      BY <2>2
    <3> QED BY <2>3, <3>1 DEF TrackState
  <2>4. CASE u = t
    <3>1. After(u) = [track[u] EXCEPT !.opened = TRUE, !.written = track[u].written + Len(more),
                                      !.gap = 0]
      BY <2>4
    <3>2. /\ track[u].written + Len(more) \in Nat /\ 0 \in Nat
          /\ Len(more) = track[u].gap + closing.count
      BY <2>1, <2>2, <2>4
    <3> DEFINE w == track[u].written + Len(more)
    <3>3. w \in Nat /\ 0 \in Nat /\ w = track[u].written + (track[u].gap + closing.count)
      BY <3>2
    <3>4. After(u) = [track[u] EXCEPT !.opened = TRUE, !.written = w, !.gap = 0]
      BY <3>1
    <3> HIDE DEF After, w
    <3>5. /\ After(u) \in TrackState /\ After(u).opened
          /\ After(u).written = w /\ After(u).gap = 0
          /\ After(u).pending = track[u].pending
          /\ After(u).missed = track[u].missed /\ After(u).lost = track[u].lost
      BY <2>3, <3>3, <3>4
    <3> QED BY <2>4, <3>3, <3>5
  <2>5. CASE u # t
    <3>1. After(u) = [track[u] EXCEPT !.opened = TRUE, !.written = track[u].written,
                                      !.gap = track[u].gap]
      BY <2>5
    <3>2. track[u].written + 0 = track[u].written
      BY <2>2
    <3> HIDE DEF After
    <3> QED BY <2>2, <2>3, <2>5, <3>1, <3>2
  <2> QED BY <2>4, <2>5
<1>6. ASSUME NEW u \in Tracks
      PROVE  /\ With(u, t) \in Seq(Unit)
             /\ Len(With(u, t)) = track[u].written
                    + IF u = t THEN track[u].gap + closing.count ELSE 0
  <2>1. /\ With(u, t) \in Seq(Unit)
        /\ Len(With(u, t)) = track[u].written + IF u = t THEN track[t].gap + closing.count ELSE 0
    BY <1>2, WithIs
  <2> QED BY <2>1
<1> HIDE DEF After, t, more
<1>7. wav' \in [Tracks -> Seq(Unit)] /\ track' \in [Tracks -> TrackState]
  BY <1>3, <1>4, <1>5, <1>6
<1> QED BY <1>3, <1>4, <1>5, <1>6, <1>7 DEF t

LEMMA OpenedHeaderIs ==
    ASSUME Believed, mode # "off", "tail" \notin drifts, NEW t \in Tracks
    PROVE  OpenedHeader[t] <= track[t].written
<1>1. header[t] \in Nat /\ track[t].written \in Nat /\ track[t].opened \in BOOLEAN
  BY TrackIs DEF Believed
<1>2. header[t] <= track[t].written
  BY <1>1 DEF Believed, FilesInv
<1> QED BY <1>1, <1>2 DEF OpenedHeader

LEMMA OpenedHeaderType == ASSUME WriterTypeOK PROVE OpenedHeader \in [Tracks -> Nat]
BY DEF OpenedHeader, WriterTypeOK

LEMMA DataFiles == ASSUME Believed, WritesData PROVE Believed'
<1> USE DEF Believed
<1> DEFINE t == closing.track
<1>1. /\ closing # NoChunk /\ closing.at = "data" /\ t \in Tracks /\ mode # "off"
      /\ closing \in [at : {"data", "header", "line"}, track : Tracks, count : Nat]
      /\ closing.count \in 1 .. Len(track[t].pending)
  <2>1. closing.at = "data"
    BY DEF WritesData
  <2>2. closing # NoChunk
    BY <2>1 DEF NoChunk
  <2> QED BY <2>1, <2>2, ChunkIs
<1>2. /\ closing' \in [at : {"data", "header", "line"}, track : Tracks, count : Nat]
      /\ closing'.at = "header" /\ closing'.track = t /\ closing'.count = closing.count
  BY <1>1 DEF WritesData
<1>3. /\ wav' \in [Tracks -> Seq(Unit)] /\ track' \in [Tracks -> TrackState]
      /\ \A u \in Tracks :
            /\ track'[u].opened /\ Len(wav'[u]) = track'[u].written
            /\ track'[u].pending = track[u].pending
      /\ track'[t].gap = 0
  BY <1>1, DataIs
<1>4. \A u \in Tracks : track[u].written <= Len(wav'[u])
  <2> SUFFICES ASSUME NEW u \in Tracks PROVE track[u].written <= Len(wav'[u])
    OBVIOUS
  <2>1. /\ Len(wav'[u]) = track'[u].written
        /\ track'[u].written = track[u].written + IF u = t THEN track[u].gap + closing.count ELSE 0
    BY DataIs
  <2>2. closing.count \in Nat /\ track[u].gap \in Nat /\ track[u].written \in Nat
    BY <1>1, TrackIs
  <2> QED BY <2>1, <2>2
<1>5. header' = OpenedHeader /\ header' \in [Tracks -> Nat]
  BY OpenedHeaderType DEF WritesData
<1>6. WriterTypeOK'
  BY <1>2, <1>3, <1>5 DEF WritesData, WriterTypeOK
<1>7. ShapeInv'
  BY <1>1, <1>2, <1>3 DEF WritesData, ShapeInv, Inked
<1>8. FilesInv'
  <2>1. \A u \in Tracks : Described(u)' <= Len(wav'[u])
    <3> SUFFICES ASSUME NEW u \in Tracks PROVE Described(u)' <= Len(wav'[u])
      OBVIOUS
    <3>1. Described(u)' = Described(u)
      BY DescribedStays DEF WritesData
    <3>2. Described(u) <= track[u].written
      <4>1. track[u].written \in Nat /\ Described(u) \in Nat /\ track[u].opened \in BOOLEAN
        BY TrackIs
      <4> QED BY <1>1, <4>1 DEF FilesInv
    <3>3. Len(wav'[u]) \in Nat /\ track[u].written \in Nat /\ Described(u) \in Nat
      <4>1. wav'[u] \in Seq(Unit)
        BY <1>3
      <4> QED BY <4>1, TrackIs, LenProperties
    <3> QED BY <1>4, <3>1, <3>2, <3>3
  <2>2. ASSUME NEW u \in Tracks, "tail" \notin drifts' PROVE header'[u] <= Len(wav'[u])
    <3>1. header'[u] <= track[u].written
      BY <1>1, <1>5, <2>2, OpenedHeaderIs DEF WritesData
    <3>2. Len(wav'[u]) \in Nat /\ track[u].written \in Nat /\ header'[u] \in Nat
      <4>1. wav'[u] \in Seq(Unit)
        BY <1>3
      <4> QED BY <1>5, <4>1, TrackIs, LenProperties
    <3> QED BY <1>4, <3>1, <3>2
  <2> QED BY <1>3, <2>1, <2>2 DEF FilesInv
<1> QED BY <1>6, <1>7, <1>8

LEMMA HeaderFiles == ASSUME Believed, WritesHeader PROVE Believed'
<1> USE DEF Believed
<1> DEFINE t == closing.track
<1>1. /\ closing # NoChunk /\ closing.at = "header" /\ t \in Tracks /\ mode # "off"
      /\ closing \in [at : {"data", "header", "line"}, track : Tracks, count : Nat]
      /\ closing.count \in 1 .. Len(track[t].pending)
  BY ChunkIs DEF WritesHeader, NoChunk
<1>2. track[t].opened /\ track[t].gap = 0 /\ track[t].written = Len(wav[t]) /\ track[t].written \in Nat
  BY <1>1, TrackIs DEF ShapeInv, FilesInv, Inked
<1>3. /\ closing' \in [at : {"data", "header", "line"}, track : Tracks, count : Nat]
      /\ closing'.at = "line" /\ closing'.track = t /\ closing'.count = closing.count
  BY <1>1 DEF WritesHeader
<1>4. /\ header' \in [Tracks -> Nat] /\ header'[t] = track[t].written
      /\ \A u \in Tracks : u # t => header'[u] = header[u]
  BY <1>1, <1>2 DEF WritesHeader, WriterTypeOK
<1>5. WriterTypeOK'
  BY <1>3, <1>4 DEF WritesHeader, WriterTypeOK
<1>6. ShapeInv'
  BY <1>1, <1>2, <1>3 DEF WritesHeader, ShapeInv, Inked
<1>7. FilesInv'
  <2>1. \A u \in Tracks : Described(u)' <= Len(wav'[u])
    BY DescribedStays DEF WritesHeader, FilesInv
  <2>2. mode' # "off" => \A u \in Tracks : /\ track'[u].opened => Len(wav'[u]) = track'[u].written
                                           /\ ~track'[u].opened => track'[u].written = Described(u)'
    BY DescribedStays DEF WritesHeader, FilesInv
  <2>3. "tail" \notin drifts' => \A u \in Tracks :
            /\ header'[u] <= Len(wav'[u])
            /\ mode' # "off" /\ ~track'[u].opened => header'[u] <= track'[u].written
    <3> SUFFICES ASSUME "tail" \notin drifts', NEW u \in Tracks
                 PROVE  /\ header'[u] <= Len(wav'[u])
                        /\ mode' # "off" /\ ~track'[u].opened => header'[u] <= track'[u].written
      OBVIOUS
    <3>1. CASE u = t
      BY <1>2, <1>4, <3>1 DEF WritesHeader
    <3>2. CASE u # t
      BY <1>4, <3>2 DEF WritesHeader, FilesInv
    <3> QED BY <3>1, <3>2
  <2> QED BY <2>1, <2>2, <2>3 DEF FilesInv
<1> QED BY <1>5, <1>6, <1>7

\* What the manifest tells of once a line is written.
LEMMA LinesTell ==
    ASSUME WriterTypeOK, NEW line \in Written, manifest' = Lines(line), NEW t
    PROVE  /\ manifest' \in Seq(Written)
           /\ \/ Described(t)' = Described(t)
              \/ line.track = t /\ Described(t)' = line.end /\ line.end > Described(t)
           /\ Untorn' => /\ Untorn /\ line # Torn
                         /\ Described(t)' = IF line.track = t /\ line.end > Described(t)
                                            THEN line.end ELSE Described(t)
<1>1. manifest \in Seq(Written)
  BY DEF WriterTypeOK, Written
<1>2. /\ manifest' \in Seq(Written)
      /\ manifest' = manifest \/ manifest' = Append(manifest, line)
      /\ Untorn => manifest' = Append(manifest, line)
  BY <1>1, LinesAre
<1>3. Described(t) = DescribedIn(manifest, t) /\ Described(t)' = DescribedIn(manifest', t)
  BY DEF Described, DescribedIn
<1>4. CASE manifest' = manifest
  <2>1. manifest' # Append(manifest, line)
    BY <1>1, <1>4
  <2>2. ~Untorn /\ ~Untorn'
    BY <1>2, <1>4, <2>1 DEF Untorn
  <2> QED BY <1>2, <1>3, <1>4, <2>2
<1>5. CASE manifest' = Append(manifest, line)
  <2>1. /\ Len(manifest') = Len(manifest) + 1 /\ Len(manifest) \in Nat
        /\ \A i \in 1 .. Len(manifest) : manifest'[i] = manifest[i]
        /\ manifest'[Len(manifest) + 1] = line
    BY <1>1, <1>5
  <2>2. Untorn' => Untorn /\ line # Torn
    <3>1. /\ \A i \in 1 .. Len(manifest) : i \in 1 .. Len(manifest')
          /\ Len(manifest) + 1 \in 1 .. Len(manifest')
      BY <2>1
    <3> QED BY <2>1, <3>1 DEF Untorn
  <2>3. DescribedIn(manifest', t) = IF line.track = t /\ line.end > DescribedIn(manifest, t)
                                    THEN line.end ELSE DescribedIn(manifest, t)
    BY <1>1, <1>5, DescribedAppend
  <2> QED BY <1>2, <1>3, <2>2, <2>3
<1> QED BY <1>2, <1>4, <1>5

LEMMA LineIs ==
    ASSUME Believed, WritesLine
    PROVE  LET t == closing.track
               line == [track |-> t, end |-> track[t].written] IN
           /\ Inked /\ t \in Tracks /\ mode # "off"
           /\ closing.count \in 1 .. Len(track[t].pending)
           /\ line \in Written /\ manifest' = Lines(line)
           /\ track[t].opened /\ track[t].gap = 0 /\ track[t].written = Len(wav[t])
           /\ track' \in [Tracks -> TrackState]
           /\ track'[t] = [track[t] EXCEPT
                  !.pending = SubSeq(@, closing.count + 1, Len(@))]
           /\ \A u \in Tracks : u # t => track'[u] = track[u]
           /\ \A u \in Tracks : /\ track'[u].opened = track[u].opened
                                /\ track'[u].written = track[u].written
                                /\ track'[u].gap = track[u].gap
                                /\ track'[u].missed = track[u].missed
                                /\ track'[u].lost = track[u].lost
<1> USE DEF Believed
<1> DEFINE t == closing.track
           rest == SubSeq(track[t].pending, closing.count + 1, Len(track[t].pending))
<1>1. closing.at = "line"
  BY DEF WritesLine
<1>2. closing # NoChunk /\ Inked
  BY <1>1 DEF NoChunk, Inked
<1>3. t \in Tracks /\ mode # "off" /\ closing.count \in 1 .. Len(track[t].pending)
  BY <1>2, ChunkIs
<1>4. track[t].opened /\ track[t].gap = 0 /\ track[t].written = Len(wav[t])
  BY <1>2, <1>3 DEF ShapeInv, FilesInv
<1>5. [track |-> t, end |-> track[t].written] \in Written
  BY <1>3, TrackIs DEF Written, Line
<1>6. rest \in Seq(Unit)
  BY <1>3, TakenIs
<1>7. track \in [Tracks -> TrackState] /\ track' = [track EXCEPT ![t] = [track[t] EXCEPT !.pending = rest]]
  BY DEF WritesLine, WriterTypeOK
<1>8. manifest' = Lines([track |-> t, end |-> track[t].written])
  BY DEF WritesLine
<1> HIDE DEF rest
<1>9. /\ [track[t] EXCEPT !.pending = rest] \in TrackState
      /\ [track[t] EXCEPT !.pending = rest].opened = track[t].opened
      /\ [track[t] EXCEPT !.pending = rest].written = track[t].written
      /\ [track[t] EXCEPT !.pending = rest].gap = track[t].gap
      /\ [track[t] EXCEPT !.pending = rest].missed = track[t].missed
      /\ [track[t] EXCEPT !.pending = rest].lost = track[t].lost
  <2>1. track[t] \in TrackState
    BY <1>3, TrackIs
  <2> QED BY <1>6, <2>1 DEF TrackState
<1>10. /\ track' \in [Tracks -> TrackState] /\ track'[t] = [track[t] EXCEPT !.pending = rest]
       /\ \A u \in Tracks : u # t => track'[u] = track[u]
  BY <1>3, <1>7, <1>9
<1>11. \A u \in Tracks : /\ track'[u].opened = track[u].opened
                         /\ track'[u].written = track[u].written
                         /\ track'[u].gap = track[u].gap
                         /\ track'[u].missed = track[u].missed
                         /\ track'[u].lost = track[u].lost
  BY <1>9, <1>10
<1> HIDE DEF t
<1>12. track'[t] = [track[t] EXCEPT !.pending = SubSeq(@, closing.count + 1, Len(@))]
  BY <1>10 DEF rest
<1> QED BY <1>2, <1>3, <1>4, <1>5, <1>8, <1>10, <1>11, <1>12 DEF t

LEMMA LineFiles == ASSUME Believed, WritesLine PROVE Believed'
<1> USE DEF Believed
<1> DEFINE t == closing.track
           line == [track |-> t, end |-> track[t].written]
<1>1. /\ t \in Tracks /\ mode # "off" /\ line \in Written /\ manifest' = Lines(line)
      /\ track[t].opened /\ track[t].written = Len(wav[t])
      /\ track' \in [Tracks -> TrackState]
      /\ \A u \in Tracks : track'[u].opened = track[u].opened /\ track'[u].written = track[u].written
      /\ closing.count \in 1 .. Len(track[t].pending)
  BY LineIs
<1>2. manifest' \in Seq(Written)
  BY <1>1, LinesTell
<1>3. /\ wav' = wav /\ header' = header /\ drifts' = drifts /\ mode' = mode /\ now' = now
      /\ ended' = ended /\ chances' = chances /\ closing' = NoChunk
      /\ promised' = [promised EXCEPT ![t] = @ \union ToSet(Taken(t))]
  BY DEF WritesLine
<1>4. promised' \in [Tracks -> SUBSET Unit]
  <2>1. Taken(t) \in Seq(Unit)
    BY <1>1, TakenIs
  <2>2. ToSet(Taken(t)) \subseteq Unit
    <3>1. DOMAIN Taken(t) = 1 .. Len(Taken(t)) /\ \A i \in 1 .. Len(Taken(t)) : Taken(t)[i] \in Unit
      BY <2>1
    <3> QED BY <3>1 DEF ToSet
  <2>3. promised \in [Tracks -> SUBSET Unit]
    BY DEF WriterTypeOK
  <2> QED BY <1>1, <1>3, <2>2, <2>3
<1>5. WriterTypeOK'
  BY <1>1, <1>2, <1>3, <1>4 DEF WriterTypeOK, Written
<1>6. ShapeInv'
  BY <1>3, CalmShape DEF ShapeInv
<1>7. FilesInv'
  <2>1. \A u \in Tracks : Described(u)' <= Len(wav'[u])
    <3> SUFFICES ASSUME NEW u \in Tracks PROVE Described(u)' <= Len(wav[u])
      BY <1>3
    <3>1. \/ Described(u)' = Described(u)
          \/ line.track = u /\ Described(u)' = line.end
      BY <1>1, LinesTell
    <3>2. line.track = t /\ line.end = Len(wav[t]) /\ Len(wav[t]) \in Nat
      BY <1>1, TrackIs
    <3> QED BY <3>1, <3>2 DEF FilesInv
  <2>2. ASSUME NEW u \in Tracks
        PROVE  /\ track'[u].opened => Len(wav'[u]) = track'[u].written
               /\ ~track'[u].opened => track'[u].written = Described(u)'
    <3>1. track[u].opened \in BOOLEAN
      BY TrackIs
    <3>2. u # t => Described(u)' = Described(u)
      BY <1>1, LinesTell
    <3> QED BY <1>1, <1>3, <3>1, <3>2 DEF FilesInv
  <2>3. "tail" \notin drifts' => \A u \in Tracks :
            /\ header'[u] <= Len(wav'[u])
            /\ mode' # "off" /\ ~track'[u].opened => header'[u] <= track'[u].written
    BY <1>1, <1>3 DEF FilesInv
  <2> QED BY <2>1, <2>2, <2>3 DEF FilesInv
<1> QED BY <1>5, <1>6, <1>7

LEMMA ClosesFiles == ASSUME Believed, Closes1 PROVE Believed'
<1> USE DEF Believed
<1>1. /\ wav' = wav /\ manifest' = manifest /\ now' = now /\ ended' = now /\ mode' = "off"
      /\ mode # "off" /\ drifts \subseteq drifts' /\ track' = track /\ promised' = promised
      /\ closing' = NoChunk /\ chances' = chances
      /\ drifts' \subseteq drifts \union {"gap"}
      /\ header' = [t \in Tracks |-> IF track[t].opened THEN track[t].written ELSE header[t]]
  BY DEF Closes1, Calm
<1>2. \A t \in Tracks : track[t].written \in Nat /\ header[t] \in Nat
  BY TrackIs
<1>3. WriterTypeOK'
  BY <1>1, <1>2 DEF WriterTypeOK
<1>4. ShapeInv'
  <2>1. now \in Nat
    BY Times DEF WriterTypeOK
  <2> QED BY <1>1, <2>1, CalmShape
<1>5. FilesInv'
  <2>1. \A t \in Tracks : Described(t)' <= Len(wav'[t])
    BY <1>1, DescribedStays DEF FilesInv
  <2>2. ASSUME "tail" \notin drifts', NEW t \in Tracks PROVE header'[t] <= Len(wav'[t])
    <3>1. Len(wav[t]) \in Nat
      BY TrackIs
    <3> QED BY <1>1, <2>2, <3>1 DEF FilesInv
  <2> QED BY <1>1, <2>1, <2>2 DEF FilesInv
<1> QED BY <1>3, <1>4, <1>5

LEMMA LeastOfTwo ==
    ASSUME NEW a \in Nat, NEW b \in Nat
    PROVE  Min({a, b}) \in Nat /\ Min({a, b}) <= b
<1>1. \E x \in {a, b} : \A y \in {a, b} : x <= y
  <2>1. a <= b \/ b <= a
    OBVIOUS
  <2> QED BY <2>1
<1>2. Min({a, b}) \in {a, b} /\ \A y \in {a, b} : Min({a, b}) <= y
  BY <1>1 DEF Min
<1> QED BY <1>2

\* What a crash leaves of the files, the header and the manifest.
CrashedData(part) ==
    IF part /\ closing.at = "data" THEN [u \in Tracks |-> With(u, closing.track)] ELSE wav

CrashedHeader(part) ==
    IF ~part THEN header
    ELSE IF closing.at = "data" THEN OpenedHeader
    ELSE IF closing.at = "header"
    THEN [header EXCEPT ![closing.track] = track[closing.track].written] ELSE header

LEMMA CrashIs ==
    ASSUME Crashes
    PROVE  \E part \in BOOLEAN :
             /\ wav' = CrashedData(part)
             /\ header' = CrashedHeader(part)
             /\ \/ manifest' = manifest
                \/ /\ closing.at = "line"
                   /\ manifest' = Lines([track |-> closing.track,
                                         end |-> track[closing.track].written])
                \/ closing.at = "line" /\ manifest' = Lines(Torn)
BY DEF Crashes, CrashedData, CrashedHeader, With

LEMMA CrashedDataIs ==
    ASSUME Believed, NEW part \in BOOLEAN, mode # "off"
    PROVE  /\ CrashedData(part) \in [Tracks -> Seq(Unit)]
           /\ \A u \in Tracks :
                 /\ track[u].written <= Len(CrashedData(part)[u])
                 /\ Len(wav[u]) <= Len(CrashedData(part)[u]) \/ ~track[u].opened
                 /\ \A i \in 1 .. track[u].written : CrashedData(part)[u][i] = wav[u][i]
                 /\ CrashedData(part)[u] = wav[u] \/ closing.at = "data"
<1> USE DEF Believed
<1> DEFINE data == CrashedData(part)
<1>1. ASSUME NEW u \in Tracks
      PROVE  /\ track[u].written <= Len(wav[u]) /\ track[u].written \in Nat
             /\ wav[u] \in Seq(Unit) /\ Len(wav[u]) \in Nat
             /\ track[u].opened => Len(wav[u]) = track[u].written
  BY TrackIs, OpenedIs DEF FilesInv
<1>2. CASE part /\ closing.at = "data"
  <2>1. data = [u \in Tracks |-> With(u, closing.track)]
    BY <1>2 DEF CrashedData
  <2>2. closing.track \in Tracks /\ closing.count \in 1 .. Len(track[closing.track].pending)
    <3>1. closing # NoChunk
      BY <1>2 DEF NoChunk
    <3> QED BY <3>1, ChunkIs
  <2>3. ASSUME NEW u \in Tracks
        PROVE  /\ With(u, closing.track) \in Seq(Unit)
               /\ track[u].written <= Len(With(u, closing.track))
               /\ \A i \in 1 .. track[u].written : With(u, closing.track)[i] = wav[u][i]
    <3>1. closing.count \in Nat /\ track[closing.track].gap \in Nat /\ track[u].written \in Nat
      BY <2>2, TrackIs
    <3>2. /\ With(u, closing.track) \in Seq(Unit)
          /\ Len(With(u, closing.track)) = track[u].written
                 + IF u = closing.track THEN track[closing.track].gap + closing.count ELSE 0
          /\ \A i \in 1 .. track[u].written : With(u, closing.track)[i] = wav[u][i]
      BY <2>2, WithIs
    <3> QED BY <3>1, <3>2
  <2> HIDE DEF data
  <2>4. data \in [Tracks -> Seq(Unit)]
    BY <2>1, <2>3
  <2>5. ASSUME NEW u \in Tracks
        PROVE  /\ track[u].written <= Len(data[u])
               /\ Len(wav[u]) <= Len(data[u]) \/ ~track[u].opened
               /\ \A i \in 1 .. track[u].written : data[u][i] = wav[u][i]
    BY <1>1, <2>1, <2>3
  <2> QED BY <1>2, <2>4, <2>5 DEF data
<1>3. CASE ~(part /\ closing.at = "data")
  <2>1. data = wav
    BY <1>3 DEF CrashedData
  <2>2. wav \in [Tracks -> Seq(Unit)]
    BY DEF WriterTypeOK
  <2> HIDE DEF data
  <2>3. \A u \in Tracks : Len(wav[u]) <= Len(wav[u])
    BY <1>1
  <2> QED BY <1>1, <2>1, <2>2, <2>3 DEF data
<1> QED BY <1>2, <1>3

LEMMA CrashedHeaderIs ==
    ASSUME Believed, NEW part \in BOOLEAN, mode # "off"
    PROVE  /\ CrashedHeader(part) \in [Tracks -> Nat]
           /\ "tail" \notin drifts =>
                 \A u \in Tracks : CrashedHeader(part)[u] <= Len(CrashedData(part)[u])
<1> USE DEF Believed
<1>1. header \in [Tracks -> Nat] /\ OpenedHeader \in [Tracks -> Nat]
  BY OpenedHeaderType DEF WriterTypeOK
<1>2. CrashedData(part) \in [Tracks -> Seq(Unit)]
  BY CrashedDataIs
<1>3. ASSUME NEW u \in Tracks
      PROVE  /\ track[u].written \in Nat /\ Len(CrashedData(part)[u]) \in Nat
             /\ Len(wav[u]) \in Nat /\ track[u].opened \in BOOLEAN
             /\ track[u].written <= Len(CrashedData(part)[u])
             /\ Len(wav[u]) <= Len(CrashedData(part)[u]) \/ ~track[u].opened
             /\ track[u].opened => Len(wav[u]) = track[u].written
             /\ "tail" \notin drifts =>
                   header[u] <= Len(wav[u]) /\ (~track[u].opened => header[u] <= track[u].written)
  <2>1. Len(CrashedData(part)[u]) \in Nat
    <3>1. CrashedData(part)[u] \in Seq(Unit)
      BY <1>2
    <3> QED BY <3>1, LenProperties
  <2> QED BY <2>1, CrashedDataIs, TrackIs DEF FilesInv
<1> DEFINE h == CrashedHeader(part)
<1>4. CASE h = header
  <2>1. \A u \in Tracks : header[u] \in Nat
    BY <1>1
  <2>2. ASSUME "tail" \notin drifts, NEW u \in Tracks PROVE header[u] <= Len(CrashedData(part)[u])
    BY <1>3, <2>1, <2>2
  <2> QED BY <1>1, <1>4, <2>2
<1>5. CASE h = OpenedHeader
  <2>1. ASSUME "tail" \notin drifts, NEW u \in Tracks
        PROVE  OpenedHeader[u] <= Len(CrashedData(part)[u])
    <3>1. OpenedHeader[u] <= track[u].written /\ OpenedHeader[u] \in Nat
      BY <1>1, <2>1, OpenedHeaderIs
    <3> QED BY <1>3, <3>1
  <2> QED BY <1>1, <1>5, <2>1
<1>6. CASE closing.at = "header" /\ h = [header EXCEPT ![closing.track] = track[closing.track].written]
  <2>1. closing.track \in Tracks
    <3>1. closing # NoChunk
      BY <1>6 DEF NoChunk
    <3> QED BY <3>1, ChunkIs
  <2>2. /\ h \in [Tracks -> Nat] /\ h[closing.track] = track[closing.track].written
        /\ \A u \in Tracks : u # closing.track => h[u] = header[u]
    BY <1>1, <1>3, <1>6, <2>1
  <2>3. \A u \in Tracks : header[u] \in Nat
    BY <1>1
  <2> HIDE DEF h
  <2>4. ASSUME "tail" \notin drifts, NEW u \in Tracks PROVE h[u] <= Len(CrashedData(part)[u])
    <3>1. CASE u = closing.track
      BY <1>3, <2>2, <3>1
    <3>2. CASE u # closing.track
      BY <1>3, <2>2, <2>3, <2>4, <3>2
    <3> QED BY <3>1, <3>2
  <2> QED BY <2>2, <2>4 DEF h
<1>7. \/ h = header \/ h = OpenedHeader
      \/ closing.at = "header" /\ h = [header EXCEPT ![closing.track] = track[closing.track].written]
  BY DEF CrashedHeader
<1> QED BY <1>4, <1>5, <1>6, <1>7

LEMMA CrashEnds ==
    ASSUME Believed, Crashes, header' \in [Tracks -> Nat]
    PROVE  ended' \in 0 .. MaxTime /\ ended' <= now
<1> DEFINE S == {Min({header'[t], now}) : t \in Tracks}
<1>1. now \in Nat /\ now <= MaxTime
  BY Times DEF Believed, WriterTypeOK
<1>2. \A t \in Tracks : Min({header'[t], now}) \in Nat /\ Min({header'[t], now}) <= now
  BY <1>1, LeastOfTwo
<1>3. S # {}
  BY Times
<1>4. S \in SUBSET Nat /\ \A x \in S : x <= now
  BY <1>2
<1>5. ended' = Max(S)
  BY DEF Crashes
<1> HIDE DEF S
<1>6. Max(S) \in S
  BY <1>1, <1>3, <1>4, GreatestIs
<1>7. ended' \in Nat /\ ended' <= now
  BY <1>4, <1>5, <1>6
<1> QED BY <1>1, <1>7, Times

LEMMA CrashFiles == ASSUME Believed, Crashes PROVE Believed'
<1> USE DEF Believed
<1>1. PICK part \in BOOLEAN :
         /\ wav' = CrashedData(part)
         /\ header' = CrashedHeader(part)
         /\ \/ manifest' = manifest
            \/ /\ closing.at = "line"
               /\ manifest' = Lines([track |-> closing.track,
                                     end |-> track[closing.track].written])
            \/ closing.at = "line" /\ manifest' = Lines(Torn)
  BY CrashIs
<1>2. /\ mode # "off" /\ mode' = "off" /\ closing' = NoChunk /\ now' = now
      /\ track' = [t \in Tracks |-> Fresh] /\ drifts' = drifts \union {"crash"}
      /\ promised' = promised
  BY DEF Crashes
<1>3. /\ wav' \in [Tracks -> Seq(Unit)] /\ header' \in [Tracks -> Nat]
      /\ "tail" \notin drifts => \A u \in Tracks : header'[u] <= Len(wav'[u])
  BY <1>1, <1>2, CrashedDataIs, CrashedHeaderIs
<1>4. ended' \in 0 .. MaxTime /\ ended' <= now
  BY <1>3, CrashEnds
<1>5. chances' \in [Kinds -> Nat]
  BY ChanceIs DEF Crashes, Kinds
<1>6. manifest \in Seq(Written)
  BY DEF WriterTypeOK, Written
<1>7. closing.at = "line" =>
         /\ closing.track \in Tracks /\ track[closing.track].opened
         /\ [track |-> closing.track, end |-> track[closing.track].written] \in Written
  <2> SUFFICES ASSUME closing.at = "line"
               PROVE  /\ closing.track \in Tracks /\ track[closing.track].opened
                      /\ [track |-> closing.track, end |-> track[closing.track].written] \in Written
    OBVIOUS
  <2>1. closing # NoChunk
    BY DEF NoChunk
  <2>2. closing.track \in Tracks /\ track[closing.track].opened
    BY <2>1, ChunkIs DEF ShapeInv, Inked
  <2> QED BY <2>2, TrackIs DEF Written, Line
<1>8. Torn \in Written
  BY DEF Written
<1>9. ASSUME NEW u \in Tracks
      PROVE  manifest' \in Seq(Written) /\ Described(u)' <= Len(wav'[u])
  <2>1. /\ track[u].written <= Len(wav'[u])
        /\ Len(wav[u]) <= Len(wav'[u]) \/ ~track[u].opened
    BY <1>1, <1>2, CrashedDataIs
  <2>2. /\ Len(wav[u]) \in Nat /\ track[u].written \in Nat /\ Described(u) \in Nat
        /\ track[u].opened \in BOOLEAN
        /\ Described(u) <= track[u].written
    <3>1. /\ Len(wav[u]) \in Nat /\ track[u].written \in Nat /\ Described(u) \in Nat
          /\ track[u].opened \in BOOLEAN
      BY TrackIs
    <3> QED BY <1>2, <3>1 DEF FilesInv
  <2>3. Len(wav'[u]) \in Nat
    <3>1. wav'[u] \in Seq(Unit)
      BY <1>3
    <3> QED BY <3>1, LenProperties
  <2>4. CASE manifest' = manifest
    BY <1>6, <2>1, <2>2, <2>3, <2>4, DescribedStays
  <2>5. CASE closing.at = "line" /\ manifest' = Lines([track |-> closing.track,
                                                       end |-> track[closing.track].written])
    <3> DEFINE line == [track |-> closing.track, end |-> track[closing.track].written]
    <3>1. line \in Written /\ manifest' = Lines(line)
      BY <1>7, <2>5
    <3>2. line.track = closing.track /\ line.end = track[closing.track].written
      OBVIOUS
    <3> HIDE DEF line
    <3>3. /\ manifest' \in Seq(Written)
          /\ Described(u)' = Described(u) \/ (line.track = u /\ Described(u)' = line.end)
      BY <3>1, LinesTell
    <3> QED BY <2>1, <2>2, <2>3, <3>2, <3>3
  <2>6. CASE closing.at = "line" /\ manifest' = Lines(Torn)
    <3>1. /\ manifest' \in Seq(Written)
          /\ Described(u)' = Described(u) \/ (Torn.track = u /\ Described(u)' = Torn.end)
      BY <1>8, <2>6, LinesTell
    <3>2. Torn.end = 0
      BY DEF Torn
    <3> QED BY <2>1, <2>2, <2>3, <3>1, <3>2
  <2> QED BY <1>1, <2>4, <2>5, <2>6
<1>10. manifest' \in Seq(Written)
  BY <1>9, Times
<1>11. track' \in [Tracks -> TrackState]
  BY <1>2, FreshIs
<1>12. WriterTypeOK'
  <2>1. drifts' \subseteq {"hold", "crash", "tail", "gap"}
    BY <1>2 DEF WriterTypeOK
  <2>2. now' \in 0 .. MaxTime /\ promised' \in [Tracks -> SUBSET Unit]
    BY <1>2 DEF WriterTypeOK
  <2> QED BY <1>2, <1>3, <1>4, <1>5, <1>10, <1>11, <2>1, <2>2 DEF WriterTypeOK, Written
<1>13. ShapeInv'
  BY <1>2, <1>4, CalmShape
<1>14. FilesInv'
  BY <1>2, <1>3, <1>9 DEF FilesInv
<1> QED BY <1>12, <1>13, <1>14

\* Every track's part of the manifest is bounded by one number.
LEMMA SoFarIs ==
    ASSUME WriterTypeOK
    PROVE  /\ Max({Described(t) : t \in Tracks}) \in Nat
           /\ \A t \in Tracks : Described(t) <= Max({Described(u) : u \in Tracks})
           /\ \E t \in Tracks : Described(t) = Max({Described(u) : u \in Tracks})
<1> DEFINE S == {Described(t) : t \in Tracks}
<1>1. manifest \in Seq(Written)
  BY DEF WriterTypeOK, Written
<1>2. PICK top \in Nat : \A i \in 1 .. Len(manifest) : manifest[i].end <= top
  BY <1>1, LinesAreBounded
<1>3. \A t \in Tracks : Described(t) \in Nat /\ Described(t) <= top
  <2> SUFFICES ASSUME NEW t \in Tracks PROVE Described(t) \in Nat /\ Described(t) <= top
    OBVIOUS
  <2>1. Described(t) = DescribedIn(manifest, t)
    BY DEF Described, DescribedIn
  <2> QED BY <1>1, <1>2, <2>1, DescribedIs
<1>4. S \in SUBSET Nat /\ \A x \in S : x <= top
  BY <1>3
<1>5. S # {}
  BY Times
<1>6. \A t \in Tracks : Described(t) \in S
  OBVIOUS
<1>7. \A x \in S : \E t \in Tracks : Described(t) = x
  OBVIOUS
<1> HIDE DEF S
<1>8. Max(S) \in S /\ \A x \in S : x <= Max(S)
  BY <1>4, <1>5, GreatestIs
<1>9. Max(S) \in Nat /\ (\A t \in Tracks : Described(t) <= Max(S)) /\ \E t \in Tracks : Described(t) = Max(S)
  BY <1>4, <1>6, <1>7, <1>8
<1> QED BY <1>9 DEF S

LEMMA ContinuesIs ==
    ASSUME Believed, Continues
    PROVE  /\ track' \in [Tracks -> TrackState]
           /\ \A t \in Tracks :
                 /\ track'[t].written = Described(t)
                 /\ track'[t].gap = (now - ended)
                      + IF Described(t) = 0 THEN Max({Described(u) : u \in Tracks}) ELSE 0
                 /\ track'[t].pending = <<>> /\ track'[t].missed = 0
                 /\ ~track'[t].opened /\ ~track'[t].lost
<1> USE DEF Believed
<1> DEFINE soFar == Max({Described(t) : t \in Tracks})
           Gap(t) == (now - ended) + IF Described(t) = 0 THEN soFar ELSE 0
<1>1. soFar \in Nat
  BY SoFarIs
<1>2. track' = [t \in Tracks |-> [Fresh EXCEPT !.written = Described(t), !.gap = Gap(t)]]
  BY DEF Continues
<1> HIDE DEF soFar
<1>3. ASSUME NEW t \in Tracks
      PROVE  Gap(t) \in Nat /\ Described(t) \in Nat
  <2>1. now \in Nat /\ ended \in Nat /\ ended <= now /\ Described(t) \in Nat
    BY TrackIs DEF ShapeInv
  <2> QED BY <1>1, <2>1
<1> HIDE DEF Gap
<1>4. ASSUME NEW t \in Tracks
      PROVE  LET new == [Fresh EXCEPT !.written = Described(t), !.gap = Gap(t)] IN
             /\ new \in TrackState
             /\ new.written = Described(t) /\ new.gap = Gap(t) /\ new.pending = <<>>
             /\ new.missed = 0 /\ ~new.opened /\ ~new.lost
  BY <1>3, EmptySeq DEF Fresh, TrackState
<1>5. track' \in [Tracks -> TrackState]
  BY <1>2, <1>4
<1>6. ASSUME NEW t \in Tracks
      PROVE  /\ track'[t].written = Described(t) /\ track'[t].gap = Gap(t)
             /\ track'[t].pending = <<>> /\ track'[t].missed = 0
             /\ ~track'[t].opened /\ ~track'[t].lost
  BY <1>2, <1>4
<1> QED BY <1>5, <1>6 DEF Gap, soFar

LEMMA ContinuesFiles == ASSUME Believed, Continues PROVE Believed'
<1> USE DEF Believed
<1>1. /\ mode = "off" /\ mode' = "writing" /\ now' = now /\ ended' = ended /\ closing' = closing
      /\ wav' = wav /\ header' = header /\ manifest' = manifest /\ promised' = promised
      /\ chances' = chances
      /\ drifts' = IF \E t \in Tracks : header[t] > Described(t)
                   THEN drifts \union {"tail"} ELSE drifts
  BY DEF Continues, disks
<1>2. /\ track' \in [Tracks -> TrackState]
      /\ \A t \in Tracks : track'[t].written = Described(t) /\ ~track'[t].opened
  BY ContinuesIs
<1>3. WriterTypeOK'
  BY <1>1, <1>2 DEF WriterTypeOK
<1>4. closing' = NoChunk
  BY <1>1 DEF ShapeInv
<1>5. ShapeInv'
  BY <1>1, <1>4, CalmShape DEF ShapeInv
<1>6. FilesInv'
  <2>1. \A t \in Tracks : Described(t)' = Described(t) /\ Described(t) <= Len(wav[t])
    BY <1>1, DescribedStays DEF FilesInv
  <2>2. ASSUME "tail" \notin drifts', NEW t \in Tracks
        PROVE  header'[t] <= Len(wav'[t]) /\ header'[t] <= track'[t].written
    <3>1. "tail" \notin drifts /\ ~(header[t] > Described(t))
      BY <1>1, <2>2
    <3>2. header[t] \in Nat /\ Described(t) \in Nat
      BY TrackIs
    <3> QED BY <1>1, <1>2, <3>1, <3>2 DEF FilesInv
  <2> QED BY <1>1, <1>2, <2>1, <2>2 DEF FilesInv
<1> QED BY <1>3, <1>5, <1>6

LEMMA BelievedInitially == WriterInit => Believed
<1> SUFFICES ASSUME WriterInit PROVE Believed
  OBVIOUS
<1>1. <<>> \in Seq(Unit) /\ Len(<<>>) = 0
  BY EmptySeq
<1>2. <<>> \in Seq(Line \union {Torn})
  BY EmptySeq
<1>3. WriterTypeOK
  BY <1>1, <1>2, Times, FreshIs, MishapsAssumption DEF WriterInit, WriterTypeOK
<1>4. ShapeInv
  BY DEF WriterInit, ShapeInv, Inked, NoChunk
<1>5. ASSUME NEW t \in Tracks
      PROVE  /\ Described(t) = 0 /\ Len(wav[t]) = 0 /\ header[t] = 0 /\ track[t] = Fresh
  <2>1. Described(t) = DescribedIn(<<>>, t)
    BY DEF WriterInit, Described, DescribedIn
  <2> QED BY <1>1, <2>1, DescribedAtFirst DEF WriterInit
<1>6. Fresh.written = 0 /\ ~Fresh.opened
  BY DEF Fresh
<1>7. FilesInv
  BY <1>5, <1>6 DEF FilesInv
<1> QED BY <1>3, <1>4, <1>7 DEF Believed

LEMMA BelievedStutters == ASSUME Believed, UNCHANGED writerVars PROVE Believed'
BY DEF Believed, WriterTypeOK, ShapeInv, FilesInv, Inked, Described, writerVars

LEMMA BelievedNext == ASSUME Believed, [WriterNext]_writerVars PROVE Believed'
<1>1. CASE UNCHANGED writerVars
  BY <1>1, BelievedStutters
<1>2. CASE Hears1
  BY <1>2, HearsFiles
<1>3. CASE Holds
  BY <1>3, HoldsFiles
<1>4. ASSUME NEW keep \in BOOLEAN, Releases(keep) PROVE Believed'
  BY <1>4, ReleasesFiles
<1>5. ASSUME NEW t \in Tracks, Loses(t) PROVE Believed'
  BY <1>5, LosesFiles
<1>6. ASSUME NEW t \in Tracks, Reopens(t) PROVE Believed'
  BY <1>6, ReopensFiles
<1>7. ASSUME NEW t \in Tracks, Cuts(t) PROVE Believed'
  BY <1>7, CutsFiles
<1>8. CASE WritesData
  BY <1>8, DataFiles
<1>9. CASE WritesHeader
  BY <1>9, HeaderFiles
<1>10. CASE WritesLine
  BY <1>10, LineFiles
<1>11. CASE Stops
  BY <1>11, StopsFiles
<1>12. CASE Closes1
  BY <1>12, ClosesFiles
<1>13. CASE Crashes
  BY <1>13, CrashFiles
<1>14. CASE Continues
  BY <1>14, ContinuesFiles
<1> QED BY <1>1, <1>2, <1>3, <1>4, <1>5, <1>6, <1>7, <1>8, <1>9, <1>10, <1>11, <1>12,
           <1>13, <1>14 DEF WriterNext

\* A recording's files play at every moment, whatever crashes, and are what the code takes
\* them for: the header never tells of samples the file has not.
THEOREM HeadersPlay == WriterSpec => []WriterInv
<1>1. Believed => WriterInv
  BY DEF Believed, WriterInv, HeaderPlays, FilesInv
<1>2. WriterSpec => []Believed
  BY BelievedInitially, BelievedNext, PTL DEF WriterSpec
<1> QED BY <1>1, <1>2, PTL

(***************************************************************************)
(* What a synced line told of stays on disk.                               *)
(***************************************************************************)
LEMMA DescribedIsWritten ==
    ASSUME Believed, mode # "off", NEW t \in Tracks
    PROVE  Described(t) \in Nat /\ track[t].written \in Nat /\ Described(t) <= track[t].written
<1>1. /\ Described(t) \in Nat /\ track[t].written \in Nat /\ track[t].opened \in BOOLEAN
      /\ Len(wav[t]) \in Nat
  BY TrackIs DEF Believed
<1> QED BY <1>1 DEF Believed, FilesInv

\* Nothing is cut off, written or promised.
LEMMA PromiseStays ==
    ASSUME PromiseInv, UNCHANGED <<wav, manifest, promised>>,
           Inked' => /\ Inked /\ track' = track
                     /\ closing'.track = closing.track /\ closing'.count = closing.count
    PROVE  PromiseInv'
<1>1. Untorn' => Untorn
  BY DEF Untorn
<1>2. \A t : Described(t)' = Described(t)
  BY DescribedStays
<1>3. Untorn' => \A t \in Tracks : \A x \in promised'[t] : \E i \in 1 .. Described(t)' : wav'[t][i] = x
  BY <1>1, <1>2 DEF PromiseInv
<1>4. Untorn' /\ Inked' => \A k \in 1 .. closing'.count :
          \E i \in 1 .. track'[closing'.track].written :
              wav'[closing'.track][i] = track'[closing'.track].pending[k]
  BY <1>1 DEF PromiseInv
<1> QED BY <1>3, <1>4 DEF PromiseInv

LEMMA CalmIsNotInked == ASSUME closing' = NoChunk PROVE ~Inked'
BY DEF Inked, NoChunk

LEMMA DataPromise == ASSUME Believed, PromiseInv, WritesData PROVE PromiseInv'
<1> DEFINE t == closing.track
<1>1. /\ closing # NoChunk /\ t \in Tracks /\ mode # "off"
      /\ closing.count \in 1 .. Len(track[t].pending)
  <2>1. closing.at = "data"
    BY DEF WritesData
  <2>2. closing # NoChunk
    BY <2>1 DEF NoChunk
  <2> QED BY <2>2, ChunkIs
<1>2. /\ manifest' = manifest /\ promised' = promised
      /\ closing'.track = t /\ closing'.count = closing.count
  <2>1. closing' = [closing EXCEPT !.at = "header"] /\ closing \in [at : {"data", "header", "line"}, track : Tracks, count : Nat]
    BY <1>1, ChunkIs DEF WritesData
  <2>2. manifest' = manifest /\ promised' = promised
    BY DEF WritesData
  <2> QED BY <2>1, <2>2
<1>3. Untorn' => Untorn
  BY <1>2 DEF Untorn
<1>4. \A u \in Tracks : \A i \in 1 .. track[u].written : wav'[u][i] = wav[u][i]
  <2> SUFFICES ASSUME NEW u \in Tracks PROVE \A i \in 1 .. track[u].written : wav'[u][i] = wav[u][i]
    OBVIOUS
  <2>1. wav'[u] = With(u, t)
    BY DataIs
  <2>2. \A i \in 1 .. track[u].written : With(u, t)[i] = wav[u][i]
    BY <1>1, WithIs DEF Believed
  <2> QED BY <2>1, <2>2
<1>5. ASSUME Untorn', NEW u \in Tracks, NEW x \in promised'[u]
      PROVE  \E i \in 1 .. Described(u)' : wav'[u][i] = x
  <2>1. PICK i \in 1 .. Described(u) : wav[u][i] = x
    BY <1>2, <1>3, <1>5 DEF PromiseInv
  <2>2. i \in 1 .. track[u].written
    BY <1>1, DescribedIsWritten
  <2>3. Described(u)' = Described(u)
    BY <1>2, DescribedStays
  <2> QED BY <1>4, <2>1, <2>2, <2>3
<1>6. ASSUME NEW k \in 1 .. closing.count
      PROVE  \E i \in 1 .. track'[t].written : wav'[t][i] = track'[t].pending[k]
  <2>1. /\ wav'[t] = With(t, t) /\ track'[t].pending = track[t].pending
        /\ track'[t].written = track[t].written + (track[t].gap + closing.count)
    BY <1>1, DataIs
  <2>2. With(t, t)[track[t].written + track[t].gap + k] = track[t].pending[k]
    BY <1>1, WithIs DEF Believed
  <2>3. track[t].written \in Nat /\ track[t].gap \in Nat /\ closing.count \in Nat
    BY <1>1, TrackIs DEF Believed
  <2>4. track[t].written + track[t].gap + k \in 1 .. track[t].written + (track[t].gap + closing.count)
    BY <2>3
  <2> QED BY <2>1, <2>2, <2>4
<1> QED BY <1>2, <1>5, <1>6 DEF PromiseInv

LEMMA LinePromise == ASSUME Believed, PromiseInv, WritesLine PROVE PromiseInv'
<1> DEFINE t == closing.track
           line == [track |-> t, end |-> track[t].written]
<1>1. /\ Inked /\ t \in Tracks /\ mode # "off" /\ line \in Written /\ manifest' = Lines(line)
      /\ closing.count \in 1 .. Len(track[t].pending)
  BY LineIs
<1>2. /\ wav' = wav /\ closing' = NoChunk
      /\ promised' = [promised EXCEPT ![t] = @ \union ToSet(Taken(t))]
  BY DEF WritesLine
<1>3. promised \in [Tracks -> SUBSET Unit]
  BY DEF Believed, WriterTypeOK
<1>4. line.track = t /\ line.end = track[t].written
  OBVIOUS
<1>5. ASSUME Untorn', NEW u \in Tracks
      PROVE  /\ Untorn /\ Described(u) \in Nat /\ Described(u)' \in Nat /\ Described(u) <= Described(u)'
             /\ u = t => track[t].written \in Nat /\ track[t].written <= Described(u)'
  <2>1. Described(u) \in Nat /\ track[t].written \in Nat
    BY <1>1, DescribedIsWritten
  <2>2. Untorn /\ Described(u)' = IF line.track = u /\ line.end > Described(u)
                                  THEN line.end ELSE Described(u)
    BY <1>1, <1>5, LinesTell DEF Believed
  <2> HIDE DEF line
  <2> QED BY <1>4, <2>1, <2>2
<1> HIDE DEF line
<1>6. ASSUME Untorn', NEW u \in Tracks, NEW x \in promised'[u]
      PROVE  \E i \in 1 .. Described(u)' : wav'[u][i] = x
  <2>1. CASE x \in promised[u]
    <3>1. PICK i \in 1 .. Described(u) : wav[u][i] = x
      BY <1>5, <1>6, <2>1 DEF PromiseInv
    <3>2. i \in 1 .. Described(u)'
      BY <1>5, <1>6
    <3> QED BY <1>2, <3>1, <3>2
  <2>2. CASE u = t /\ x \in ToSet(Taken(t))
    <3>1. /\ Taken(t) \in Seq(Unit) /\ Len(Taken(t)) = closing.count
          /\ \A k \in 1 .. closing.count : Taken(t)[k] = track[t].pending[k]
      BY <1>1, TakenIs DEF Believed
    <3>2. PICK k \in 1 .. closing.count : Taken(t)[k] = x
      BY <2>2, <3>1 DEF ToSet
    <3>3. PICK i \in 1 .. track[t].written : wav[t][i] = track[t].pending[k]
      BY <1>1, <1>5, <1>6 DEF PromiseInv
    <3>4. i \in 1 .. Described(u)'
      BY <1>5, <1>6, <2>2
    <3> QED BY <1>2, <2>2, <3>1, <3>2, <3>3, <3>4
  <2>3. x \in promised[u] \/ (u = t /\ x \in ToSet(Taken(t)))
    BY <1>1, <1>2, <1>3, <1>6
  <2> QED BY <2>1, <2>2, <2>3
<1>7. ~Inked'
  BY <1>2, CalmIsNotInked
<1> QED BY <1>6, <1>7 DEF PromiseInv

LEMMA CrashPromise == ASSUME Believed, PromiseInv, Crashes PROVE PromiseInv'
<1>1. PICK part \in BOOLEAN :
         /\ wav' = CrashedData(part)
         /\ header' = CrashedHeader(part)
         /\ \/ manifest' = manifest
            \/ /\ closing.at = "line"
               /\ manifest' = Lines([track |-> closing.track,
                                     end |-> track[closing.track].written])
            \/ closing.at = "line" /\ manifest' = Lines(Torn)
  BY CrashIs
<1>2. mode # "off" /\ promised' = promised /\ closing' = NoChunk
  BY DEF Crashes
<1>3. closing.at = "line" =>
         [track |-> closing.track, end |-> track[closing.track].written] \in Written
  <2> SUFFICES ASSUME closing.at = "line"
               PROVE  [track |-> closing.track, end |-> track[closing.track].written] \in Written
    OBVIOUS
  <2>1. closing # NoChunk
    BY DEF NoChunk
  <2>2. closing.track \in Tracks
    BY <2>1, ChunkIs
  <2> QED BY <2>2, TrackIs DEF Written, Line, Believed
<1>4. ASSUME Untorn', NEW u \in Tracks
      PROVE  /\ Untorn /\ Described(u) \in Nat /\ Described(u)' \in Nat
             /\ Described(u) <= Described(u)' /\ Described(u) <= track[u].written
             /\ track[u].written \in Nat
  <2>1. Described(u) \in Nat /\ Described(u) <= track[u].written /\ track[u].written \in Nat
    BY <1>2, DescribedIsWritten
  <2>2. CASE manifest' = manifest
    BY <1>4, <2>1, <2>2, DescribedStays DEF Untorn
  <2>3. ASSUME NEW line \in Written, manifest' = Lines(line)
        PROVE  Untorn /\ Described(u)' \in Nat /\ Described(u) <= Described(u)'
    <3>1. Untorn /\ Described(u)' = IF line.track = u /\ line.end > Described(u)
                                    THEN line.end ELSE Described(u)
      BY <1>4, <2>3, LinesTell DEF Believed
    <3>2. line.end \in Nat
      BY DEF Written, Line, Torn
    <3> QED BY <2>1, <3>1, <3>2
  <2>4. Torn \in Written
    BY DEF Written
  <2> QED BY <1>1, <1>3, <2>1, <2>2, <2>3, <2>4
<1>5. ASSUME Untorn', NEW u \in Tracks, NEW x \in promised'[u]
      PROVE  \E i \in 1 .. Described(u)' : wav'[u][i] = x
  <2>1. PICK i \in 1 .. Described(u) : wav[u][i] = x
    BY <1>2, <1>4, <1>5 DEF PromiseInv
  <2>2. i \in 1 .. track[u].written /\ i \in 1 .. Described(u)'
    BY <1>4, <1>5
  <2>3. wav'[u][i] = wav[u][i]
    BY <1>1, <1>2, <2>2, CrashedDataIs
  <2> QED BY <2>1, <2>2, <2>3
<1>6. ~Inked'
  BY <1>2, CalmIsNotInked
<1> QED BY <1>5, <1>6 DEF PromiseInv

LEMMA PromiseNext ==
    ASSUME Believed, PromiseInv, [WriterNext]_writerVars
    PROVE  PromiseInv'
<1>1. CASE UNCHANGED writerVars
  BY <1>1, PromiseStays DEF writerVars, Inked
<1>2. CASE Hears1
  BY <1>2, PromiseStays, CalmIsNotInked DEF Hears1, Calm, disks
<1>3. CASE Holds
  BY <1>3, PromiseStays, CalmIsNotInked DEF Holds, Calm, disks
<1>4. ASSUME NEW keep \in BOOLEAN, Releases(keep) PROVE PromiseInv'
  BY <1>4, PromiseStays, CalmIsNotInked DEF Releases, Calm, disks
<1>5. ASSUME NEW t \in Tracks, Loses(t) PROVE PromiseInv'
  BY <1>5, PromiseStays, CalmIsNotInked DEF Loses, Calm, disks
<1>6. ASSUME NEW t \in Tracks, Reopens(t) PROVE PromiseInv'
  BY <1>6, PromiseStays, CalmIsNotInked DEF Reopens, Calm, disks
<1>7. ASSUME NEW t \in Tracks, Cuts(t) PROVE PromiseInv'
  <2>1. ~Inked'
    BY <1>7 DEF Cuts, Inked
  <2> QED BY <1>7, <2>1, PromiseStays DEF Cuts, disks
<1>8. CASE WritesData
  BY <1>8, DataPromise
<1>9. CASE WritesHeader
  <2>1. closing.at = "header" /\ closing # NoChunk
    BY <1>9 DEF WritesHeader, NoChunk
  <2>2. closing \in [at : {"data", "header", "line"}, track : Tracks, count : Nat]
    BY <2>1, ChunkIs
  <2>3. Inked /\ track' = track /\ closing'.track = closing.track /\ closing'.count = closing.count
    BY <1>9, <2>1, <2>2 DEF WritesHeader, Inked
  <2>4. UNCHANGED <<wav, manifest, promised>>
    BY <1>9 DEF WritesHeader
  <2> QED BY <2>3, <2>4, PromiseStays
<1>10. CASE WritesLine
  BY <1>10, LinePromise
<1>11. CASE Stops
  BY <1>11, PromiseStays, CalmIsNotInked DEF Stops, Calm, disks
<1>12. CASE Closes1
  BY <1>12, PromiseStays, CalmIsNotInked DEF Closes1, Calm
<1>13. CASE Crashes
  BY <1>13, CrashPromise
<1>14. CASE Continues
  <2>1. closing' = NoChunk /\ UNCHANGED <<wav, manifest, promised>>
    BY <1>14 DEF Continues, disks, Believed, ShapeInv
  <2> QED BY <2>1, PromiseStays, CalmIsNotInked
<1> QED BY <1>1, <1>2, <1>3, <1>4, <1>5, <1>6, <1>7, <1>8, <1>9, <1>10, <1>11, <1>12,
           <1>13, <1>14 DEF WriterNext

\* What a synced line of the manifest told of stays in the file, through every crash and
\* every carrying on, unless a crash tore a line.
THEOREM SyncedIsKept == WriterSpec => []PromiseKept
<1>1. WriterInit => PromiseInv
  BY DEF WriterInit, PromiseInv, Inked, NoChunk
<1>2. Believed /\ PromiseInv => PromiseKept
  <2> SUFFICES ASSUME Believed, PromiseInv, Untorn, NEW t \in Tracks, NEW x \in promised[t]
               PROVE  x \in ToSet(wav[t])
    BY DEF PromiseKept, Untorn
  <2>1. PICK i \in 1 .. Described(t) : wav[t][i] = x
    BY DEF PromiseInv
  <2>2. wav[t] \in Seq(Unit) /\ Len(wav[t]) \in Nat /\ Described(t) \in Nat
    BY TrackIs DEF Believed
  <2>3. i \in 1 .. Len(wav[t])
    BY <2>2 DEF Believed, FilesInv
  <2> QED BY <2>1, <2>2, <2>3 DEF ToSet
<1>3. WriterSpec => []Believed
  BY BelievedInitially, BelievedNext, PTL DEF WriterSpec
<1>4. WriterSpec => []PromiseInv
  BY <1>1, <1>3, PromiseNext, PTL DEF WriterSpec
<1> QED BY <1>2, <1>3, <1>4, PTL

(***************************************************************************)
(* What was heard is at the place of its time.                             *)
(***************************************************************************)
\* The files and the manifest are left alone.
LEMMA TimeStays ==
    ASSUME TimeInv, UNCHANGED <<wav, manifest>>, drifts' = {} => drifts = {},
           drifts' = {} /\ mode' = "off" => \A t \in Tracks : Described(t) = ended',
           drifts' = {} /\ mode' # "off" => \A t \in Tracks : Timely(t)'
    PROVE  TimeInv'
<1>1. drifts' = {} => TimelineKept' /\ Untorn'
  BY DEF TimeInv, TimelineKept, Untorn
<1>2. \A t : Described(t)' = Described(t)
  BY DescribedStays
<1> QED BY <1>1, <1>2 DEF TimeInv

\* Between chunks the base is behind the gap.
LEMMA CalmBase ==
    ASSUME closing = NoChunk, NEW t
    PROVE  ~Inked /\ Base(t) = track[t].written + track[t].gap
BY DEF Base, Inked, NoChunk

LEMMA CalmBaseNext ==
    ASSUME closing' = NoChunk, NEW t
    PROVE  ~Inked' /\ Base(t)' = track'[t].written + track'[t].gap
BY DEF Base, Inked, NoChunk

LEMMA HearsTime == ASSUME Believed, TimeInv, Hears1 PROVE TimeInv'
<1> USE DEF Believed
<1>1. /\ closing = NoChunk /\ closing' = NoChunk /\ now' = now + 1 /\ mode' = mode
      /\ UNCHANGED <<wav, manifest>> /\ drifts' = drifts /\ ended' = ended
      /\ now \in 0 .. MaxTime /\ now < MaxTime /\ now \in Nat
  BY Times DEF Hears1, Calm, disks, WriterTypeOK
<1>2. ASSUME drifts = {}, mode # "off", NEW t \in Tracks PROVE Timely(t)'
  <2>1. Timely(t)
    BY <1>2 DEF TimeInv
  <2>2. /\ track[t] \in TrackState /\ track'[t] = HeardBy(track[t])
        /\ track[t].pending \in Seq(Unit) /\ Len(track[t].pending) \in Nat
        /\ track[t].written \in Nat /\ track[t].gap \in Nat /\ track[t].missed \in Nat
    BY <1>2, TrackIs, HearsIs
  <2>3. /\ track'[t].written = track[t].written /\ track'[t].gap = track[t].gap
        /\ track'[t].lost = track[t].lost
        /\ IF track[t].lost \/ mode # "writing"
           THEN track'[t].pending = track[t].pending /\ track'[t].missed = track[t].missed + 1
           ELSE /\ track'[t].pending = Append(track[t].pending, now + 1)
                /\ track'[t].missed = track[t].missed
    BY <1>1, <2>2, HeardByIs
  <2>4. /\ Base(t) = track[t].written + track[t].gap /\ ~Inked /\ ~Inked'
        /\ Base(t)' = Base(t) /\ Base(t) \in Nat
    BY <1>1, <2>2, <2>3, CalmBase, CalmBaseNext
  <2>5. track'[t].written = Described(t)'
    BY <1>1, <2>1, <2>3, <2>4, DescribedStays DEF Timely
  <2>6. mode = "writing" \/ mode = "holding"
    BY <1>2 DEF Hears1
  <2>7. CASE track[t].lost \/ mode # "writing"
    <3>1. track'[t].pending = track[t].pending /\ track'[t].missed = track[t].missed + 1
      BY <2>3, <2>7
    <3>2. Base(t)' + Len(track'[t].pending) + track'[t].missed = now'
      BY <1>1, <2>1, <2>2, <2>4, <3>1 DEF Timely
    <3>3. \A k \in 1 .. Len(track'[t].pending) : track'[t].pending[k] = Base(t)' + k
      BY <2>1, <2>4, <3>1 DEF Timely
    <3> QED BY <1>1, <2>1, <2>3, <2>5, <2>6, <2>7, <3>1, <3>2, <3>3 DEF Timely
  <2>8. CASE ~track[t].lost /\ mode = "writing"
    <3>1. track'[t].pending = Append(track[t].pending, now + 1) /\ track'[t].missed = track[t].missed
      BY <2>3, <2>8
    <3>2. track[t].missed = 0 /\ Base(t) + Len(track[t].pending) = now
      BY <2>1, <2>2, <2>4, <2>8 DEF Timely
    <3>3. /\ Len(track'[t].pending) = Len(track[t].pending) + 1
          /\ \A k \in 1 .. Len(track[t].pending) : track'[t].pending[k] = track[t].pending[k]
          /\ track'[t].pending[Len(track[t].pending) + 1] = now + 1
      BY <1>1, <2>2, <3>1
    <3>4. Base(t)' + Len(track'[t].pending) + track'[t].missed = now'
      <4>1. /\ Len(track[t].pending) \in Nat /\ Base(t) \in Nat /\ Base(t)' = Base(t)
            /\ now' = now + 1 /\ track'[t].missed = 0
        BY <1>1, <2>2, <2>4, <3>1, <3>2
      <4>2. Len(track'[t].pending) = Len(track[t].pending) + 1
        BY <3>3
      <4> QED BY <3>2, <4>1, <4>2
    <3>5. ASSUME NEW k \in 1 .. Len(track'[t].pending)
          PROVE  track'[t].pending[k] = Base(t)' + k
      <4>1. k \in 1 .. Len(track[t].pending) \/ k = Len(track[t].pending) + 1
        BY <2>2, <3>3
      <4>2. CASE k \in 1 .. Len(track[t].pending)
        BY <2>1, <2>4, <3>3, <4>2 DEF Timely
      <4>3. CASE k = Len(track[t].pending) + 1
        BY <2>2, <2>4, <3>2, <3>3, <4>3
      <4> QED BY <4>1, <4>2, <4>3
    <3> QED BY <1>1, <2>3, <2>5, <2>8, <3>1, <3>2, <3>4, <3>5 DEF Timely
  <2> QED BY <2>7, <2>8
<1>3. drifts = {} /\ mode = "off" => \A t \in Tracks : Described(t) = ended
  BY DEF TimeInv
<1> QED BY <1>1, <1>2, <1>3, TimeStays

\* What a track notes is left alone, or a chunk of it is cut.
LEMMA TimelyStays ==
    ASSUME NEW t, Timely(t), manifest' = manifest, now' = now, ~Inked, ~Inked',
           track'[t].pending = track[t].pending, track'[t].missed = track[t].missed,
           track'[t].written = track[t].written, track'[t].gap = track[t].gap,
           track'[t].lost => track'[t].pending = <<>> /\ mode' # "holding",
           ~track'[t].lost /\ mode' # "holding" => track'[t].missed = 0
    PROVE  Timely(t)'
<1>1. Base(t)' = Base(t)
  BY DEF Base
<1>2. Described(t)' = Described(t)
  BY DescribedStays
<1>3. Base(t)' + Len(track'[t].pending) + track'[t].missed = now'
  BY <1>1 DEF Timely
<1>4. \A k \in 1 .. Len(track'[t].pending) : track'[t].pending[k] = Base(t)' + k
  BY <1>1 DEF Timely
<1>5. track'[t].written = Described(t)'
  BY <1>2 DEF Timely
<1> QED BY <1>3, <1>4, <1>5 DEF Timely

LEMMA HoldsTime == ASSUME Believed, TimeInv, Holds PROVE TimeInv'
<1> USE DEF Believed
<1>1. /\ closing = NoChunk /\ closing' = NoChunk /\ now' = now /\ mode = "writing" /\ mode' = "holding"
      /\ UNCHANGED <<wav, manifest>> /\ drifts' = drifts /\ ended' = ended
      /\ \A t \in Tracks : ~track[t].lost
  BY DEF Holds, Calm, disks
<1>2. ASSUME drifts = {}, NEW t \in Tracks PROVE Timely(t)'
  <2>1. Timely(t)
    BY <1>1, <1>2 DEF TimeInv
  <2>2. track[t] \in TrackState
    BY TrackIs
  <2>3. /\ track'[t].pending = track[t].pending /\ track'[t].missed = track[t].missed
        /\ track'[t].written = track[t].written /\ track'[t].gap = track[t].gap
        /\ track'[t].lost = track[t].lost
    BY <2>2 DEF Holds, TrackState
  <2> QED BY <1>1, <2>1, <2>3, TimelyStays, CalmBase, CalmBaseNext
<1> QED BY <1>1, <1>2, TimeStays

LEMMA LosesTime == ASSUME Believed, TimeInv, NEW t \in Tracks, Loses(t) PROVE TimeInv'
<1> USE DEF Believed
<1>1. /\ closing = NoChunk /\ closing' = NoChunk /\ now' = now /\ mode = "writing" /\ mode' = mode
      /\ UNCHANGED <<wav, manifest>> /\ drifts' = drifts /\ ended' = ended
      /\ track[t].pending = <<>>
  BY DEF Loses, Calm, disks
<1>2. track \in [Tracks -> TrackState] /\ track' = [track EXCEPT ![t] = [track[t] EXCEPT !.lost = TRUE]]
  BY DEF Loses, WriterTypeOK
<1>3. ASSUME drifts = {}, NEW u \in Tracks PROVE Timely(u)'
  <2>1. Timely(u)
    BY <1>1, <1>3 DEF TimeInv
  <2>2. CASE u = t
    <3>1. /\ track'[u].pending = track[u].pending /\ track'[u].missed = track[u].missed
          /\ track'[u].written = track[u].written /\ track'[u].gap = track[u].gap
          /\ track'[u].lost
      BY <1>2, <2>2 DEF TrackState
    <3> QED BY <1>1, <2>1, <2>2, <3>1, TimelyStays, CalmBase, CalmBaseNext
  <2>3. CASE u # t
    <3>1. track'[u] = track[u]
      BY <1>2, <2>3
    <3>2. /\ track'[u].lost => track'[u].pending = <<>> /\ mode' # "holding"
          /\ ~track'[u].lost /\ mode' # "holding" => track'[u].missed = 0
      BY <1>1, <2>1, <3>1 DEF Timely
    <3> QED BY <1>1, <2>1, <3>1, <3>2, TimelyStays, CalmBase, CalmBaseNext
  <2> QED BY <2>2, <2>3
<1> QED BY <1>1, <1>3, TimeStays

LEMMA ReopensTime == ASSUME Believed, TimeInv, NEW t \in Tracks, Reopens(t) PROVE TimeInv'
<1> USE DEF Believed
<1>1. /\ closing = NoChunk /\ closing' = NoChunk /\ now' = now /\ mode' = mode /\ track[t].lost
      /\ UNCHANGED <<wav, manifest>> /\ drifts' = drifts /\ ended' = ended
  BY DEF Reopens, Calm, disks
<1>2. /\ track'[t] = [track[t] EXCEPT !.lost = FALSE, !.missed = 0, !.gap = @ + track[t].missed]
      /\ \A u \in Tracks : u # t => track'[u] = track[u]
  BY ReopensIs
<1>3. ASSUME drifts = {}, mode # "off", NEW u \in Tracks PROVE Timely(u)'
  <2>1. Timely(u)
    BY <1>3 DEF TimeInv
  <2>2. CASE u = t
    <3>1. /\ track[t] \in TrackState /\ track[t].written \in Nat /\ track[t].gap \in Nat
          /\ track[t].missed \in Nat
      BY TrackIs
    <3>2. /\ track'[t].pending = track[t].pending /\ track'[t].missed = 0
          /\ track'[t].written = track[t].written /\ track'[t].gap = track[t].gap + track[t].missed
          /\ ~track'[t].lost
      BY <1>2, <3>1 DEF TrackState
    <3>3. /\ track[t].pending = <<>> /\ Len(track[t].pending) = 0
          /\ track[t].written + track[t].gap + track[t].missed = now /\ ~Inked
          /\ track[t].written = Described(t)
      BY <1>1, <2>1, <2>2, <3>1, CalmBase, EmptySeq DEF Timely
    <3>4. Base(t)' = now /\ now \in Nat /\ ~Inked'
      BY <1>1, <3>1, <3>2, <3>3, CalmBaseNext
    <3>5. Base(t)' + Len(track'[t].pending) + track'[t].missed = now'
      BY <1>1, <3>2, <3>3, <3>4
    <3>6. \A k \in 1 .. Len(track'[t].pending) : track'[t].pending[k] = Base(t)' + k
      BY <3>2, <3>3
    <3>7. track'[t].written = Described(t)'
      BY <1>1, <3>2, <3>3, DescribedStays
    <3> QED BY <2>2, <3>2, <3>5, <3>6, <3>7 DEF Timely
  <2>3. CASE u # t
    <3>1. track'[u] = track[u]
      BY <1>2, <2>3
    <3>2. /\ track'[u].lost => track'[u].pending = <<>> /\ mode' # "holding"
          /\ ~track'[u].lost /\ mode' # "holding" => track'[u].missed = 0
      BY <1>1, <2>1, <3>1 DEF Timely
    <3> QED BY <1>1, <2>1, <3>1, <3>2, TimelyStays, CalmBase, CalmBaseNext
  <2> QED BY <2>2, <2>3
<1>4. drifts = {} /\ mode = "off" => \A u \in Tracks : Described(u) = ended
  BY DEF TimeInv
<1> QED BY <1>1, <1>3, <1>4, TimeStays

LEMMA CutsTime == ASSUME Believed, TimeInv, NEW t \in Tracks, Cuts(t) PROVE TimeInv'
<1>1. /\ closing = NoChunk /\ now' = now /\ mode' = mode /\ track' = track /\ mode # "off"
      /\ UNCHANGED <<wav, manifest>> /\ drifts' = drifts /\ ended' = ended
  BY DEF Cuts, Calm, disks
<1>2. ~Inked'
  BY DEF Cuts, Inked
<1>3. ASSUME drifts = {}, NEW u \in Tracks PROVE Timely(u)'
  <2>1. Timely(u)
    BY <1>1, <1>3 DEF TimeInv
  <2>2. /\ track'[u].lost => track'[u].pending = <<>> /\ mode' # "holding"
        /\ ~track'[u].lost /\ mode' # "holding" => track'[u].missed = 0
    BY <1>1, <2>1 DEF Timely
  <2> QED BY <1>1, <1>2, <2>1, <2>2, TimelyStays, CalmBase
<1> QED BY <1>1, <1>3, TimeStays

LEMMA StopsTime == ASSUME Believed, TimeInv, Stops PROVE TimeInv'
<1>1. /\ closing = NoChunk /\ closing' = NoChunk /\ now' = now /\ mode' = "stopping" /\ track' = track
      /\ UNCHANGED <<wav, manifest>> /\ ended' = ended
      /\ mode = "writing" \/ mode = "holding"
      /\ drifts' = IF mode = "holding" THEN drifts \union {"hold"} ELSE drifts
  BY DEF Stops, Calm, disks
<1>2. drifts' = {} => drifts = {} /\ mode = "writing"
  BY <1>1
<1>3. ASSUME drifts' = {}, NEW t \in Tracks PROVE Timely(t)'
  <2>1. Timely(t)
    BY <1>2, <1>3 DEF TimeInv
  <2>2. /\ track'[t].lost => track'[t].pending = <<>> /\ mode' # "holding"
        /\ ~track'[t].lost /\ mode' # "holding" => track'[t].missed = 0
    BY <1>1, <1>2, <1>3, <2>1 DEF Timely
  <2> QED BY <1>1, <2>1, <2>2, TimelyStays, CalmBase, CalmBaseNext
<1> QED BY <1>1, <1>2, <1>3, TimeStays

LEMMA ClosesTime == ASSUME Believed, TimeInv, Closes1 PROVE TimeInv'
<1>1. /\ closing = NoChunk /\ mode = "stopping" /\ mode' = "off" /\ ended' = now
      /\ UNCHANGED <<wav, manifest>>
      /\ \A t \in Tracks : track[t].pending = <<>>
      /\ drifts' = IF \E t \in Tracks : track[t].lost \/ track[t].gap > 0
                   THEN drifts \union {"gap"} ELSE drifts
  BY DEF Closes1, Calm
<1>2. drifts' = {} => drifts = {} /\ \A t \in Tracks : ~track[t].lost /\ ~(track[t].gap > 0)
  BY <1>1
<1>3. ASSUME drifts' = {}, NEW t \in Tracks PROVE Described(t) = ended'
  <2>1. Timely(t)
    BY <1>1, <1>2, <1>3 DEF TimeInv
  <2>2. track[t].written \in Nat /\ track[t].gap = 0 /\ ~track[t].lost
    BY <1>2, <1>3, TrackIs DEF Believed
  <2>3. Len(track[t].pending) = 0
    BY <1>1, EmptySeq
  <2>4. track[t].missed = 0 /\ track[t].written = Described(t)
    BY <1>1, <2>1, <2>2, CalmBase DEF Timely
  <2>5. track[t].written + track[t].gap + Len(track[t].pending) + track[t].missed = now
    BY <1>1, <2>1, CalmBase DEF Timely
  <2> QED BY <1>1, <2>2, <2>3, <2>4, <2>5
<1> QED BY <1>1, <1>2, <1>3, TimeStays

LEMMA ContinuesTime == ASSUME Believed, TimeInv, Continues PROVE TimeInv'
<1> USE DEF Believed
<1>1. /\ mode = "off" /\ mode' = "writing" /\ now' = now /\ closing' = NoChunk
      /\ UNCHANGED <<wav, manifest>>
      /\ drifts' = {} => drifts = {}
  BY DEF Continues, disks, ShapeInv
<1>2. ASSUME drifts' = {}, NEW t \in Tracks PROVE Timely(t)'
  <2>1. \A u \in Tracks : Described(u) = ended
    BY <1>1, <1>2 DEF TimeInv
  <2>2. Max({Described(u) : u \in Tracks}) = ended
    BY <2>1, SoFarIs
  <2>3. now \in Nat /\ ended \in Nat /\ ended <= now
    BY TrackIs DEF ShapeInv
  <2>4. /\ track'[t].written = ended /\ track'[t].pending = <<>> /\ track'[t].missed = 0
        /\ track'[t].gap = (now - ended) + IF ended = 0 THEN ended ELSE 0
        /\ ~track'[t].lost
    BY <2>1, <2>2, ContinuesIs
  <2>5. track'[t].written + track'[t].gap = now
    BY <2>3, <2>4
  <2>6. Base(t)' = now /\ ~Inked'
    BY <1>1, <2>5, CalmBaseNext
  <2>7. Len(track'[t].pending) = 0
    BY <2>4, EmptySeq
  <2>8. Base(t)' + Len(track'[t].pending) + track'[t].missed = now'
    BY <1>1, <2>3, <2>4, <2>6, <2>7
  <2>9. track'[t].written = Described(t)'
    BY <1>1, <2>1, <2>4, DescribedStays
  <2>10. \A k \in 1 .. Len(track'[t].pending) : track'[t].pending[k] = Base(t)' + k
    BY <2>7
  <2> QED BY <2>4, <2>8, <2>9, <2>10 DEF Timely
<1> QED BY <1>1, <1>2, TimeStays

LEMMA DataTime == ASSUME Believed, TimeInv, WritesData PROVE TimeInv'
<1> USE DEF Believed
<1> DEFINE t == closing.track
<1>1. /\ closing # NoChunk /\ t \in Tracks /\ mode # "off" /\ ~Inked
      /\ closing.count \in 1 .. Len(track[t].pending)
      /\ closing \in [at : {"data", "header", "line"}, track : Tracks, count : Nat]
  <2>1. closing.at = "data"
    BY DEF WritesData
  <2>2. closing # NoChunk
    BY <2>1 DEF NoChunk
  <2> QED BY <2>1, <2>2, ChunkIs DEF Inked
<1>2. /\ manifest' = manifest /\ drifts' = drifts /\ now' = now /\ mode' = mode /\ ended' = ended
  BY DEF WritesData
<1>3. Inked' /\ closing'.track = t /\ closing'.count = closing.count
  <2>1. closing' = [closing EXCEPT !.at = "header"]
    BY DEF WritesData
  <2> QED BY <1>1, <2>1 DEF Inked
<1>4. ASSUME NEW u \in Tracks
      PROVE  /\ track[u].written \in Nat /\ track[u].gap \in Nat /\ closing.count \in Nat
             /\ track[u].missed \in Nat /\ Len(track[u].pending) \in Nat
             /\ track[u].written <= Len(wav[u]) /\ Len(wav[u]) \in Nat
             /\ wav'[u] = With(u, t) /\ Len(wav'[u]) = track'[u].written
             /\ track'[u].written = track[u].written + IF u = t THEN track[u].gap + closing.count ELSE 0
             /\ track'[u].gap = IF u = t THEN 0 ELSE track[u].gap
             /\ track'[u].pending = track[u].pending
             /\ track'[u].missed = track[u].missed /\ track'[u].lost = track[u].lost
  BY <1>1, DataIs, TrackIs, OpenedIs
<1>5. ASSUME drifts = {}, NEW u \in Tracks PROVE Timely(u)'
  <2>1. Timely(u)
    BY <1>1, <1>5 DEF TimeInv
  <2>2. Base(u) = track[u].written + track[u].gap
    BY <1>1 DEF Base
  <2>3. Base(u)' = Base(u)
    <3>1. CASE u = t
      <4>1. Base(u)' = track'[u].written - closing.count
        BY <1>3, <3>1 DEF Base
      <4> QED BY <1>4, <2>2, <3>1, <4>1
    <3>2. CASE u # t
      <4>1. Base(u)' = track'[u].written + track'[u].gap
        BY <1>3, <3>2 DEF Base
      <4> QED BY <1>4, <2>2, <3>2, <4>1
    <3> QED BY <3>1, <3>2
  <2>4. u # t => track'[u].written = Described(u)'
    <3>1. track[u].written = Described(u)
      BY <1>1, <2>1 DEF Timely
    <3> QED BY <1>2, <1>4, <3>1, DescribedStays
  <2>5. Base(u)' + Len(track'[u].pending) + track'[u].missed = now'
    BY <1>2, <1>4, <2>1, <2>3 DEF Timely
  <2>6. \A k \in 1 .. Len(track'[u].pending) : track'[u].pending[k] = Base(u)' + k
    BY <1>4, <2>1, <2>3 DEF Timely
  <2>7. /\ track'[u].lost => track'[u].pending = <<>> /\ mode' # "holding"
        /\ ~track'[u].lost /\ mode' # "holding" => track'[u].missed = 0
    BY <1>2, <1>4, <2>1 DEF Timely
  <2> QED BY <1>3, <2>4, <2>5, <2>6, <2>7 DEF Timely
<1>6. ASSUME drifts = {}, NEW u \in Tracks, NEW i \in 1 .. Len(wav'[u])
      PROVE  wav'[u][i] \in {0, i}
  <2>1. TimelineKept /\ Timely(t)
    BY <1>1, <1>6 DEF TimeInv
  <2>2. /\ \A k \in 1 .. track[u].written : With(u, t)[k] = wav[u][k]
        /\ u = t =>
             /\ \A k \in track[t].written + 1 .. track[t].written + track[t].gap : With(u, t)[k] = 0
             /\ \A k \in 1 .. closing.count :
                  With(u, t)[track[t].written + track[t].gap + k] = track[t].pending[k]
    BY <1>1, WithIs
  <2>3. CASE i <= track[u].written
    <3>1. i \in 1 .. track[u].written /\ i \in 1 .. Len(wav[u])
      BY <1>4, <2>3
    <3> QED BY <1>4, <2>1, <2>2, <3>1 DEF TimelineKept
  <2>4. CASE ~(i <= track[u].written)
    <3>1. u = t
      BY <1>4, <2>4
    <3>2. /\ i \in Nat /\ i <= track[t].written + track[t].gap + closing.count
          /\ i > track[t].written
      BY <1>4, <2>4, <3>1
    <3>3. CASE i <= track[t].written + track[t].gap
      <4>1. i \in track[t].written + 1 .. track[t].written + track[t].gap
        BY <1>1, <1>4, <3>2, <3>3
      <4> QED BY <1>4, <2>2, <3>1, <4>1
    <3>4. CASE ~(i <= track[t].written + track[t].gap)
      <4> DEFINE k == i - (track[t].written + track[t].gap)
      <4>1. k \in 1 .. closing.count /\ track[t].written + track[t].gap + k = i
        BY <1>1, <1>4, <3>2, <3>4
      <4>2. k \in 1 .. Len(track[t].pending)
        BY <1>1, <1>4, <4>1
      <4>3. track[t].pending[k] = Base(t) + k
        BY <2>1, <4>2 DEF Timely
      <4>4. Base(t) = track[t].written + track[t].gap
        BY <1>1 DEF Base
      <4> HIDE DEF k
      <4> QED BY <1>4, <2>2, <3>1, <4>1, <4>3, <4>4
    <3> QED BY <3>3, <3>4
  <2> QED BY <2>3, <2>4
<1>7. drifts' = {} => TimelineKept'
  BY <1>2, <1>6 DEF TimelineKept
<1>8. drifts' = {} => Untorn'
  BY <1>2 DEF TimeInv, Untorn
<1> QED BY <1>1, <1>2, <1>5, <1>7, <1>8 DEF TimeInv

LEMMA HeaderTime == ASSUME Believed, TimeInv, WritesHeader PROVE TimeInv'
<1>1. /\ closing # NoChunk /\ closing.at = "header"
      /\ closing \in [at : {"data", "header", "line"}, track : Tracks, count : Nat]
  BY ChunkIs DEF WritesHeader, NoChunk
<1>2. /\ manifest' = manifest /\ drifts' = drifts /\ now' = now /\ mode' = mode /\ wav' = wav
      /\ track' = track /\ ended' = ended /\ closing' = [closing EXCEPT !.at = "line"]
  BY DEF WritesHeader
<1>3. Inked /\ Inked' /\ closing'.track = closing.track /\ closing'.count = closing.count
  BY <1>1, <1>2 DEF Inked
<1>4. ASSUME drifts = {}, mode # "off", NEW u \in Tracks PROVE Timely(u)'
  <2>1. Timely(u)
    BY <1>4 DEF TimeInv
  <2>2. Base(u)' = Base(u)
    BY <1>2, <1>3 DEF Base
  <2>3. Described(u)' = Described(u)
    BY <1>2, DescribedStays
  <2> QED BY <1>2, <1>3, <2>1, <2>2, <2>3 DEF Timely
<1>5. drifts = {} /\ mode = "off" => \A t \in Tracks : Described(t) = ended
  BY DEF TimeInv
<1> QED BY <1>2, <1>4, <1>5, TimeStays

LEMMA LineTime == ASSUME Believed, PromiseInv, TimeInv, WritesLine PROVE TimeInv'
<1> USE DEF Believed
<1> DEFINE t == closing.track
           line == [track |-> t, end |-> track[t].written]
           rest == SubSeq(track[t].pending, closing.count + 1, Len(track[t].pending))
<1>1. /\ Inked /\ t \in Tracks /\ mode # "off" /\ line \in Written /\ manifest' = Lines(line)
      /\ closing.count \in 1 .. Len(track[t].pending)
      /\ track[t].opened /\ track[t].gap = 0 /\ track[t].written = Len(wav[t])
      /\ track'[t] = [track[t] EXCEPT !.pending = SubSeq(@, closing.count + 1, Len(@))]
      /\ \A u \in Tracks : u # t => track'[u] = track[u]
      /\ \A u \in Tracks : /\ track'[u].written = track[u].written
                           /\ track'[u].gap = track[u].gap
                           /\ track'[u].missed = track[u].missed
                           /\ track'[u].lost = track[u].lost
  BY LineIs
<1>2. /\ wav' = wav /\ closing' = NoChunk /\ drifts' = drifts /\ now' = now /\ mode' = mode
  BY DEF WritesLine
<1>3. /\ track[t].written \in Nat /\ track[t].missed \in Nat /\ Len(track[t].pending) \in Nat
      /\ closing.count \in Nat /\ closing.count >= 1
  BY <1>1, TrackIs
<1>4. track'[t].pending = rest
  <2>1. track[t] \in TrackState
    BY <1>1, TrackIs
  <2>2. track'[t] = [track[t] EXCEPT !.pending = rest]
    BY <1>1
  <2> HIDE DEF rest, t
  <2> QED BY <2>1, <2>2 DEF TrackState
<1>5. /\ Len(rest) = Len(track[t].pending) - closing.count
      /\ \A k \in 1 .. Len(track[t].pending) - closing.count :
            rest[k] = track[t].pending[closing.count + k]
  BY <1>1, TakenIs
<1>6. line.track = t /\ line.end = track[t].written
  OBVIOUS
<1>7. ASSUME drifts = {} PROVE Untorn'
  <2>1. Untorn
    BY <1>7 DEF TimeInv
  <2>2. line # Torn
    <3>1. 1 \in 1 .. closing.count
      BY <1>3
    <3>2. \E i \in 1 .. track[t].written : TRUE
      BY <1>1, <2>1, <3>1 DEF PromiseInv
    <3>3. track[t].written # 0
      BY <3>2
    <3> HIDE DEF line
    <3> QED BY <1>6, <3>3 DEF Torn
  <2>3. manifest \in Seq(Written)
    BY DEF WriterTypeOK, Written
  <2>4. manifest' = Append(manifest, line)
    BY <1>1, <2>1, <2>3, LinesAre
  <2>5. /\ Len(manifest') = Len(manifest) + 1 /\ Len(manifest) \in Nat
        /\ \A i \in 1 .. Len(manifest) : manifest'[i] = manifest[i]
        /\ manifest'[Len(manifest) + 1] = line
    BY <1>1, <2>3, <2>4
  <2> HIDE DEF line
  <2>6. \A i \in 1 .. Len(manifest') : i \in 1 .. Len(manifest) \/ i = Len(manifest) + 1
    BY <2>5
  <2> QED BY <2>1, <2>2, <2>5, <2>6 DEF Untorn
<1>8. ASSUME drifts = {}, NEW u \in Tracks
      PROVE  Described(u)' = IF u = t THEN track[t].written ELSE Described(u)
  <2>1. Described(u)' = IF line.track = u /\ line.end > Described(u) THEN line.end ELSE Described(u)
    BY <1>1, <1>7, <1>8, LinesTell
  <2>2. Described(t) \in Nat /\ Described(t) <= track[t].written
    BY <1>1, DescribedIsWritten
  <2> HIDE DEF line
  <2> QED BY <1>3, <1>6, <2>1, <2>2
<1>9. ASSUME drifts = {}, NEW u \in Tracks PROVE Timely(u)'
  <2>1. Timely(u)
    BY <1>1, <1>9 DEF TimeInv
  <2>2. ~Inked' /\ Base(u)' = track'[u].written + track'[u].gap
    BY <1>2, CalmBaseNext
  <2>3. CASE u = t
    <3>1. Base(t) = track[t].written - closing.count
      BY <1>1 DEF Base
    <3>2. Base(u)' = track[t].written
      BY <1>1, <1>3, <2>2, <2>3
    <3>3. track[t].pending # <<>>
      BY <1>3, <1>1, EmptySeq
    <3>4. ~track[t].lost
      BY <2>1, <2>3, <3>3 DEF Timely
    <3>5. mode # "holding" => track[t].missed = 0
      BY <2>1, <2>3, <3>4 DEF Timely
    <3>6. track[t].written - closing.count + Len(track[t].pending) + track[t].missed = now
      BY <2>1, <2>3, <3>1 DEF Timely
    <3>7. Base(u)' + Len(track'[u].pending) + track'[u].missed = now'
      <4>1. track'[u].missed = track[t].missed /\ Len(track'[u].pending) = Len(track[t].pending) - closing.count
        BY <1>1, <1>4, <1>5, <2>3
      <4> HIDE DEF t
      <4> QED BY <1>2, <1>3, <3>2, <3>6, <4>1
    <3>8. ASSUME NEW k \in 1 .. Len(track'[u].pending) PROVE track'[u].pending[k] = Base(u)' + k
      <4>1. k \in 1 .. Len(track[t].pending) - closing.count
        BY <1>4, <1>5, <2>3
      <4>2. /\ track'[u].pending[k] = track[t].pending[closing.count + k]
            /\ closing.count + k \in 1 .. Len(track[t].pending)
        <5>1. track'[u].pending[k] = track[t].pending[closing.count + k]
          BY <1>4, <1>5, <2>3, <4>1
        <5>2. closing.count + k \in 1 .. Len(track[t].pending)
          BY <1>3, <4>1
        <5> QED BY <5>1, <5>2
      <4>3. track[t].pending[closing.count + k] = Base(t) + (closing.count + k)
        BY <2>1, <2>3, <4>2 DEF Timely
      <4>4. (track[t].written - closing.count) + (closing.count + k) = track[t].written + k
        BY <1>3, <4>1
      <4> QED BY <3>1, <3>2, <4>2, <4>3, <4>4
    <3>9. track'[u].written = Described(u)'
      BY <1>1, <1>8, <1>9, <2>3
    <3> QED BY <1>1, <1>2, <2>3, <3>4, <3>5, <3>7, <3>8, <3>9 DEF Timely
  <2>4. CASE u # t
    <3>1. track'[u] = track[u] /\ Described(u)' = Described(u)
      BY <1>1, <1>8, <1>9, <2>4
    <3>2. Base(u)' = Base(u)
      BY <2>2, <2>4, <3>1 DEF Base
    <3> QED BY <1>2, <2>1, <2>4, <3>1, <3>2 DEF Timely
  <2> QED BY <2>3, <2>4
<1>10. drifts = {} => TimelineKept'
  BY <1>2 DEF TimeInv, TimelineKept
<1> QED BY <1>1, <1>2, <1>7, <1>9, <1>10 DEF TimeInv

LEMMA TimeNext ==
    ASSUME Believed, PromiseInv, TimeInv, [WriterNext]_writerVars
    PROVE  TimeInv'
<1>1. CASE UNCHANGED writerVars
  BY <1>1 DEF writerVars, TimeInv, TimelineKept, Untorn, Timely, Base, Inked, Described
<1>2. CASE Hears1
  BY <1>2, HearsTime
<1>3. CASE Holds
  BY <1>3, HoldsTime
<1>4. ASSUME NEW keep \in BOOLEAN, Releases(keep) PROVE TimeInv'
  <2>1. drifts' # {}
    BY <1>4 DEF Releases
  <2> QED BY <2>1 DEF TimeInv
<1>5. ASSUME NEW t \in Tracks, Loses(t) PROVE TimeInv'
  BY <1>5, LosesTime
<1>6. ASSUME NEW t \in Tracks, Reopens(t) PROVE TimeInv'
  BY <1>6, ReopensTime
<1>7. ASSUME NEW t \in Tracks, Cuts(t) PROVE TimeInv'
  BY <1>7, CutsTime
<1>8. CASE WritesData
  BY <1>8, DataTime
<1>9. CASE WritesHeader
  BY <1>9, HeaderTime
<1>10. CASE WritesLine
  BY <1>10, LineTime
<1>11. CASE Stops
  BY <1>11, StopsTime
<1>12. CASE Closes1
  BY <1>12, ClosesTime
<1>13. CASE Crashes
  <2>1. drifts' # {}
    BY <1>13 DEF Crashes
  <2> QED BY <2>1 DEF TimeInv
<1>14. CASE Continues
  BY <1>14, ContinuesTime
<1> QED BY <1>1, <1>2, <1>3, <1>4, <1>5, <1>6, <1>7, <1>8, <1>9, <1>10, <1>11, <1>12,
           <1>13, <1>14 DEF WriterNext

LEMMA TimeInitially == WriterInit => TimeInv
<1> SUFFICES ASSUME WriterInit PROVE TimeInv
  OBVIOUS
<1>1. /\ closing = NoChunk /\ mode = "writing" /\ manifest = <<>> /\ now = 0
      /\ Len(<<>>) = 0
      /\ \A t \in Tracks : track[t] = Fresh /\ wav[t] = <<>>
  BY EmptySeq DEF WriterInit
<1>2. Fresh.written = 0 /\ Fresh.gap = 0 /\ Fresh.missed = 0 /\ Fresh.pending = <<>> /\ ~Fresh.lost
  BY DEF Fresh
<1>3. TimelineKept /\ Untorn
  BY <1>1 DEF TimelineKept, Untorn
<1>4. ASSUME NEW t \in Tracks PROVE Timely(t)
  <2>1. ~Inked /\ Base(t) = 0
    <3>1. ~Inked /\ Base(t) = track[t].written + track[t].gap
      BY <1>1, CalmBase
    <3> QED BY <1>1, <1>2, <3>1
  <2>2. Described(t) = 0
    <3>1. Described(t) = DescribedIn(<<>>, t)
      BY <1>1 DEF Described, DescribedIn
    <3> QED BY <3>1, DescribedAtFirst
  <2> QED BY <1>1, <1>2, <2>1, <2>2 DEF Timely
<1> QED BY <1>1, <1>3, <1>4 DEF TimeInv

\* Without a hold, a crash, a lost tail or a gap at the end, what was heard is in the file
\* at the place of its time, through lost devices, stops and carrying on.
THEOREM HeardIsInPlace == WriterSpec => []TimelineKeptThroughGaps
<1>1. WriterSpec => []Believed
  BY BelievedInitially, BelievedNext, PTL DEF WriterSpec
<1>2. WriterInit => PromiseInv
  BY DEF WriterInit, PromiseInv, Inked, NoChunk
<1>3. WriterSpec => []PromiseInv
  BY <1>1, <1>2, PromiseNext, PTL DEF WriterSpec
<1>4. WriterSpec => []TimeInv
  BY <1>1, <1>3, TimeInitially, TimeNext, PTL DEF WriterSpec
<1>5. TimeInv => TimelineKeptThroughGaps
  BY DEF TimeInv, TimelineKeptThroughGaps
<1> QED BY <1>4, <1>5, PTL
=============================================================================
