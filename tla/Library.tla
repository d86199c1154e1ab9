------------------------------ MODULE Library ------------------------------
(***************************************************************************)
(* What becomes of recordings once they are made: two of one meeting are   *)
(* merged (app/merge.py, app/meetings.py), the worker transcribes them, a  *)
(* meeting is deleted (app/api/routes.py) or swept by the retention policy *)
(* (app/retention.py), and the process dies in between.                    *)
(*                                                                         *)
(* A recording is told apart by when it was made, so a file is the         *)
(* sequence of the recordings whose sound it holds, and a transcript the   *)
(* sequence of those it was made from.  Every meeting is of the same       *)
(* calendar event and old enough for every policy; no AI is configured, so *)
(* a meeting ends at its transcript.  A stage whose output is newer than   *)
(* its input leaves it: the outcome is what running it again gives.        *)
(***************************************************************************)
EXTENDS Naturals, SequencesExt

CONSTANTS
    Parts,     \* the recordings, numbered in the order they were made
    None,      \* no recording
    Pressers,  \* threads that serve the page
    Quotas     \* how often each outside event may happen: one is chosen at the start

\* "full": the disk, while a merge appends; "error": a file that a merge cannot read before
\* that, or write after it.
Happenings == {"merge", "assign", "retry", "delete", "strip", "purge", "full", "error",
               "held", "crash", "overlap"}

ASSUME PartsAreNumbered == Parts \subseteq Nat /\ None \notin Parts
ASSUME QuotasAssumption == Quotas \subseteq [Happenings -> Nat]

VARIABLES
    row,         \* recordings that have a row in the database
    folder,      \* the files of each recording's folder
    job,         \* the jobs of each recording
    alias,       \* meeting_aliases: what a merged recording's id means now
    waits,       \* merge_into in meta.json
    deleting,    \* the queue's delete requests, in memory
    doing,       \* where each thread is
    quota,       \* what is left of the quota
    removed,     \* recordings the user deleted, or the policy may purge
    flaws        \* history: what went wrong so far, see Flaws

libraryVars == <<row, folder, job, alias, waits, deleting, doing, quota, removed,
                 flaws>>

\* "cut": a crash or an error cut a merge short, or a crash the step to the next job;
\* "dropped": an error ended a merge that had withdrawn jobs; "outdated": a merge joined a
\* transcript made before its audio was complete; "unheard": the policy took sound before
\* it was transcribed as a whole.
Flaws == {"cut", "dropped", "outdated", "unheard"}

Stages == {"transcribe", "assemble"}
JobStates == {"none", "pending", "running", "done", "failed", "cancelled"}

Folder == [audio : Seq(Parts), segments : Seq(Parts), transcript : Seq(Parts),
           marker : BOOLEAN]

NoFolder == [audio |-> <<>>, segments |-> <<>>, transcript |-> <<>>, marker |-> FALSE]

TheWorker == "worker"
LibraryThreads == Pressers \union {TheWorker}

\* first and second: the recordings a merge is about, or the one a stage is.
Doing == [at : {"rest", "second", "append", "undo", "join", "alias", "redo", "remove",
                "stage", "complete", "next", "pending", "sweep"},
          first : Parts \union {None}, second : Parts \union {None},
          before : Folder, both : BOOLEAN, waiting : BOOLEAN, calling : BOOLEAN,
          stage : Stages, todo : SUBSET (Parts \X {"strip", "purge"})]

Idle == [at |-> "rest", first |-> None, second |-> None, before |-> NoFolder,
         both |-> FALSE, waiting |-> FALSE, calling |-> FALSE, stage |-> "transcribe",
         todo |-> {}]

LibraryTypeOK ==
    /\ row \subseteq Parts
    /\ folder \in [Parts -> Folder]
    /\ job \in [Parts -> [Stages -> JobStates]]
    /\ alias \in [Parts -> Parts \union {None}]
    /\ waits \in [Parts -> Parts \union {None}]
    /\ deleting \subseteq Parts
    /\ doing \in [LibraryThreads -> Doing]
    /\ quota \in [Happenings -> Nat]
    /\ removed \subseteq Parts /\ flaws \subseteq Flaws

\* Each recording waits to be transcribed, or is.
LibraryInit ==
    /\ row = Parts
    /\ \E done \in SUBSET Parts :
       /\ folder = [p \in Parts |-> IF p \in done
              THEN [NoFolder EXCEPT !.audio = <<p>>, !.segments = <<p>>, !.transcript = <<p>>]
              ELSE [NoFolder EXCEPT !.audio = <<p>>]]
       /\ job = [p \in Parts |-> IF p \in done THEN [s \in Stages |-> "done"]
                                 ELSE [transcribe |-> "pending", assemble |-> "none"]]
    /\ alias = [p \in Parts |-> None]
    /\ waits = [p \in Parts |-> None]
    /\ deleting = {}
    /\ doing = [t \in LibraryThreads |-> Idle]
    /\ quota \in Quotas
    /\ removed = {} /\ flaws = {}

Flawed(f) == flaws' = flaws \union {f}

Uses(e) == quota[e] > 0 /\ quota' = [quota EXCEPT ![e] = @ - 1]

Resting == \A t \in LibraryThreads : doing[t].at = "rest"

\* A thread begins something while another is at something only when they overlap.
Free(t) == doing[t].at = "rest" /\ (quota["overlap"] > 0 \/ Resting)

Is(t, d) == doing' = [doing EXCEPT ![t] = d]
To(t, at) == Is(t, [doing[t] EXCEPT !.at = at])

Memory == <<deleting, quota, removed, flaws>>

(***************************************************************************)
(* The queue and the rows.                                                 *)
(***************************************************************************)
Busy(p) == \E s \in Stages : job[p][s] = "running"

Queued(p) == \E s \in Stages : job[p][s] \in {"pending", "running"}

\* The jobs js with those of p that are in one state put in another.
Moved(js, p, old, new) ==
    [js EXCEPT ![p] = [s \in Stages |-> IF @[s] = old THEN new ELSE @[s]]]

withdraw(js, p) == Moved(js, p, "pending", "cancelled")

restore(js, p) == Moved(js, p, "cancelled", "pending")

resolve(p) == IF alias[p] = None THEN p ELSE alias[p]

\* Mutant: what was merged into b before is not moved with it.
add_aliasAlone(b, a) == alias' = [alias EXCEPT ![b] = a]

add_alias(b, a) ==
    alias' = [p \in Parts |-> IF p = b \/ alias[p] = b THEN a ELSE alias[p]]

NoJobs == [s \in Stages |-> "none"]

\* Folder and row go; jobs go with the row.
purge(p) ==
    /\ folder' = [folder EXCEPT ![p] = NoFolder]
    /\ row' = row \ {p}
    /\ job' = [job EXCEPT ![p] = NoJobs]

transcribed(p) == folder[p].segments # <<>>

(***************************************************************************)
(* Merging.                                                                *)
(***************************************************************************)
Mergeable(p) == p \in row /\ folder[p].audio # <<>>

\* Refused when one has no audio or is being processed; a merge the app asked for is
\* then tried again later.
Refuses(t, b, a, asked) ==
    /\ waits' = IF asked THEN [waits EXCEPT ![b] = a] ELSE waits
    /\ Is(t, Idle)

\* merge up to the first withdrawal, of two different recordings.  asked: by the app,
\* from merge_into_existing; calling: by the worker, from merge_pending.
Merges(t, p, q, asked, calling) ==
    LET a == IF p < q THEN p ELSE q
        b == IF p < q THEN q ELSE p IN
    IF Mergeable(a) /\ Mergeable(b) /\ ~Busy(a)
    THEN /\ job' = withdraw(job, a)
         /\ Is(t, [Idle EXCEPT !.at = "second", !.first = a, !.second = b,
                               !.waiting = asked, !.calling = calling])
         /\ UNCHANGED waits
    ELSE Refuses(t, b, a, asked) /\ UNCHANGED job

\* The second withdrawal; what the merge changes is remembered.
WithdrawsSecond(t) ==
    /\ doing[t].at = "second"
    /\ LET a == doing[t].first
           b == doing[t].second IN
       /\ IF Busy(b)
          THEN /\ job' = restore(job, a)
               /\ Refuses(t, b, a, doing[t].waiting)
          ELSE /\ job' = withdraw(job, b)
               /\ Is(t, [doing[t] EXCEPT !.at = "append", !.before = folder[a],
                                         !.both = transcribed(a) /\ transcribed(b)])
               /\ UNCHANGED waits
       /\ IF \E p \in {a, b} : transcribed(p) /\ folder[p].segments # folder[p].audio
          THEN Flawed("outdated") ELSE UNCHANGED flaws
    /\ UNCHANGED <<row, folder, alias, deleting, quota, removed>>

\* The writer saves chunk by chunk: a disk that is full leaves what was appended.
Appends(t) ==
    /\ doing[t].at = "append"
    /\ LET a == doing[t].first
           b == doing[t].second IN
       \E fails \in BOOLEAN :
          /\ IF fails THEN Uses("full") ELSE UNCHANGED quota
          /\ folder' = [folder EXCEPT ![a].audio = @ \o folder[b].audio]
          /\ To(t, IF fails THEN "undo" ELSE "join")
    /\ UNCHANGED <<row, job, alias, waits, deleting, removed, flaws>>

\* The transcripts are joined when both have one; the row is updated.
Joins(t) ==
    /\ doing[t].at = "join"
    /\ LET a == doing[t].first
           b == doing[t].second IN
       folder' = IF doing[t].both
                 THEN [folder EXCEPT ![a].segments = @ \o folder[b].segments] ELSE folder
    /\ To(t, "alias")
    /\ UNCHANGED <<row, job, alias, waits, Memory>>

\* Mutant: the jobs of the later recording stay cancelled.
UndoesHalf(t) ==
    /\ doing[t].at = "undo"
    /\ LET a == doing[t].first
           b == doing[t].second IN
       /\ folder' = [folder EXCEPT ![a] = doing[t].before]
       /\ job' = restore(job, a)
       /\ Refuses(t, b, a, doing[t].waiting)
    /\ UNCHANGED <<row, alias, Memory>>

\* Snapshot.restore, and both recordings' jobs.
Undoes(t) ==
    /\ doing[t].at = "undo"
    /\ LET a == doing[t].first
           b == doing[t].second IN
       /\ folder' = [folder EXCEPT ![a] = doing[t].before]
       /\ job' = restore(restore(job, a), b)
       /\ Refuses(t, b, a, doing[t].waiting)
    /\ UNCHANGED <<row, alias, Memory>>

\* A row that is gone by now ends the merge with an error.
Aliases(t) ==
    /\ doing[t].at = "alias"
    /\ add_alias(doing[t].second, doing[t].first)
    /\ IF doing[t].first \in row THEN To(t, "redo") ELSE Is(t, Idle)
    /\ UNCHANGED <<row, folder, job, waits, Memory>>

\* Mutant: what was transcribed once is only assembled again.
RedoesAssembly(t) ==
    /\ doing[t].at = "redo"
    /\ LET a == doing[t].first
           stage == IF transcribed(a) THEN "assemble" ELSE "transcribe" IN
       IF a \in row
       THEN job' = [job EXCEPT ![a][stage] = "pending"] /\ To(t, "remove")
       ELSE UNCHANGED job /\ Is(t, Idle)
    /\ UNCHANGED <<row, folder, alias, waits, Memory>>

Again(t) == IF doing[t].both THEN "assemble" ELSE "transcribe"

\* redo_after_merge: the whole is assembled, or transcribed, again.
Redoes(t) ==
    /\ doing[t].at = "redo"
    /\ LET a == doing[t].first IN
       IF a \in row
       THEN job' = [job EXCEPT ![a][Again(t)] = "pending"] /\ To(t, "remove")
       ELSE UNCHANGED job /\ Is(t, Idle)
    /\ UNCHANGED <<row, folder, alias, waits, Memory>>

\* The later recording goes.  A folder that cannot go yet is marked.
Removes(t) ==
    /\ doing[t].at = "remove"
    /\ LET a == doing[t].first
           b == doing[t].second IN
       /\ \/ purge(b) /\ UNCHANGED quota
          \/ /\ Uses("held")
             /\ folder' = [folder EXCEPT ![b].marker = TRUE]
             /\ row' = row \ {b}
             /\ job' = [job EXCEPT ![b] = NoJobs]
       /\ waits' = IF doing[t].calling THEN [waits EXCEPT ![a] = None] ELSE waits
    /\ Is(t, Idle)
    /\ UNCHANGED <<alias, deleting, removed, flaws>>

\* Snapshot cannot read a file: the merge ends with both recordings' jobs withdrawn.
SnapshotFails(t) ==
    /\ doing[t].at = "second"
    /\ ~Busy(doing[t].second)
    /\ job' = withdraw(job, doing[t].second)
    /\ Flawed("dropped")
    /\ UNCHANGED <<folder, alias>>

\* Snapshot.restore cannot write one: the jobs are put back all the same.
RestoreFails(t) ==
    /\ doing[t].at = "undo"
    /\ job' = restore(restore(job, doing[t].first), doing[t].second)
    /\ Flawed("cut")
    /\ UNCHANGED <<folder, alias>>

\* meta.mirror cannot write meta.json, before the whole is queued or at the end of
\* redo_after_merge: both recordings stay, one's id the other's.
MirrorFails(t) ==
    /\ doing[t].first \in row
    /\ \/ doing[t].at = "alias" /\ add_alias(doing[t].second, doing[t].first) /\ UNCHANGED job
       \/ /\ doing[t].at = "redo"
          /\ job' = [job EXCEPT ![doing[t].first][Again(t)] = "pending"]
          /\ UNCHANGED alias
    /\ Flawed("cut")
    /\ UNCHANGED folder

MergeFails(t) ==
    /\ SnapshotFails(t) \/ RestoreFails(t) \/ MirrorFails(t)
    /\ Uses("error")
    /\ Refuses(t, doing[t].second, doing[t].first, doing[t].waiting)
    /\ UNCHANGED <<row, deleting, removed>>

MergeStep(t) ==
    \/ WithdrawsSecond(t)
    \/ Appends(t)
    \/ Joins(t)
    \/ Undoes(t)
    \/ Aliases(t)
    \/ Redoes(t)
    \/ Removes(t)
    \/ MergeFails(t)

\* "Merge" on the page: both ids are resolved, and must name two recordings.
MergePressed(t) ==
    /\ Free(t) /\ Uses("merge")
    /\ \E p, q \in Parts :
          /\ resolve(p) # resolve(q)
          /\ resolve(p) \in row /\ resolve(q) \in row
          /\ Merges(t, resolve(p), resolve(q), FALSE, FALSE)
    /\ UNCHANGED <<row, folder, alias, deleting, removed, flaws>>

\* The recording ended, or the user said which meeting it was: merge_into_existing.
Assigned(t) ==
    /\ Free(t) /\ Uses("assign")
    /\ \E p, q \in row :
          /\ p # q
          /\ \A other \in row \ {p} : q <= other   \* the earliest other one
          /\ LET a == IF p < q THEN p ELSE q
                 b == IF p < q THEN q ELSE p IN
             IF transcribed(a) /\ ~transcribed(b)
             THEN waits' = [waits EXCEPT ![b] = a] /\ UNCHANGED <<job, doing>>
             ELSE Merges(t, a, b, TRUE, FALSE)
    /\ UNCHANGED <<row, folder, alias, deleting, removed, flaws>>

(***************************************************************************)
(* The worker.                                                             *)
(***************************************************************************)
TakesJob ==
    /\ Free(TheWorker)
    /\ \E p \in row, s \in Stages :
          /\ job[p][s] = "pending"
          /\ job' = [job EXCEPT ![p][s] = "running"]
          /\ Is(TheWorker, [Idle EXCEPT !.at = "stage", !.first = p, !.stage = s,
                                        !.before = folder[p]])
    /\ UNCHANGED <<row, folder, alias, waits, Memory>>

Input == IF doing[TheWorker].stage = "transcribe" THEN doing[TheWorker].before.audio
         ELSE doing[TheWorker].before.segments

\* A meeting being deleted goes now; a stage without its input fails.
StageEndsBadly ==
    /\ doing[TheWorker].at = "stage"
    /\ LET p == doing[TheWorker].first
           s == doing[TheWorker].stage IN
       IF p \in deleting
       THEN purge(p) /\ deleting' = deleting \ {p}
       ELSE /\ Input = <<>>
            /\ job' = [job EXCEPT ![p][s] = "failed"]
            /\ UNCHANGED <<row, folder, deleting>>
    /\ Is(TheWorker, Idle)
    /\ UNCHANGED <<alias, waits, quota, removed, flaws>>

StageEndsWell ==
    /\ doing[TheWorker].at = "stage"
    /\ LET p == doing[TheWorker].first IN
       /\ p \notin deleting /\ Input # <<>>
       /\ folder' = IF doing[TheWorker].stage = "transcribe"
                    THEN [folder EXCEPT ![p].segments = Input]
                    ELSE [folder EXCEPT ![p].transcript = Input]
    /\ To(TheWorker, "complete")
    /\ UNCHANGED <<row, job, alias, waits, Memory>>

Completes ==
    /\ doing[TheWorker].at = "complete"
    /\ LET p == doing[TheWorker].first IN
       IF p \in row
       THEN /\ job' = [job EXCEPT ![p][doing[TheWorker].stage] = "done"]
            /\ To(TheWorker, "next")
       ELSE UNCHANGED job /\ Is(TheWorker, Idle)
    /\ UNCHANGED <<row, folder, alias, waits, Memory>>

\* A row that is gone has no next job: the insert fails, and the run with it.
EnqueuesNext ==
    /\ doing[TheWorker].at = "next"
    /\ LET p == doing[TheWorker].first IN
       IF p \in row
       THEN /\ job' = IF doing[TheWorker].stage = "transcribe" /\ job[p].assemble # "running"
                      THEN [job EXCEPT ![p].assemble = "pending"] ELSE job
            /\ To(TheWorker, "pending")
       ELSE UNCHANGED job /\ Is(TheWorker, Idle)
    /\ UNCHANGED <<row, folder, alias, waits, Memory>>

\* merge_pending: this recording may be joined now to the one it waits for.
MergesPending ==
    /\ doing[TheWorker].at = "pending"
    /\ LET p == doing[TheWorker].first
           target == IF waits[p] = None THEN None ELSE resolve(waits[p]) IN
       IF p \notin row \/ target = None
       THEN Is(TheWorker, Idle) /\ UNCHANGED <<job, waits>>
       ELSE IF target \notin row \/ target = p
       THEN /\ waits' = [waits EXCEPT ![p] = None]
            /\ Is(TheWorker, Idle) /\ UNCHANGED job
       ELSE IF transcribed(target) /\ ~transcribed(p)
       THEN Is(TheWorker, Idle) /\ UNCHANGED <<job, waits>>
       ELSE Merges(TheWorker, target, p, FALSE, TRUE)
    /\ UNCHANGED <<row, folder, alias, Memory>>

StageStep ==
    \/ TakesJob
    \/ StageEndsBadly
    \/ StageEndsWell
    \/ Completes
    \/ EnqueuesNext
    \/ MergesPending

(***************************************************************************)
(* The user, the policy and the process.                                   *)
(***************************************************************************)
\* "Transcribe again".
RetryPressed(t) ==
    /\ Free(t) /\ Uses("retry")
    /\ \E p \in row :
          /\ folder[p].audio # <<>>
          /\ job' = [job EXCEPT ![p].transcribe = "pending"]
    /\ UNCHANGED <<row, folder, alias, waits, deleting, doing, removed, flaws>>

\* What a recording's folder and id stand for.
Held(p) == {p} \union {q \in Parts : alias[q] = p}

\* Waiting jobs go first, so a folder that cannot go leaves a meeting without them.
DeletePressed(t) ==
    /\ Free(t) /\ Uses("delete")
    /\ \E p \in Parts :
       LET m == resolve(p) IN
          /\ m \in row
          /\ removed' = removed \union Held(m)
          /\ IF Busy(m)
             THEN /\ deleting' = deleting \union {m}
                  /\ folder' = [folder EXCEPT ![m].marker = TRUE]
                  /\ job' = [job EXCEPT ![m] =
                               [s \in Stages |-> IF @[s] = "running" THEN @[s] ELSE "none"]]
                  /\ UNCHANGED row
             ELSE /\ UNCHANGED deleting
                  /\ \/ purge(m)
                     \/ /\ quota["held"] > 0
                        /\ job' = [job EXCEPT ![m] = NoJobs]
                        /\ UNCHANGED <<row, folder>>
    /\ UNCHANGED <<alias, waits, doing, flaws>>

\* Mutant: what has no job is taken for transcribed.
StripsAny(p) == folder[p].audio # <<>> /\ ~Queued(p)

\* plan: what has a job is left alone; audio is expendable once there is a transcript.
Strips(p) == folder[p].audio # <<>> /\ folder[p].transcript # <<>> /\ ~Queued(p)

SweepBegins(t) ==
    /\ Free(t)
    /\ \E kind \in {"strip", "purge"} :
       LET doomed == IF kind = "strip" THEN {p \in row : Strips(p)}
                     ELSE {p \in row : ~Queued(p)} IN
          /\ Uses(kind)
          /\ Is(t, [Idle EXCEPT !.at = "sweep", !.todo = doomed \X {kind}])
          /\ removed' = IF kind = "purge" THEN removed \union UNION {Held(p) : p \in doomed}
                        ELSE removed
    /\ UNCHANGED <<row, folder, job, alias, waits, deleting, flaws>>

\* Sound of p goes that was not transcribed as a whole, and that nobody deleted.
GoesUnheard(p) ==
    /\ folder[p].audio # <<>> /\ folder[p].transcript # folder[p].audio
    /\ ~(Held(p) \subseteq removed)

\* One candidate after the other, whatever has become of it but its row.
Sweeps(t) ==
    /\ doing[t].at = "sweep"
    /\ IF doing[t].todo = {}
       THEN Is(t, Idle) /\ UNCHANGED <<row, folder, job, flaws>>
       ELSE \E c \in doing[t].todo :
            LET p == c[1] IN
            /\ Is(t, [doing[t] EXCEPT !.todo = @ \ {c}])
            /\ IF p \notin row THEN UNCHANGED <<row, folder, job, flaws>>
               ELSE IF c[2] = "purge" THEN purge(p) /\ UNCHANGED flaws
               ELSE /\ folder' = [folder EXCEPT ![p].audio = <<>>]
                    /\ IF GoesUnheard(p) THEN Flawed("unheard") ELSE UNCHANGED flaws
                    /\ UNCHANGED <<row, job>>
    /\ UNCHANGED <<alias, waits, deleting, quota, removed>>

\* Marked folders go at the start, with their rows.
Dies ==
    /\ Uses("crash")
    /\ LET marked == {p \in Parts : folder[p].marker} IN
       /\ folder' = [p \in Parts |-> IF p \in marked THEN NoFolder ELSE folder[p]]
       /\ row' = row \ marked
       /\ job' = [p \in Parts |-> IF p \in marked THEN NoJobs
                                  ELSE Moved(job, p, "running", "pending")[p]]
    /\ flaws' = IF \E t \in LibraryThreads : doing[t].second # None \/ doing[t].at = "next"
                THEN flaws \union {"cut"} ELSE flaws
    /\ doing' = [t \in LibraryThreads |-> Idle]
    /\ deleting' = {}
    /\ UNCHANGED <<alias, waits, removed>>

Pressed(t) ==
    \/ MergePressed(t)
    \/ Assigned(t)
    \/ RetryPressed(t)
    \/ DeletePressed(t)

LibraryNext ==
    \/ \E t \in Pressers : Pressed(t)
    \/ \E t \in LibraryThreads : MergeStep(t) \/ SweepBegins(t) \/ Sweeps(t)
    \/ StageStep
    \/ Dies

LibrarySpec == LibraryInit /\ [][LibraryNext]_libraryVars

(***************************************************************************)
(* Properties.                                                             *)
(***************************************************************************)
\* Whatever was not deleted is found under the id it was recorded with: what it names
\* now is there, and holds its sound or its words.  With crashes and errors too, as long as
\* the policy took no sound unheard.
IdFindsSound ==
    "unheard" \notin flaws =>
        \A p \in Parts \ removed :
            LET m == resolve(p) IN
            m \in row /\ p \in ToSet(folder[m].audio) \union ToSet(folder[m].transcript)

\* Any transcript will do for the policy, which never asks whose words it has: it takes
\* sound unheard, but only once a crash, an error or an outdated transcript came before.
StripsHeard == "unheard" \in flaws => flaws # {"unheard"}

\* No recording is in a file twice: a merge that failed is undone before it is tried again.
HeardOnce ==
    \A p \in row : Resting /\ "cut" \notin flaws => IsInjective(folder[p].audio)

\* Both, with rows, files, jobs and aliases of their types.
LibraryInv == LibraryTypeOK /\ IdFindsSound /\ HeardOnce

\* Sound that is not transcribed is never the policy's to take.
SweepsWhatIsHeard == "unheard" \notin flaws

\* A merge is never tried again on top of what it had appended.
NeverAppendedTwice == \A p \in row : IsInjective(folder[p].audio)

\* A finished transcript is of all that the file holds.
TranscriptIsWhole ==
    \A p \in row :
        Resting /\ flaws = {} /\ ~Queued(p) /\ job[p].assemble = "done" /\ folder[p].audio # <<>>
            => folder[p].transcript = folder[p].audio

\* The same, whatever was merged into what: nothing that was said goes unheard.
AllIsTranscribed ==
    \A p \in row :
        Resting /\ "cut" \notin flaws /\ ~Queued(p) /\ job[p].assemble = "done"
                /\ folder[p].audio # <<>>
            => folder[p].transcript = folder[p].audio

\* A merge, done or undone, leaves what is not transcribed waiting to be, unless it ended
\* in one of the ways Flaws names.
MergeLeavesWork ==
    \A p \in row \ removed :
        Resting /\ flaws = {} /\ folder[p].transcript # folder[p].audio /\ folder[p].audio # <<>>
            => Queued(p)
=============================================================================
