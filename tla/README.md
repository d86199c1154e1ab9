# A verification development of Upshot

Upshot records meetings on the user's computer, transcribes and summarises them,
and delivers the notes; it also transcribes single files for other programs. This
directory holds TLA+ modules translated from the source under `src/app/`, TLC
configurations that check them on small instances, and proofs that TLAPS checks for
every value of the constants. `PROJECT.json` lists the runs, the mutants each property
was tried against, the source lines of every definition, and the hazards of the code.

    tlc -config Pipeline_disturbed.cfg MCPipeline.tla     # one run
    tlapm FileProofs.tla                                  # one module of proofs

## 1. The system

One Python process. Its threads: the **worker** (one, a loop), the **HTTP handlers**
(a pool; FastAPI runs `def` handlers beside each other), the **detector** and the
**recorder** with the audio callbacks, calendar sync, and the tray or launcher that
starts and stops the rest. State that outlives the process is an SQLite table (one
statement is atomic and committed) or a folder per meeting. Everything else, the
requests to stop or delete among it, is in memory and dies with the process.

| component | its state | its operations | what must hold |
|---|---|---|---|
| meeting states (`pipeline/states.py`) | - | `is_legal`, `next_stage` | every way back a stop needs is legal |
| job queue (`pipeline/queue.py`) | `jobs` table; `_rerun`, `_deleting`, `_stopping` in memory | `enqueue`, `claim`, `complete`, `release`, `fail`, `defer`, `retry`, `request_stop`, `stopped`, `request_delete`, `reset_running`, `withdraw`, `restore` | a row that says "running" is somebody's; requests do not outlive their run; what waits is run |
| worker (`pipeline/worker.py`) | the job in hand | `run_once`, `_execute` and its handlers, `finish_delete`, `_execute_file`, `maybe_sweep` | each run ends its row in exactly one way; each stage leads to the next; nothing stays half-way |
| stages (`pipeline/stages/`) | files in the meeting's folder | five `run`s, `checkpoint`, `stop_if_asked` | a state that promises a file has it |
| meeting handlers (`api/routes.py`) | - | retry, stop, delete, keep, settings, edits | correct at whatever moment of a run they come |
| meeting service (`meetings.py`) | `meetings` table, folders, `DELETING_MARKER` | `start`, `finish`, `discard`, `purge`, `recover_orphans`, `finish_interrupted_deletes` | a recording is never lost, a deletion always finishes |
| file jobs (`transcription/store.py`, `api.py`, `engine.py`) | `transcriptions` table, folders, `_stopping` | `create`, `claim`, `complete`, `fail`, `release`, `cancel`, `retry`, `delete`, `purge_finished` | rows and folders agree; a delete is never forgotten |
| scheduler (`transcription/scheduler.py`) | - | `next_head`, `claim_next_any`, `position`, `ordered` | first in, first out over both queues |
| detector (`detect/detector.py`) | idle, awake, recording, post-roll; what it follows | `tick`, `keep`, `end_now`, hand-over, rejoin | one recording at a time, none cut short, left running or run on |
| recorder (`audio/recorder.py`) | armed, committed, paused, holding; ring and queues | `arm`, `commit`, `split`, `hold`, `stop`, `discard`, the writer thread | what is heard in a call, and only that, is in its file |
| writer (`audio/writer.py`) | a WAV per track, one manifest | `write_pcm`, chunk by chunk; `recover`; carrying on | every file plays after any crash; both tracks share one timeline |
| merge, re-recording (`merge.py`, `meetings.py`) | aliases, `merge_into` | `merge` and its undo, `withdraw`, `restore`, `merge_pending` | no sound lost or doubled, no id that leads nowhere, nothing left untranscribed |
| retention (`retention.py`) | - | `plan`, `sweep` | never the only copy, never a meeting with work queued |
| start and shutdown (`main.py`, `tray.py`, `server.py`) | - | `lifespan`, `start_background` | recovery before work |
| calendar (`gcal/`) | accounts, tokens, what is due, what is stopped | sign-in, removal, the sync's thread, invitations | nothing kept of who was removed; every error is taken up again |
| updates (`updates/`) | partial files, `ready.json`, `installing.json` | check, download, install, the start after | what is ready was verified; an update arrives, and is not tried for ever |
| speech models (`asr/model_manager.py`) | files, `.part` files, a marker per model; a set and a manager each | download, cancel, resume, verify; a build with other revisions | what counts as ready is whole; a download can always be finished |
| sign-in of a CLI (`llm/signin.py`, `llm/cli_status.py`, `setup/apiBackend.ts`) | the login process, `_LOGINS`, the status held; the card and its polls | sign in, join or replace, cancel, code, sign out, poll | no login orphaned, no sign-out forgotten, no sign-in failed that worked |
| the rest | events, power, database, LLM and ASR clients, assistant, diagnostics, front end | | leaves of the calls above |

How they interact: a handler or the detector ends a recording (`meetings.finish`), which
enqueues `transcribe`; the worker takes the oldest runnable job, moves the meeting's
state, runs the stage and enqueues the next one. A handler never touches a running
stage: it leaves a request in memory that the stage looks for at its checkpoints
(`stop_if_asked`), and the end of the run honours or clears it. A starting recording
preempts the worker at the same checkpoints. The start of the process makes every
running row pending again and finishes deletions recorded by a marker on disk.

The detector looks once a second under a lock of its own, which `keep` and `end_now` of a
notification take too; the page's and the tray's start, stop and pause do not, and the
recorder has no lock for its life cycle. All of them move the same recorder and the same
rows. A finished recording may be joined to an earlier one of the same calendar event, at
once or when the worker has transcribed it. The calendar's thread and its handlers share
the tokens and wait for Google without a lock. The updates' thread downloads while nothing
records, and another starts Setup in a quiet moment and ends the process. The page polls
what the handlers did: its card of a CLI is a state machine of its own, over rows made of
a status read first and a process looked at after.

What is hard to get right, and to test: **interleavings** of the handlers with the steps
of a run's end (`except`, `finally`, `complete`, state, next job are five commits);
**crashes** between any two of them, and between the writes of one chunk of sound; **requests in memory** that meet another run than
the one they were made in; **folders that will not go** (Windows, an open file);
**liveness** through preemption, deferral and back-off. Section 7 lists what came out.
`PROJECT.json` has every hazard at its line.

## 2. The modules

| module | models | extends |
|---|---|---|
| `MeetingStates` | `pipeline/states.py`: the states, the stages and the legal transitions as the code builds them | `Integers`, `Sequences` |
| `JobQueue` | the job queue: each method an action over the variables it touches | `MeetingStates` |
| `Pipeline` | worker, stages, handlers, start and crash over the queue, with the properties | `JobQueue` |
| `MCPipeline` | instances and budgets for TLC | `Pipeline` |
| `JobQueueProofs` | lemmas about the queue's operations | `JobQueue` |
| `PipelineProofs` | types, running rows, transcripts, nobody stranded, the three properties of stops | `Pipeline`, `JobQueueProofs` |
| `FileLife` | abstract: the life of a file job as a client sees it | - |
| `FileJobs` | the store, the worker's run of a file job, handlers, sweep, crash | `FileLife` (by `INSTANCE`) |
| `MCFileJobs` | instances and budgets | `FileJobs` |
| `Scheduler` | both queues before one worker: what is claimed next, positions, the list | `JobQueue` |
| `MCScheduler` | instances | `Scheduler` |
| `SchedulerProofs` | of `Scheduler`: types, the first file, the top of the list, no pushing in; of `SignIn`: types, no login lost, nothing held from before a sign-out. One module for two parts that share nothing | `Scheduler`, `SignIn`, `JobQueueProofs` |
| `Recorder` | the recorder's methods over what its ring, its queues and the files hold | `Naturals` |
| `Recording` | detector, handlers, tray, start and crash over the recorder and the meetings | `Recorder` |
| `Writer` | the files of one recording, write by write | - |
| `Library` | merges, the worker, deletions, the retention policy and crashes over finished recordings | - |
| `Calendar` | accounts, sign-ins, tokens, the sync's thread, invitations | - |
| `Updates` | check, download, safe moment, Setup, the start after | - |
| `Models` | the speech models' files, their set and its managers | - |
| `SignIn` | setup's card, the handlers of a CLI's sign-in, its process, the status held | - |
| `FileProofs` | of `FileJobs`: types, three invariants, `FileJobs` implements `FileLife`; of `Writer`: headers, what was promised, the timeline. One module for the two that keep files, which share nothing else | `FileJobs`, `Writer` |
| `LibraryProofs` | no sound doubled or lost, whole transcripts, work left | `Library` |
| `SetupProofs` | of `Calendar`: types, nothing kept of who is gone, the status of a sign-in; of `Models`: types, what is ready is whole. One module for two things that share nothing but setup | `Calendar`, `Models` |
| `UpdatesProofs` | types, what is ready is verified, tries end, never an older version | `Updates` |
| `RecordingProofs` | types, what is marked recording is what is written, calls kept, files that end with their call, a microphone closed | `Recording` |
| `MCRecording`, `MCWriter`, `MCLibrary`, `MCCalendar`, `MCUpdates`, `MCModels`, `MCSignIn` | scenarios for TLC | the module of the name |

### Pipeline and the code

`pc` is the place of the worker between two things another thread can come in between:

| `pc` | next action | code |
|---|---|---|
| `starting` | `Sweep` of each marked folder, then `StartBackground` | `recover_orphans`, `finish_interrupted_deletes`, `worker.start` |
| `sweeping`, `swept` | `SweepFiles`, `SweepFolder`; `SweepRow` | `purge`: `remove_tree`, `dao.delete_meeting` |
| `idle` | `Peek` | `run_once`: `should_yield`, `peek` |
| `peeked` | `Claim` | `claim`, guarded by `state='pending'` |
| `claimed` | `Begin` | `get_meeting`, `take_rerun` |
| `marking` | `MarkRunning` | `_mark_running` |
| `stage` | `StageReturns`, `StageCancelled`, `StagePreempted`, `StageDefers`, `StageRaises` | `stage.run(ctx)` and the look at `deleting` after it |
| `handle` | `HandleCancelled`, `HandlePutBack`, `HandleFailure` | the `except` clauses |
| `failing` | `FailMeeting` | the rest of `_on_failure` |
| `finally` | `Finally` | `clear_stop`, the look of `finish_delete` |
| `removing`, `emptied` | `RemoveFiles`, `RemoveFolder`; `RemoveRow` | `finish_delete`: `purge`, as above |
| `success` | `Complete` | `_on_success`: `complete` |
| `settle` | `SetDone` | the state after the stage |
| `next` | `EnqueueNext` | `enqueue_next_stage` |

`jobs[m][s]` is the row of a meeting and stage (there is at most one: a unique index);
`state[m]` the meeting's column, `"GONE"` when the row is deleted; `output[m]` the stages
whose files are in its folder; `marker` the folders with a deletion marker. The three
sets of `JobQueue` are `rerun`, `deleting`, `stopping`. A delete request is the steps of
the handler: `DeleteRequest`, `DeleteCheck`, and the removal. A removal (`purge`) is made by
the handler, the worker or the start, and takes the folder before the row: some of its files
(`FilesGo`; `removed` has the meetings that lost some), the rest of them with the marker
(`FolderGoes`), the row and its jobs (`RowGoes`), or it is refused a file (`FolderStays`). A retry, a stop and a
keep are one step each: between their statements only the worker could come in, and their
first write decides the outcome. So are the two looks of a cancelled run at `deleting` and
`stopping` (`worker.py:275`): a request between them is answered like one after both.

Both launchers are modelled. The tray's server answers before the worker starts
(`ServerLast = FALSE`); `python -m app.main` starts the worker first, and the server's
`lifespan` then calls `reset_running` a second time (`ServerLast = TRUE`, `Lifespan`).

Abstracted: what stages compute (an outcome, chosen freely), the texts of errors, times
(`due` says whether `not_before` has passed; `TimePasses` makes it so), priorities (all
rows have the default, so the order is the order of ids), the policy that lets the worker
run (`yield`). A settings change in a run is left out: `HasProvider` is constant.

### FileJobs and the code

`row[f]` is the table (with `"new"` before and `"gone"` after), `folder` and `result` the
disk, `stopping` is `_stopping`, `uploads` the requests between the move of an upload and
its row. What holds the store's lock is one step (`Claim`, `Cancel`, `Retry`, `Delete`,
`Sweep`); the end of a run holds none and is several: `HandleCancelled` looks at the
request, `MarkCancelled` writes the row, `PopRequest` drops the request, `FinishDelete`
and `Complete` follow. `Sweep` may come at any time: the worker sweeps when it is idle,
`POST /api/retention/sweep` whenever it is called. `purge` is two steps whoever calls it, the
folder and the row: `RemoveFolder` and `RemoveRow` of a handler or the sweep, which hold the
lock meanwhile (`purging`, `Unlocked`), `FinishDelete` and `FinishRow` of the worker, which
holds none. A removal that is refused may have taken the result (`FolderStays`); `removed`
has the files whose removal was begun.

`FileLife` is what a client of `/api/v1/transcriptions` may rely on, over two variables:
the state of each job and the request made of it. Under
`life = [f |-> row[f].state]`, `asked = stopping` every step of `FileJobs` is one of its
steps or a stutter (`LifeSpec`; checked in `files_disturbed`, proved in
`FilesLiveTheirLives`).

### Scheduler and the code

The rows of `JobQueue` get their `queued_at` (`key[m][s]`), a file is its state, `due` and
key, and `now` is the clock that keys are taken from; several things may happen in one
millisecond, so ties occur. `MeetingIsNext` and `FileIsNext` are `next_head`: the
meetings' head by id, the files' head by key, and between the two the earlier key.
`ClaimMeeting` and `ClaimFile` are `claim_next_any`; `position` and `listed` are what
`position` and `ordered` (as `active_jobs` numbers it) tell the user. `ordered` is a merge
of two lists; the model says which items come before a file in it (`FileListedBefore`),
and needs no recursion. The worker keeps `fifo`, the key its claim returned, because that
is what `enqueue_next_stage` passes on, whatever a retry has made of the row meanwhile.

A run ends as it likes: the requests that make it stop are in `Pipeline` and `FileJobs`,
and nothing in the order depends on them. A deletion takes rows out of the queue for good
and is covered by a stop or cancel that is never retried. A refused merge puts withdrawn
jobs back at their old place (`restore`); it is not in this model.

### Recording and the code

`recorder` is the object's fields as far as they decide something: `armed`, `committed`,
`paused`, `holding`, `streams`, `pump` (the writer thread exists), `writer` and `meeting`
(whose file, which row), and what `queue` and `ring` hold. `disk[m]` is what is in a
meeting's file. Sound has four kinds: `"call"`, `"after"` a hang-up, `"private"` in a
pause, `"scrap"` of a queue nobody empties. `det` is the detector's state, what it follows,
and which apps it has seen; `detection` the setting; `mic` the apps that hold the microphone.
`thrown`, `stranded`, `kept` and `unheard` remember what the properties are not about.

`thread[t]` is the place of a handler, the detector or the start of the process between
two calls on shared objects: `"commit"` (the row exists, the recorder is not told),
`"stop"`, `"clear"` (`recorder.stop` has closed the writer, `committed` is not yet
cleared), `"finish"` (`meetings.finish`), and so on. A look of the detector (`Tick`) is one step
up to the first of these calls; `locked` is its lock. `Case` lists the looks in the code's
order: adopt what was started by hand, forget what was ended, then one of `_tick_idle`,
`_tick_awake`, `_tick_recording`. Whether a call is worth recording, which meeting it is,
whether a grace, a silence or the longest length is over, is a free choice.

Circumstances are budgets too: without `overlap` a thread begins only when the others are
at rest, without `hasty` a press comes after the detector's next look, without `half`
both tracks have a device.

### Writer and the code

A unit of sound is numbered by the time it was heard, and belongs at that place in
its file; 0 is silence. `closing` is the chunk being closed, between its three synced
writes: samples (`WritesData`), header (`WritesHeader`), manifest line (`WritesLine`). A
crash may also tear the last line (`Torn`). `Crashes` includes `recover`; `Continues` is a
`ChunkWriter` made over what is on disk, which cuts the file to the manifest's end.
`drifts` remembers what the code does not put back in time: a hold, a crash, a tail cut
off, a gap at the very end.

### Library and the code

A file is the sequence of the recordings whose sound it holds, a transcript the sequence
of those it was made from: so doubled, lost and stale are all visible. `doing[t]` is
where a merge (`MergeStep`: second withdrawal, append, join, alias, redo, remove, or the
undo), a stage (`StageStep`) or a sweep is. A merge fails where the code undoes it, and where
it does not (`MergeFails`): the snapshot that cannot be read, the undo, the mirror of the row.
`flaws` remembers what went wrong before: a merge cut by a crash, jobs a failed one dropped, a
merge begun with a transcript out of date, a strip of what nobody had heard. A merge comes from the page, from the end of a
recording or the choice of its event (`Assigned`), or from the worker (`MergesPending`).
A thread begins while another is at something only with the quota `overlap`.

### Calendar and the code

Each answer of Google is a step: `thread` is where the sync (`TickBegins`, `TakesAccount`,
`Asks`, `TokenAnswered`, `FetchAnswered`) and the page's removal or invitation are, `signin[i]` where each
sign-in is, from the listener to the code, the address, the row and the token. `issued`
and `accepted` are Google's side: a token is a number, the newer one larger. `due`,
`stopped` and `todo` are the sync's state per account, `behind` the accounts that are to
catch up.

### Updates and the code

`part[v]` and `final[v]` are the set of builds a file on disk is made of; it is the one
the manifest tells of when it is made of that build alone. `ready` is `ready.json`,
`marker` is `installing.json`. `check` goes `fetch`, `replace`, `verify`, `record`, `tidy` (or
`forget`, when nothing is offered); `doing[i]` is where the tick, the page, the quitting
tray and the start are: `write` is before the marker, `spawn` between it and Setup, a backup
of the database long, `stuck` after a marker that could not be written. `history` holds the releases to come, the setting and what may go wrong. The last byte
of a download (`Fills`) and its renaming (`Replaces`, `ReplaceRefused`) are two steps, and
`whole[v]` says that the part has every byte. The marker is written (`Writes`), or not, or cut
short (`WriteFails`, `Dies`), which loses its count; `tries` counts what was started by itself,
`counted` the same since a marker was last cut short. A refused file that Windows will not let
go is not modelled.

### Models and the code

A file is the sequence of its blocks, each tagged with the revision it was fetched at, so
a file continued from another revision's `.part` is visible as mixed. `set.at` is the
place of the set's thread in `_run` (`space`, `look`, `begin`, `wait`), `mgr[r].at` that of
a model's manager (`list`, `next`, `fetch`, `verify`, `mark`). `history` has the room of
the drive, what others took of it, and how often each trouble comes. `Restarts` is a
crash, or a build with another revision. `FirstOf` is where a loop over the models or the
files comes to first. The installer's `--prepare` and the app are
taken to run one after the other; a file without a listed SHA-256 is told by its size.

### SignIn and the code

`presses[n]` is the place of one `POST /llm/signin`: `lock` before `_LOGINS_LOCK`, `stop` and
`start` under it, `wait` in `wait_for_url`. Cancel, Sign out and the code do not take
that lock. `asks` are the statuses in flight: asked, said by the CLI, and told, once the
row has `console_open` too; `valid` and `late` are what `CliStatusCache.get` compares when
it keeps one. A login may outlive its stop (`StopsLogin`, `outlived`): the handlers have let go
of it, and it runs on. Up to `POLLS` polls are out at once, because `setInterval` waits for none. `card.timer` is the poll of that name, `timers` all it ever made: an answer
may come to one that was replaced. One provider without a window is modelled; ten minutes
do not pass.

## 3. The runs

Bounds. Meetings and files: the worker runs one job at a time and no handler touches two
meetings, so one meeting shows every interleaving of a run with requests about it; two
are used where the question is which of them is served (`unattended`) and for files, whose
claim depends on who else runs. `MAX_ATTEMPTS = 2` has a failure that is tried again and
one that is final (1 with two meetings, `unattended`: TLC has checked one meeting with 2, no
error; the code's value is larger and only counts longer). Outside events that could repeat for ever have a `Budget`: each kind
once per run, which is enough for every race of one request with one run, and of two
different requests. Every other action is unbounded. `order` has three instants, which is enough for every order and
every tie of a file with a meeting before and one after it, one disturbance of any kind,
and no provider, so that a meeting has two stages: the later ones are enqueued the same
way.

The runs of the second half have **scenarios**: functions from the outside events to how
often each may happen, one chosen at the start. What interferes is together in one
scenario, what does not is apart. Two meetings and two call apps show every hand-over
and rejoin (`recording`; the symmetric ones are identified). Four units of
time and a ring of one have a chunk, a gap, a stop and a second writer in one file
(`writer`). Three recordings have a merge into what was merged before (`library`). Two
accounts and two sign-ins show one beside another, and three tokens a reconnection after a
revocation (`calendar`). Three versions, two builds and a quiet time of two ticks have
an offer that changes at every step (`updates`). Two models of three files and two
revisions, one file of the same size in both, have every kind of leftover under every
kind of file (`models`). Two presses have a login replaced, and two polls out at once have
their answers in every order (`signin`).

| run | question | answer |
|---|---|---|
| `disturbed` | everything but a retry, crashes within a removal too, `app.main`'s order: types, running rows, transcripts, stops | holds |
| `presses` | retry, stop, deferral and deletion in every order: are running rows held, is a meeting stranded, a redo request left, a stop settled? | holds |
| `unattended` | two meetings, recording, deferral, stop, fair: does every meeting come to rest, is each waiting job taken? | holds |
| `files_disturbed` | retry, recording, a crash anywhere, fair: running rows, `FileLife`, results of what is done, nothing left of the removed, and does each file job end? | holds |
| `order` | two meetings, two files, one disturbance: is the file at position 1, or at the top of the list, the next; does anyone push in? | holds |
| `recording` | five scenarios of calls, presses, missing devices and races: is what is marked recording what is written, is a call kept, does its file end with it, is the microphone closed, is nothing transcribed half-written? | holds |
| `library` | merges with full disks, unreadable files, held folders, retries, deletions, sweeps and crashes: does every id lead to its sound, is none doubled, nothing stripped unheard where nothing went wrong before, is a transcript of all, does what is left untranscribed wait? | holds |
| `writer` | lost devices, holds, stops, carrying on and crashes at any write: does every file play, is what was promised there, is sound at its time? | holds |
| `calendar` | outages, refusals, revocations, removals and reconnections, fair: is a removed account forgotten, does the status tell of a sign-in being finished, does each account catch up? | holds |
| `updates` | rebuilt, held back, critical and withdrawn versions, dropped downloads, parts and markers that cannot be written, failed Setups, crashes, fair: is what is ready verified, does an update arrive, is none older or tried for ever? | holds |
| `models` | cancels, dropped and short downloads, full drives, a crash, a new build, fair: is what is ready whole, do the models arrive? | holds |
| `signin` | logins that end, are refused, late, replaced, cancelled, signed out, outlive their stop, two polls at once, fair: is one orphaned, a sign-out forgotten, does the card wait for a login that is gone? | holds |

Three more configurations find no error and are kept beside the runs, because the other
properties of the runs are not about folders that will not go: `Pipeline_refused.cfg`
(`TranscribedHasTranscript`, where a removal may take some files and be refused, beside a
stop and a crash), `FileJobs_held.cfg` (`DoneHasResult`, `GoneLeavesNothing`, with a retry and
a crash) and `FileJobs_ends.cfg` (`GoneLeavesNothing`, `WaitingEnds`). The rest are those of section 7, each
with the error told there.

What the answers are conditional on is in the properties: `OneIsRecorded` (a part of
`RecordingInv`) and `CallIsKept` are about events one after the other (`InTurn`: threads
that do not overlap, and no press before the detector has looked at an end, `hasty`), `EndsAtHangUp` about
threads that do not overlap: without that they fail, section 7. `OneIsRecorded` is not about a
row the tray made and then found no device to record (`stranded`), and `EndsAtHangUp` not about
a meeting the user kept going (`kept`) or one that nothing took sound for (`unheard`).
`MicrophoneClosed` is not about a machine with a device for one track only.

`TranscribedHasTranscript` and `DoneHasResult` are not about a meeting or file a removal has
begun to take (`removed`): the code takes the folder before the row, section 7. `HeardOnce` is
not about a merge cut by a crash or an undo that failed; `TranscriptIsWhole` and
`MergeLeavesWork` are not about those, nor about jobs a failed merge dropped, nor merges with a
transcript already out of date (`flaws`); `IdFindsSound` is about the time before the policy stripped
what nobody had heard (`unheard`), and `StripsHeard` says that it strips none where no merge
went wrong before; `WriterInv` and `TimelineKeptThroughGaps` except what `drifts` names.
`library` has sweeps and merges one after the other, and a worker beside a deletion.
`UpdateArrives` excepts a whole part that was not renamed and a marker that could not be written, `TriesEnd`
counts since a marker was last cut short; `NeverOlder` is checked with a beta left in peace and
with crashes and presses while versions only grow. `models` never goes back to an older
build. In `signin`, `NoOrphan` excepts a login that outlived its stop, and `SignedOutIsHeld` is
about a sign-out whose command comes back.

`CHECK_DEADLOCK FALSE` throughout: with every meeting or file done and the budget spent
the system rightly stops.

**Fairness** (`FairSpec`). The worker is a loop that never blocks (`run_forever` catches
everything), and a stage ends: weak fairness of `WorkerStep`. A handler once called
returns, and the start of the process gets to its end: weak fairness of `DeleteCheck`,
`DeleteFolder`, `DeleteRow`, `Starting`, `Lifespan`, of `RemoveRow` for files. Recordings end and time passes.
`Finish` is fair because a recording does end, by the detector or at the next start.
The sweep comes round every few hours: strong fairness of `Sweep`, as it may be enabled
only now and then. `CalendarFairSpec`: the sync's thread catches what it does not know and goes
on, requests time out, clocks go on; nobody has to press anything. `UpdatesFairSpec`: the
install's loop catches everything, the check catches what a request or a manifest can do
to it (a refused file held open is left out, section 7), Setup ends, the app is started
again by the next logon, calls and recordings end. `ModelsFairSpec`: the threads go on, a
full drive is cleared, and somebody presses Download until the models are there.
`SignInFairSpec`: timers tick, statuses are answered, handlers go on, a login that printed
its link or was approved gets to its end. Other presses, crashes, recordings and
deferrals need not happen, and none of the liveness results needs them.

Each module of the second half has one invariant that joins its types to what its states
promise: `RecordingInv` (`OneIsRecorded`, `WholeIsTranscribed`), `WriterInv` (`HeaderPlays`),
`LibraryInv` (`IdFindsSound`, `HeardOnce`), `CalendarInv` (`RemovedHasNoToken`,
`HiddenIsForgotten`, `FinishingIsShown`), `UpdatesInv` (`ReadyIsVerified`, `TriesEnd`),
`ModelsInv` (`ReadyIsWhole`) and `SignInInv` (`NoOrphan`, `SignedOutIsHeld`).

**Mutants.** For each property of a passing run a plausible bug of a definition is
written next to it (`\* Mutant:`), and TLC finds the property violated with it.

## 4. What is proved

For every set of meetings or files, every `MAX_ATTEMPTS`, every budget and every set of
histories or mishaps:

| theorem | says | assumes |
|---|---|---|
| `TypeCorrect` | `Spec => []TypeOK` | the `ASSUME`s |
| `RunningHeld` | a running row is the job in the worker's hand | `~PurgeFails` |
| `TranscribedMeansTranscript` | TRANSCRIBED has its transcript, unless a removal took files of it | - |
| `NobodyIsStranded` | a meeting part-way has a job that says so (`NotStranded`) | `~PurgeFails`, no crash |
| `StopTakesBack` | a stopped transcription takes its meeting back to any settled state (`StopReturnsSettled`) | `~PurgeFails`, at most one press |
| `StopsEndWithTheirRun` | no claim takes a transcription whose stop still stands (`StopEndsWithItsRun`) | `~PurgeFails`, no retry |
| `StopsForgetReruns` | a stopped transcription leaves no request to redo a stage (`NoRerunAfterStop`) | a provider, at most one retry |
| `FileTypeCorrect`, `RemovedWhole`, `DoneIsServed` | for files: types, no folder after removal, done has a result unless a removal of it was begun | - |
| `FileRunningHeld` | a running row is the worker's | `Budget["held"] = 0` |
| `FilesLiveTheirLives` | `FileJobs` implements `FileLife` | `Budget["held"] = 0` |
| `SchedulerTypeCorrect`, `FirstFileRunsNext` | types; the due file at position 1 is the one `next_head` gives | finitely many meetings and files |
| `ListTellsTheNext` | with nothing held back, a file is at the top of the list exactly if `next_head` gives it | the same |
| `NoPushingIn` | nothing gets ahead of a waiting file | the same |
| `HeadersPlay` | `WriterSpec => []WriterInv`: a header tells of no samples its file has not | any tracks, ring, time, mishaps |
| `SyncedIsKept` | what a synced manifest line told of stays in the file (`PromiseKept`) | the same |
| `HeardIsInPlace` | what is in a file is at the place of its time (`TimelineKeptThroughGaps`) | the same |
| `NoPartTwice` | no sound is in a file twice (`HeardOnce`) | merges are alone |
| `WholeTranscripts`, `WorkIsLeft` | a transcript is of all its file (`TranscriptIsWhole`); what has none waits for one (`MergeLeavesWork`) | merges are alone |
| `OneAfterTheOther` | merges are alone | no quota lets threads `overlap` |
| `OneByOneNothingIsLost` | `LibraryInv`: every id leads to its sound, while nothing unheard was stripped, and none is doubled | no `overlap` |
| `NothingIsKeptOfTheGone` | `CalendarSpec => []CalendarInv` | no quota lets handlers `overlap` |
| `ModelsTypeCorrect` | types | - |
| `ReadyModelsAreWhole` | a model that counts as ready is whole, of the revision pinned (`ModelsInv`) | no build goes back to an earlier revision |
| `OneBuildIsWhole` | the same | one change of the build at most |
| `UpdatesTypeCorrect`, `ReadyAlwaysVerified` | types; what counts as ready is what its manifest told of | - |
| `TriesDoEnd` | `UpdatesSpec => []UpdatesInv`: no version is installed by itself more than `MAX_ATTEMPTS` times since a marker was cut short | offers go forward |
| `NeverInstallsOlder` | Setup is never an older version's (`NeverOlder`) | offers go forward, or nobody presses and nothing crashes |
| `RecordingTypes`, `OneIsBeingRecorded` | types; between two calls what is marked RECORDING is what the recorder writes, and nothing half-written is transcribed (`RecordingInv`) | - |
| `NoCallIsLost` | a recording with enough of a call is not discarded (`CallIsKept`) | - |
| `FilesEndWithTheirCalls` | what was heard after a hang-up is in no file but of a meeting kept going (`EndsAtHangUp`) | - |
| `MicrophoneIsReleased` | the streams are open for a recording or a wake only (`MicrophoneClosed`) | - |
| `SignInTypeCorrect`, `NoLoginIsLost` | types; a login that runs is the registry's, in a handler's hand, or outlived its stop (`NoOrphan`) | - |
| `SignedOutIsTold` | `SignInSpec => []SignInInv`: nothing from before a sign-out is held after it | a command hangs only where nobody presses |

### What the assumptions exclude

Each is needed but where it says otherwise, and what it excludes is in section 7.

- `~PurgeFails` and `Budget["held"] = 0`: with a folder that will not go,
  `FileJobs_leftover.cfg` and a refused purge of a meeting have running rows that nobody holds.
  What a removal leaves of files and transcripts is proved without them.
- `Budget["crash"] = 0` in `NobodyIsStranded`: a process that dies between `complete` and
  `enqueue_next_stage` leaves a meeting nothing looks for.
- At most one press in `StopTakesBack`: `transcription_stop` finds the row of a run that
  put itself back waiting, and moves the meeting itself; a second press in that moment does
  so under the run, which then finds it where it did not leave it.
- No retry in `StopsEndWithTheirRun`: `Pipeline_stop_outlives.cfg` shows what one does.
- At most one retry in `StopsForgetReruns`: a second one pressed during the stop leaves its own
  redo request, and rightly so, which the property does not tell apart. A provider: section 7 has
  what happens without.
- `~PurgeFails` in `StopTakesBack` and `StopsEndWithTheirRun` is there because they rest on `HeldInv`; TLC finds
  no violation without it in the runs they belong to.
- Merges are alone (`MergesAlone`): nothing is under way when one begins, and nothing begins
  before it ends. A merge takes no lock: beside a worker between `complete` and
  `enqueue_next_stage` it breaks `TranscriptIsWhole`, two at once `HeardOnce` and
  `IdFindsSound`, a deletion or a purge in its middle `IdFindsSound`. It is no assumption
  on the worker beside deletions, retries and sweeps, which may overlap as they like.
  Where handlers come one after the other it holds by itself (`OneAfterTheOther`).
- No `overlap` in `OneByOneNothingIsLost` gives two things: merges are alone, and nobody merges
  into a folder marked for deletion, which would take with it what is merged into it (`Calm` in
  `LibraryProofs`: without overlaps no marked folder keeps its row). That what the policy
  strips is transcribed as a whole is not assumed, because the code does not see to it.
- No `overlap` in `Calendar`: a handler begins when the other handlers are at rest, which is
  how a user presses one button after the other; the sync's thread is beside them all the
  same (`beside`). Two sign-ins that finish together, or a removal beside a sign-in of the
  same account, break each of the three parts.
- "Offers go forward" (`GoesForward`): no release that comes later offers a copy, whichever version
  it has by then, an older version than one that came before. The marker remembers one version only, so a
  version that is withdrawn and offered again is counted anew. Where a channel is turned
  off and offers do go back, `NeverInstallsOlder` still holds unless a press or a crash
  comes in between (`LeavingAtOnce`).
- `[][pinned <= pinned']` of `Models`: the marker tells of a revision, not of the files, so a
  build that goes back finds the marker it left beside files of the newer one (`GoneBack`).
- `h["hangs"] = 0 \/ h["press"] = 0` in `SignIn`: a sign-out whose command does its work and
  never comes back, beside a sign-in, leaves "signed in" held (`Hung`).

### The arguments

**Pipeline, FileJobs.** `RunningIsHeld` is not inductive in `Pipeline`: a meeting that has gone
must have no rows, or a cascade could not be told from a row forgotten, and the job in
hand must agree with its row where the run is between claim and end. `HeldInv` adds both,
and each action keeps it because it either leaves the running row alone or is the step
that ends it. `TranscriptInv` adds what the other states promise of the folder and what
`before` remembers, since a stop restores a state read earlier; both are of meetings no
removal has taken files of, and a meeting leaves that set only when its transcript is written anew.

`NotStranded` needs, for every state of a meeting, which row is the one that goes on
(`Explained`), and, while the run in hand has ended and its row is not yet done or the next
one not yet there, that what it ends leads on (`LeadsOn`): the row it will make is the one the
state asks for, or the user's redo request will make one, or another row is live. `RunStands`
says what a run may rely on so far: its row is there and, until it settles, live. Every action
but the worker's own keeps live rows live (`KeepsRows`), so one lemma serves all meetings the
run is not about. `StopReturnsSettled` needs that nothing but the run has moved its meeting
since `before` was read, as long as a press is to come or asks for it (`Unmoved`); the table
of legal ways (`LegalWaysBack`) does the rest. `StopEndsWithItsRun` needs that a
meeting whose processing has begun is never RECORDING or DISCARDED (`Begun`), so that `finish` and
`keep` make no new row for it, and that a press stands only for the run in hand or for a
transcription nobody will claim (`Spent`). `NoRerunAfterStop` has two halves (`Redone`). Before
the retry a meeting that is not transcribed has no other row and no other stage in hand
(`FirstTime`); so a retry of a stopped meeting begins at a stage after it, and from then on
what is asked comes at or after a row that waits, runs or failed, or after the stage that
has just ended, whose own request its run has taken (`LeadsFrom`, `Taken`).

For files, `FileInv` says
at which places of the worker which row runs, that a request marked "cancelled" was made,
that the row left running at `finally` is one being deleted or one that returned, and
that a new or removed file has no request pending, and that what stands between a removal's
two steps has no folder left and a row that may go (`Removable`), or has gone (the worker
holds no lock and may take it in between), or is that of the run that was to be deleted; a
result about to be written as done is there, or a removal has taken it (`removed`). The refinement then needs, beyond
`FileInv`, only that one row changes at a time (`RowOnly`).

**Scheduler.** `NoPushingIn` needs
`KeysInv`: no key is of the future, the file in hand runs, and the row of the job in hand
has at least the key it was claimed with. The last is what makes it inductive: a retry may
move that row back in the queue while the stage runs, and the row may then wait again, or
hand its old place to the next stage, and neither may be a gain. A meeting counts as ahead
while its job is in hand (`HandAhead`), or the moment between `complete` and
`enqueue_next_stage` would let it leave the queue and come back. `ListTellsTheNext` rests on
`IdsInv`: no two rows share an id and the next one is nobody's. The list puts the file before
the first job *with a later key*, `next_head` compares it with the first job; the two agree
because the job of the least id is one only (`HeadExists`, `UniqueIds`), and that needs that no
`UPDATE` of the job in hand makes a row where there is none.

**Recording.** The properties say themselves what they are conditional on, so the invariant
(`RecordingIInv`) has three layers. Of any threads: where each may be (`Placed`), that what is
recorded has no job that could begin (`Unqueued`, from which `WholeIsTranscribed`), that one thread
holds the detector's lock and what it ends is what the detector follows (`Locked`), and
that open streams without a recording are the detector's, awake or about to use or close them
(`Open`). Of threads that do not overlap (`InHand`): what the one that is not at rest knows of the
recorder (`Handed`), and that sound from after a hang-up waits for nobody but the file of a
recording that goes on (`Fed`). Of events one after the other: what is recorded is what
the detector follows, if it follows any (`InStep`), each thread knows which meeting it has in
hand and how long that is (`Knows`), and every row marked RECORDING is recorded, or in a
hand that begins, ends or repairs it, or the tray left it (`InSomeHand`). None of the
properties is inductive by itself, because `Quiet` hides just the moments between two calls that
make them true. TLC finds `RecordingIInv` true in every scenario of `recording`.

**Writer.** Three invariants, one on the other. `FilesInv`: once a track's file is open it is
exactly as long as the track counts, and before that no shorter than the manifest
describes; so an opening, which cuts the file to the manifest's end, never cuts below the
header, unless a tail was cut (`drifts`). `PromiseInv`: what a synced line told of lies in
the part of the file the manifest describes, which no opening cuts. `TimeInv` is an
account of time: for each track what is written, the gap still to be written as silence,
what waits and what was missed make up `now`; and what waits is numbered on from there
(`Timely`). A chunk being closed is on both sides of that sum, and a torn line, a hold or a
gap at the end is what breaks it.

**Library.** Four invariants. `Threads`: who is at a merge has two recordings that are there, and
is alone. `Once`: the sound of a file is of ids that lead to it, and inside a merge to one of
the two; so what is appended is apart from what was there. `Work`: what is not transcribed
has a job (`Kept`), a merge counts those it withdrew as well (one that fails where nothing is undone adds to `flaws`), and what the worker has in hand was
read from the file as it is (`InHand`); a merge may count on that because it begins only when
neither recording has a stage running. `FoundInv`, which holds until something unheard is stripped (`FoundUnlessUnheard`: no step takes `"unheard"` out of
`flaws`, and the strip that puts it in is the only one that could break it): what leads to a recording is heard in it
(`Hears`), while it has sound in the sound, afterwards in the transcript. That is inductive
only with what is to come: the transcript being made (`FoundInHand`), the undo's snapshot, the
alias not yet written (`FoundAtMerge`), and that whatever a deletion, a purge or a marker is
about to take stands for nothing that was not deleted (`Doomed`). Each step has one lemma per
invariant. `Sole` and `Calm` are the argument for handlers one after the other: at most one
thread is not at rest, only the worker's stage runs, nothing is marked.

**Calendar.** `HandlerInv` says where the one handler between two steps stands: the page
removes an account only after its token is dropped, and reads for one that is shown; a
sign-in remembers a token only for a row it has brought back. Nothing the sync's thread
does writes a token of an account that has none, because what it writes back is
`access`, not `secret`.

**Models.** `SoundInv`: no marker tells of a revision after the one pinned; the files match
from the end of `_verify` to the marker, and as long as the marker tells of the revision
pinned, because a download writes to a file only when it is not there at its size
(`fetch`), and `_verify` removes one only when it does not match.

**Updates.** `ReadyInv`: the check never fetches or refuses the version that is ready, and the
start that forgets it runs before any check. `ForwardInv` orders what was offered along its
way (installed, tried, being installed, ready, being fetched), and `TriesInv` counts a try from the
moment the marker is written (`Begun`), not from Setup's end: a crash in the backup between the two
is a try too. A marker that is cut short takes its count along, and `counted` begins again. `UndisturbedInv` is the other argument for `NeverOlder`: what is ready is
newer than the copy, or the start is about to forget it.

**SignIn.** `LoginInv`: the press that replaces a login holds the lock from its look until the
new one runs, and the registry is empty as long (`LockHeld`); so a login that is not the
registry's is in a hand. `AnswersTrue`: an answer that would still be kept and says signed
in was said while that was so, or the second `forget` of the sign-out is still to come
(`SaidSo`). A login that outlives its stop
leaves every hand at once, which is why `NoOrphan` excepts it (`outlived`).

### What is not proved

Liveness (`ProcessingEnds`, `WaitingIsServed`, `WaitingEnds`, `CatchesUp`, `UpdateArrives`,
`ModelsArrive`, `WaitsForALogin`) is out of the prover's reach and stays with TLC, as do
`StripsHeard` and what the runs above say of particular scenarios. Every other property a run checks is
stated by a theorem, under the assumptions above.

## 5. The plan

Done in this order: `MeetingStates`, `JobQueue`, `Pipeline`, `PipelineProofs`; `FileLife`,
`FileJobs`, `FileProofs`; `Scheduler`, `SchedulerProofs`; `Recorder`, `Recording`;
`Library`; `Writer`; `Calendar`; `Updates`; `Models`; `SignIn`; the second half of
`SchedulerProofs`, `UpdatesProofs`, `SetupProofs`, the second half of `FileProofs`, `LibraryProofs`,
`RecordingProofs`. To come, the most important first:

1. Matching of calendar events to recordings (`gcal/match.py`) against a reference
   definition; `adopt_legacy`.
2. Reminders (`due.py`, `notify.py`): each once, over a restart.

## 6. Not modelled, and why

Numerical work and remote services (speech recognition itself, language models): a stage's
outcome stands for them. A CLI's sign-in in a window and its install are processes the
user watches. Events to the browser are lost by design and nothing is decided
by them. Migrations run once, in order. Diagnostics, consent, assistant tools and, apart
from setup's card, the front end only read or issue requests the models allow at any time. Edits of texts and
settings write one row each. Scores of the detector's evidence, levels, resampling and
echo are numbers the models replace by a free choice. The single-instance lock and the
windows are the operating system's. The texts of manifests and their signatures: a
manifest in `Updates` is one that was accepted. Everything listed in the plan is not
modelled yet.

## 7. Where the code and its words disagree

TLC finds each of the following with the configuration or scenario named (a scenario
replaces the one of the module's `.cfg`):

| with | property | what happens |
|---|---|---|
| `Recording_pump.cfg` | `AudioGoesToDisk` | "audio goes to disk continuously as chunk files" (`recorder.py:4`): `_commit` and `_begin` (`detector.py:674`, `1002`) call `recorder.commit` but never `recorder.start_thread`, which only the page's Start (`routes.py:452`) and the tray's (`tray.py:170`) call. In a recording the detector began before either was pressed nothing takes what the streams queue: the queue drops what it cannot hold, and the file gets what `stop` drains |
| `Models_tight.cfg` | `FitsIsNotRefused` | what "covers everything still to fetch" (`model_manager.py:465`) does not count a `.part`: a stopped download that fits is refused (`_check_space`, `model_manager.py:601`) |
| `OneCancel` of `MCModels` | `CancelIsKept` | a Cancel between the set's look and the manager's start (`model_manager.py:576`) is cleared by the start (`:289`), and that model is fetched |
| `GoneBack` of `MCModels` | `ModelsInv` | a build that goes back to a revision it had: its marker is still there, and files of the newer one beside it |
| `JustOne` of `MCSignIn` | `FailedHasFailed`, `WorkedIsSeen` | "'Ends' is read twice in a row" (`apiBackend.ts:288`), "never over a sign-in that worked" (`:265`): `setInterval` (`:447`) waits for no poll, and with a status slower than `POLL_MS` two polls read one moment, and a sign-in that works is failed; a late row also says signed out over one that said in, and nothing polls any more |
| `AtOnce` of `MCSignIn` | `FailedHasFailed` | Cancel and Sign in at once: the press before is answered "stopped", and the card fails the sign-in that followed |
| `CodeUnheard` of `MCSignIn` | `FailedHasFailed` | "never over a sign-in that worked" (`apiBackend.ts:265`): the login is approved and ends while its code is tried, the code is refused, and the one status asked then does not come (`row?.signed_in !== true`): the card fails what worked |
| `Hung` of `MCSignIn` | `SignInInv` | a sign-out whose command does its work and does not come back (`routes.py:2821`) leaves what was asked meanwhile held: signed in |
| `Updates_paused.cfg` | `InstallsBetweenRecordings` | "Install now: any moment without a recording" (`install.py:16`) asks `is_active`, which is false while a recording is paused (`recorder.py:265`): Setup starts and the recording is cut there |
| `PartIsHeld` of `MCUpdates` | `UpdateComes` | "resuming a partial file" (`service.py:8`): a part that has every byte and was not renamed, because a process died or the file was held (`service.py:200`), is asked for what comes after its last (`:240`). A server answers 416, `raise_for_status` makes it a failed download that keeps the part, and so does every later check; `model_manager.py:240` looks for this case |
| `MarkerFails` of `MCUpdates` | `UpdateComes` | "A mandatory update [...] installs at the first safe moment" (`install.py:14`): an `OSError` of `_write_marker` (`install.py:204`) leaves `_installing` set, nothing clears it, and nothing is installed until the app is started again |
| `MarkerIsTorn` of `MCUpdates` | `TriesEndForGood` | "A version whose install failed this many times is no longer installed by itself" (`install.py:48`): a crash within `write_text` (`install.py:283`) leaves a marker that cannot be read, which counts as none, and the tries begin again |
| `LeavingAtOnce` of `MCUpdates` | `NeverOlder` | "leaving beta later never downgrades them" (`service.py:138`): a beta's Setup starts while the check makes an older stable version ready; pressed or retried before the start after has forgotten it, it is installed over the beta |
| `LateFloor` of `MCUpdates` | `UpdateArrives` | a version that is ready when it becomes mandatory keeps `mandatory: false` in `ready.json`, and waits for the user (`service.py:179`) |
| `Library_twice.cfg` | `AllIsTranscribed` | a recording not transcribed is merged into one that is, and before the whole is transcribed a transcribed one is merged too: `both_transcribed` (`merge.py:229`) sees the old transcript, the waiting transcription is withdrawn, and the middle one stays unheard |
| `StripTwice`, `StripDie` of `MCLibrary` | `SweepsWhatIsHeard` | "a meeting that has not been transcribed keeps its audio however old it is" (`retention.py:20`): `plan` looks for a transcript (`retention.py:229`), not for one of all the sound. The unheard middle recording of `AllIsTranscribed`, or what a merge that died had appended, is removed unheard |
| `SweepMeanwhile` of `MCLibrary` | `SweepsWhatIsHeard` | the same: a merge between `plan` and `sweep` (`retention.py:185`), and audio appended since goes with what was to go |
| `MergeAndDie` of `MCLibrary` | `NeverAppendedTwice` | "a merge that fails partway is undone by cutting back to this, never retried on top of what it had appended" (`merge.py:122`): after a crash between append and removal the same merge, pressed again, appends again |
| `PauseAndKeep` of `MCRecording` | `PauseIsPrivate` | paused, hung up, and kept: `release_hold` writes what the ring heard in the pause; "Pause actually stops writing to disk" (`recorder.py:269`) |
| `NotAMeeting` of `MCRecording` | `ThrownIsNotTranscribed` | "Not a meeting" on the page (`routes.py:710`) discards the row and leaves the job of a recording that had ended |
| `StopAndStart` of `MCRecording` | `EndsWhatItFollows` | stopped and started again within one second: the detector still follows the first and ends the second with it (`detector.py:410`) |
| `OneHold` of `MCWriter` | `TimelineKept` | a hold does not flush what is pending: the silence of a rejoin is written before it, and what follows is early by as much |
| `Calendar_rejected.cfg` | `EveryShownSyncs` | "each with its own failures" (`sync.py:25`): a rejected client stops every account, and a sign-in that shows it is accepted again takes up only its own |
| `OneDelete` of `MCPipeline`, with `PurgeFails` | `MarkerStays` | "A file still held (Windows): the marker stays, and the next start finishes it" (`worker.py:424`): `rmtree` takes what it can before it raises, the marker in the folder among it (`meetings.py:53`), and no start knows of the deletion |
| `DeleteAndCrash` of `MCPipeline` | `TranscriptExists` | "`transcript.md` exists" (`states.py:17`): a process that dies between the removal of the folder, its marker in it, and of the row (`meetings.py:660`) leaves a TRANSCRIBED meeting with nothing, which no start finishes deleting |
| `Pipeline_stop_returns.cfg` | `StopReturnsMeeting` | a re-transcription stopped while the meeting's summary was going on cannot go back to SUMMARIZING |
| `Pipeline_files_held.cfg` | `FilesHeldByStage` | delete looks for a running stage, one starts, and its folder goes under it |
| `Pipeline_waiting_run.cfg` | `WaitingIsRun` | a retry of the stage that runs is marked done by the end of the first run |
| `Pipeline_stop_outlives.cfg` | `StopEndsWithItsRun` | a stop pressed between `clear_stop` and `complete` cancels the next transcription |
| `FileJobs_leftover.cfg` | `LeftoverGoes` | the deletion "the sweep retries later" leaves a row no sweep looks at |
| `Scheduler_summary.cfg` | `SummaryBeforeLaterFile` | a meeting's next stage has a new id, so a meeting queued later hides it and a file in between runs first |

The models have these behaviours as well, or the code was read to have them while they
were written; no configuration is kept for them.

The pipeline:

- a crash between `complete` and `enqueue_next_stage` (`worker.py:469`) leaves the meeting
  with nothing to do and no start that looks for it;
- with no provider a transcription that a crash cut after its files were written, then stopped, then
  assembled again keeps the requests for the stages after that, which are not queued
  (`worker.py:465`), until a retry or the end of the process (`NoRerunAfterStop`);
- the cancel of a file's run that failed (`store.py:284`) stays, and cancels the retry;
- the position in the list and the one on the file's page (`active.py:32`) differ while a
  next stage waits behind a later meeting: the list follows `next_head`, `position` the keys;
- a delete of a meeting pressed between `finish_delete` and `complete` (`worker.py:299`)
  finds a running row and leaves the files to a worker that has looked already; the same
  for a file (`worker.py:395`), whose row ends done;
- a purge refused to the handler (`routes.py:1398`) forgets the request without a marker,
  and a stage that stopped for it leaves its row running;
- `mark_cancelled` (`store.py:340`) forgets a delete made after the worker's look at the
  request;
- `app.main` starts the worker before the server, whose `lifespan` makes the row of the
  job in hand pending (`main.py:116`): `request_stop`, `withdraw` and `delete_meeting`
  then do not see that it runs;
- a crash between the move of an upload into its folder and its row (`api.py:395`) leaves
  a folder that `clean_incoming` does not look at;
- the removal of a file takes its folder before its row (`store.py:389`): in between, and for
  good after a crash there, the row says done and its result is not to be had (`api.py:596`).

Recordings:

- the recorder has no lock for its life cycle: a second stop returns a length of 0, and
  `finish` discards what it takes for too short; two starts, or a start and the detector's,
  leave the loser's row RECORDING; `discard` looks at `committed` and clears after
  (`recorder.py:173`); pause looks at the recording and sets a flag later (`routes.py:724`);
- `arm` that fails on the second track leaves the first one's microphone open;
- `_reopen` that raises ends the writer thread (`recorder.py:345`);
- detection switched off in a grace leaves the recorder holding;
- the tray's Start without a device, or while recording, leaves a row RECORDING until the
  next start (`stranded`);
- between the end of the writer thread and the rest of a stop the detector still sees a
  recording: what the streams queue there after a hang-up no thread takes, and the
  detector's own stop drains it into the file;
- a recording joined to one the user kept going takes what that one heard after its hang-up with
  it.

Files: a torn manifest line glues the next record to itself; `_continue_from_disk` cuts a
tail that `recover` keeps; tracks that end apart get the same gap; a gap at the very end
is not written.

Merges: one pressed twice, or between a stage's `complete` and `enqueue_next_stage`, or
with a retry in its middle, races with itself; a crash after `withdraw` leaves
jobs cancelled, and so does a snapshot that cannot be read, which is made after both withdrawals and outside the
`try` (`merge.py:227`); an undo that fails (`merge.py:249`) leaves what was appended (the jobs are put back);
a mirror that fails (`merge.py:256`) comes after the alias and before the redo, so the whole is not
transcribed; a delete refused because a folder is held has dropped the waiting jobs
(`routes.py:1373`); a delete that comes when a stage has looked for the last time leaves a
marked folder, and what is merged into it is deleted with it at the next stage or start; a merge
beside another, or with a deletion in its middle, loses what one of them had just joined.

Calendar:

- while the wide window is due an unreachable server ignores the back-off and is asked
  every five seconds (`sync.py:53`);
- a refusal of the token endpoint for too many requests stops an account until it is
  reconnected, and the status says connected;
- an answer no code foresees leaves the tick, and later accounts are not asked;
- a kick while the tick's refused request is in flight is overwritten (`sync.py:176`);
- `invalid_grant` for an old token deletes the new one (`oauth.py:292`);
- a removal beside a sign-in of the same account leaves a token (`oauth.py:448`, `673`);
- two sign-ins that finish together end the status "connecting" early (`oauth.py:597`), and
  the expiry of one may cancel a newer one (`oauth.py:589`);
- an invitation in flight is remembered after the account was forgotten (`invite.py:316`).

Updates:

- a recording may begin between the look at the moment and Setup's start, a backup later;
- after a crash between the removal of the marker and of `ready.json` the same version is
  installed once more;
- a newer version installed by hand leaves an older one ready until the first check a
  minute later: a quit before that installs it;
- the marker of a failed install stays, and each later start reports it again; it counts
  by version, so a version built again is not tried after two failures of the first build;
- a quiet time goes on counting while automatic installs are switched off;
- the check's thread has no handler: a refused file that Windows will not let go ends it
  until the next start (`service.py:214`), and so does a `ready.json` that cannot be written
  (`service.py:361`).

Speech models: Download pressed while a cancelled set's thread still ends joins it and is
lost (`model_manager.py:539`); a file without a SHA-256 that has the same size in an older
revision stays.

Sign-in of a CLI: a Cancel or Sign out that comes while a login is being started finds no
process, and the login goes on (`routes.py:2801`, `2869`); a Cancel that is late stops the
login of the next press; the follow-up of a failed sign-in whose answer comes after a new
press ends that one's watch (`apiBackend.ts:358`); a login that has not ended in the five seconds
`kill_tree` gives it has left the registry already (`signin.py:231`): it runs on, may hold the
port of its callback, and may sign in after a sign-out.
