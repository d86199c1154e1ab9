-------------------------------- MODULE Models --------------------------------
(***************************************************************************)
(* The speech models' download (app/asr/model_manager.py): a manager per   *)
(* model, a set that starts one after the other, and what Cancel, a        *)
(* dropped connection, a full drive, the end of the process and a build    *)
(* that pins another revision make of the files.                           *)
(*                                                                         *)
(* A file is the sequence of its blocks, each the revision it was fetched  *)
(* at; no blocks, no file.  One process: the installer's `--prepare` and   *)
(* the app are taken to run one after the other.                           *)
(***************************************************************************)
EXTENDS Integers, Sequences, SequencesExt, FiniteSetsExt

CONSTANTS
    Roles,     \* in the order they are fetched
    Files,     \* of each model, in the order of the hub's listing
    Hashed,    \* those the hub lists a SHA-256 for
    MODEL_FILES, \* those a model cannot be without
    Size,      \* [revision -> [file -> its blocks]]
    SPARE,     \* what stays free on the drive, in blocks
    Histories  \* what may happen: one is chosen at the start

Troubles == {"cancel", "drop", "short", "again", "fill", "crash", "build"}

ASSUME FilesAssumption ==
    Files \in Seq(ToSet(Files)) /\ Hashed \cup MODEL_FILES \subseteq ToSet(Files)
ASSUME RevisionsAreNumbered == DOMAIN Size \subseteq Nat \ {0} /\ DOMAIN Size # {}
ASSUME SparesRoom == SPARE \in Nat
ASSUME HistoriesAssumption ==
    Histories \subseteq [room : Nat, others : Nat, quota : [Troubles -> Nat]]

VARIABLES
    pinned,  \* the revision this build loads
    whole,   \* what each file is made of
    part,    \* the same of its .part
    marker,  \* the revision .upshot-verified tells of, 0 without one
    set,     \* ModelSet: where its thread is, what it has to fetch, how it ended
    mgr,     \* ModelManager: the same for each role
    history  \* the history chosen, and what of it is to come

modelsVars == <<pinned, whole, part, marker, set, mgr, history>>

Role == ToSet(Roles)
File == ToSet(Files)
Revisions == DOMAIN Size

ModelsTypeOK ==
    /\ pinned \in Revisions
    /\ {whole, part} \subseteq [Role -> [File -> Seq(Revisions)]]
    /\ marker \in [Role -> Revisions \union {0}]
    /\ set.at \in {"rest", "space", "look", "begin", "wait"} /\ set.cancel \in BOOLEAN
    /\ set.pending \subseteq Role /\ set.outcome \in {"none", "failed", "cancelled"}
    /\ mgr \in [Role -> [at : {"rest", "list", "next", "fetch", "verify", "mark"},
                         todo : Seq(File),
                         cancel : BOOLEAN,
                         state : {"missing", "downloading", "ready", "failed", "cancelled"}]]

NoSet == [at |-> "rest", pending |-> {}, cancel |-> FALSE, outcome |-> "none"]
NoManager == [at |-> "rest", todo |-> <<>>, cancel |-> FALSE, state |-> "missing"]

ModelsInit ==
    /\ history \in Histories /\ pinned = Min(Revisions)
    /\ whole = [r \in Role |-> [f \in File |-> <<>>]] /\ part = whole
    /\ marker = [r \in Role |-> 0]
    /\ set = NoSet /\ mgr = [r \in Role |-> NoManager]

Uses(e) == history.quota[e] > 0 /\ history' = [history EXCEPT !.quota[e] = @ - 1]

Disk == <<whole, part, marker>>

(***************************************************************************)
(* Files.                                                                  *)
(***************************************************************************)
ListedSize(f) == Size[pinned][f]

\* is_verified: the marker tells of the revision pinned, and the files are there.
is_verified(r) == marker[r] = pinned /\ \A f \in MODEL_FILES : whole[r][f] # <<>>

_pending == {r \in Role : ~ is_verified(r)}

\* Of some roles or files, the one the loop over all of them comes to first.
FirstOf(all, some) == all[Min({n \in DOMAIN all : all[n] \in some})]

HasWhole(r, f) == Len(whole[r][f]) = ListedSize(f)

\* As listed: the size, and the SHA-256 where one is listed.
Matches(r, f) == HasWhole(r, f) /\ (f \in Hashed => ToSet(whole[r][f]) = {pinned})

Blocks(rs, count) == MapThenSumSet(LAMBDA r : MapThenSumSet(LAMBDA f : count[r][f], File), rs)

\* Of the drive's room, what neither the models nor anything else has taken.
free_bytes ==
    LET taken == [r \in Role |-> [f \in File |-> Len(whole[r][f]) + Len(part[r][f])]]
    IN  history.room - history.others - Blocks(Role, taken)

\* What is in a .part is not counted as there.
Needed(rs) ==
    LET total == [r \in Role |-> [f \in File |-> ListedSize(f)]]
        present == [r \in Role |-> [f \in File |-> Len(whole[r][f])]]
        missing(r) == Max({0, Blocks({r}, total) - Blocks({r}, present)})
    IN  MapThenSumSet(missing, rs) + SPARE

(***************************************************************************)
(* ModelSet.                                                               *)
(***************************************************************************)
\* start: a second call while its thread runs joins it.
DownloadPressed ==
    /\ set.at = "rest" /\ _pending # {}
    /\ set' = [NoSet EXCEPT !.at = "space"]
    /\ UNCHANGED <<pinned, Disk, mgr, history>>

\* cancel: of the set, and of every manager, at work or not.
CancelPressed ==
    /\ Uses("cancel")
    /\ set' = [set EXCEPT !.cancel = TRUE]
    /\ mgr' = [r \in Role |-> [mgr[r] EXCEPT !.cancel = TRUE]]
    /\ UNCHANGED <<pinned, Disk>>

SetEnds(outcome) == set' = [set EXCEPT !.at = "rest", !.pending = {}, !.outcome = outcome]

\* _check_space, of everything pending, or the hub cannot be asked for its listing.
ChecksSpace ==
    /\ set.at = "space"
    /\ \/ Uses("drop") /\ SetEnds("failed")
       \/ /\ IF free_bytes < Needed(_pending) THEN SetEnds("failed")
             ELSE set' = [set EXCEPT !.at = "look", !.pending = _pending]
          /\ UNCHANGED history
    /\ UNCHANGED <<pinned, Disk, mgr>>

LooksAtCancel ==
    /\ set.at = "look"
    /\ IF set.pending = {} THEN SetEnds(set.outcome)
       ELSE IF set.cancel THEN SetEnds("cancelled")
       ELSE set' = [set EXCEPT !.at = "begin"]
    /\ UNCHANGED <<pinned, Disk, mgr, history>>

\* ModelManager.start, which forgets a Cancel of before.
BeginsModel ==
    /\ set.at = "begin"
    /\ LET r == FirstOf(Roles, set.pending) IN
       IF mgr[r].at = "rest" /\ ~ is_verified(r)
       THEN mgr' = [mgr EXCEPT ![r] = [NoManager EXCEPT !.at = "list", !.state = "downloading"]]
       ELSE UNCHANGED mgr
    /\ set' = [set EXCEPT !.at = "wait"]
    /\ UNCHANGED <<pinned, Disk, history>>

\* The manager's thread has ended: the next model, or that was it.
GoesOn ==
    /\ set.at = "wait"
    /\ LET r == FirstOf(Roles, set.pending) IN
       /\ mgr[r].at = "rest"
       /\ IF mgr[r].state = "cancelled" \/ set.cancel THEN SetEnds("cancelled")
          ELSE IF ~ is_verified(r) THEN SetEnds("failed")
          ELSE set' = [set EXCEPT !.at = "look", !.pending = @ \ {r}]
    /\ UNCHANGED <<pinned, Disk, mgr, history>>

SetStep == ChecksSpace \/ LooksAtCancel \/ BeginsModel \/ GoesOn

(***************************************************************************)
(* ModelManager._run, and its downloader.                                  *)
(***************************************************************************)
Stops(r, state) == mgr' = [mgr EXCEPT ![r].at = "rest", ![r].todo = <<>>, ![r].state = state]
Goes(r, at) == mgr' = [mgr EXCEPT ![r].at = at]
Leaves(r) == mgr' = [mgr EXCEPT ![r].at = "next", ![r].todo = Tail(@)]

InHand(r) == Head(mgr[r].todo)

\* The listing and the space, then the parts: one longer than its file can only be wrong.
Lists(r) ==
    /\ mgr[r].at = "list"
    /\ \/ Uses("drop") /\ Stops(r, "failed") /\ UNCHANGED part
       \/ /\ free_bytes < Needed({r})
          /\ Stops(r, "failed") /\ UNCHANGED <<part, history>>
       \/ /\ free_bytes >= Needed({r})
          /\ part' = [part EXCEPT ![r] = [f \in File |->
                        IF ~HasWhole(r, f) /\ Len(@[f]) > ListedSize(f) THEN <<>> ELSE @[f]]]
          /\ mgr' = [mgr EXCEPT ![r].at = "next", ![r].todo = Files]
          /\ UNCHANGED history
    /\ UNCHANGED <<pinned, whole, marker, set>>

\* A file that is there at its size is passed over; after the last they are verified.  A
\* server that ignores the range sends the file from its start.
NextFile(r) ==
    /\ mgr[r].at = "next"
    /\ IF mgr[r].todo = <<>> THEN Goes(r, "verify") /\ UNCHANGED <<part, history>>
       ELSE IF HasWhole(r, InHand(r)) THEN Leaves(r) /\ UNCHANGED <<part, history>>
       ELSE /\ Goes(r, "fetch")
            /\ \/ UNCHANGED <<part, history>>
               \/ /\ Len(part[r][InHand(r)]) \in 1 .. ListedSize(InHand(r)) - 1 /\ Uses("again")
                  /\ part' = [part EXCEPT ![r][InHand(r)] = <<>>]
    /\ UNCHANGED <<pinned, whole, marker, set>>

\* A block is written, if the drive takes it; then a Cancel is seen, and the part stays.
Fetches(r) ==
    /\ mgr[r].at = "fetch" /\ Len(part[r][InHand(r)]) < ListedSize(InHand(r))
    /\ IF free_bytes <= 0 THEN Stops(r, "failed") /\ UNCHANGED part
       ELSE /\ part' = [part EXCEPT ![r][InHand(r)] = Append(@, pinned)]
            /\ IF mgr[r].cancel THEN Stops(r, "cancelled") ELSE UNCHANGED mgr
    /\ UNCHANGED <<pinned, whole, marker, set, history>>

Drops(r) ==
    /\ mgr[r].at = "fetch" /\ Len(part[r][InHand(r)]) < ListedSize(InHand(r))
    /\ Uses("drop") /\ Stops(r, "failed")
    /\ UNCHANGED <<pinned, Disk, set>>

\* The answer ends, whole or too early: either way the part takes the file's name.
Lands(r) ==
    /\ mgr[r].at = "fetch" /\ part[r][InHand(r)] # <<>>
    /\ LET f == InHand(r) IN
       /\ IF Len(part[r][f]) = ListedSize(f) THEN UNCHANGED history ELSE Uses("short")
       /\ whole' = [whole EXCEPT ![r][f] = part[r][f]]
       /\ part' = [part EXCEPT ![r][f] = <<>>]
    /\ Leaves(r)
    /\ UNCHANGED <<pinned, marker, set>>

\* Mutant: a file of the right size is taken for the one listed.
VerifiesSizes(r) ==
    /\ mgr[r].at = "verify"
    /\ LET wrong == {f \in File : ~HasWhole(r, f)} IN
       IF wrong = {} THEN Goes(r, "mark") /\ UNCHANGED whole
       ELSE Stops(r, "failed") /\ whole' = [whole EXCEPT ![r][FirstOf(Files, wrong)] = <<>>]
    /\ UNCHANGED <<pinned, part, marker, set, history>>

\* Mutant: a file that does not match is left there.
VerifiesOnly(r) ==
    /\ mgr[r].at = "verify"
    /\ IF \A f \in File : Matches(r, f) THEN Goes(r, "mark") ELSE Stops(r, "failed")
    /\ UNCHANGED <<pinned, Disk, set, history>>

\* _verify: the first file that does not match is removed.
Verifies(r) ==
    /\ mgr[r].at = "verify"
    /\ LET wrong == {f \in File : ~Matches(r, f)} IN
       IF wrong = {} THEN Goes(r, "mark") /\ UNCHANGED whole
       ELSE Stops(r, "failed") /\ whole' = [whole EXCEPT ![r][FirstOf(Files, wrong)] = <<>>]
    /\ UNCHANGED <<pinned, part, marker, set, history>>

Marks(r) ==
    /\ mgr[r].at = "mark"
    /\ marker' = [marker EXCEPT ![r] = pinned]
    /\ Stops(r, "ready")
    /\ UNCHANGED <<pinned, whole, part, set, history>>

ManagerStep(r) == Lists(r) \/ NextFile(r) \/ Fetches(r) \/ Lands(r) \/ Verifies(r) \/ Marks(r)

(***************************************************************************)
(* The process ends, and another begins: of this build, or another.  The   *)
(* drive fills with other things, and is cleared.                          *)
(***************************************************************************)
Restarts ==
    /\ \/ Uses("crash") /\ UNCHANGED pinned
       \/ Uses("build") /\ pinned' \in Revisions \ {pinned}
    /\ set' = NoSet /\ mgr' = [r \in Role |-> NoManager]
    /\ UNCHANGED Disk

Fills ==
    /\ history.others = 0 /\ history.quota["fill"] > 0
    /\ history' = [history EXCEPT !.quota["fill"] = @ - 1, !.others = history.room]
    /\ UNCHANGED <<pinned, Disk, set, mgr>>

IsCleared ==
    /\ history.others > 0 /\ history' = [history EXCEPT !.others = 0]
    /\ UNCHANGED <<pinned, Disk, set, mgr>>

ModelsNext ==
    \/ Fills \/ IsCleared
    \/ DownloadPressed \/ CancelPressed \/ SetStep \/ Restarts
    \/ \E r \in Role : ManagerStep(r) \/ Drops(r)

ModelsSpec == ModelsInit /\ [][ModelsNext]_modelsVars

\* The threads go on, a full drive is cleared, and someone who wants the models presses
\* Download until they are there.
ModelsFairSpec ==
    /\ ModelsSpec
    /\ WF_modelsVars(IsCleared) /\ WF_modelsVars(SetStep) /\ WF_modelsVars(DownloadPressed)
    /\ \A r \in Role : WF_modelsVars(ManagerStep(r))

(***************************************************************************)
(* Properties.                                                             *)
(***************************************************************************)
\* A model transcription may load is whole and of the revision this build pins, whatever
\* was left by a stopped download, a dropped connection or an older build.  (A file the
\* hub lists no SHA-256 for is told by its size alone.)
ReadyIsWhole == \A r \in Role : is_verified(r) => \A f \in File : Matches(r, f)

\* That, in a state of the declared types.
ModelsInv == ModelsTypeOK /\ ReadyIsWhole

\* No leftover on disk keeps the models from arriving: pressed again, the download ends
\* with all of them, resumed or begun anew.
ModelsArrive == <>[](\A r \in Role : is_verified(r))

StillToFetch ==
    Blocks(_pending, [r \in Role |-> [f \in File |->
        IF HasWhole(r, f) THEN 0 ELSE ListedSize(f) - Len(part[r][f])]])

\* model_manager.py: the check "covers everything still to fetch, plus the spare": a drive
\* with room for it is not refused.
FitsIsNotRefused ==
    [][ChecksSpace /\ set'.outcome = "failed" /\ history' = history
          => free_bytes < StillToFetch + SPARE]_modelsVars

\* A set that was cancelled starts no further model.
CancelIsKept ==
    [][\A r \in Role : mgr[r].at = "rest" /\ mgr'[r].at = "list" => ~set.cancel]_modelsVars
===============================================================================
