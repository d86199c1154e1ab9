------------------------------ MODULE Updates ------------------------------
(***************************************************************************)
(* How a new version of the app comes to run: the check finds an offer and *)
(* keeps its installer ready (app/updates/service.py), the installer waits *)
(* for a safe moment, starts Setup and lets the app quit, and the next     *)
(* start reads what became of it (app/updates/install.py).                 *)
(*                                                                         *)
(* A version is a number.  Its installer may be built again: an edition is *)
(* what a file must be made of to have the manifest's size, SHA-256 and    *)
(* signer; no two editions are of one size.  The calls, jobs and meetings  *)
(* a moment must be free of are one flag.  The app ends with the step that *)
(* starts Setup: what its threads still do in the second until it has gone *)
(* could have come before.                                                 *)
(***************************************************************************)
EXTENDS Naturals, Sequences, FiniteSetsExt

CONSTANTS
    Versions,     \* numbers; the smallest is the one installed first
    Editions,     \* the builds a version may have
    None,         \* no version
    MAX_ATTEMPTS, \* 2 in install.py
    Quiet,        \* safe ticks an automatic install waits for: 10 in install.py
    Histories     \* what may happen: one is chosen at the start

ASSUME VersionsAreNumbered ==
    /\ Versions \subseteq Nat /\ None \notin Versions /\ None \notin Editions
    /\ \E latest \in Versions : \A v \in Versions : v <= latest
ASSUME AttemptsAssumption == MAX_ATTEMPTS \in Nat /\ Quiet \in Nat

VARIABLES
    current,     \* the version installed
    alive,       \* the app runs
    published,   \* how many of the releases are out
    part,        \* what each version's partial file is made of
    whole,       \* the edition a partial file has the size of, if any
    final,       \* what each version's installer is made of
    ready,       \* ready.json
    marker,      \* installing.json
    check,       \* where the check is, and its offer
    doing,       \* where each thread that may install is
    quiet,       \* for how many ticks the moment has been safe
    setup,       \* the version Setup is installing
    recording,   \* "off", "on" or "paused"
    calm,        \* no call, no job, no meeting soon
    history,     \* the history chosen, and what of it is to come
    tries,       \* how often Setup was started for each version without being asked
    counted      \* the same, since a marker was last cut short

updatesVars == <<current, alive, published, part, whole, final, ready, marker, check, doing,
                 quiet, setup, recording, calm, history, tries, counted>>

\* held: Windows does not let the part be renamed.  unwritten: nor the marker be written.
Troubles == {"crash", "drop", "refuse", "held", "unwritten", "record", "disturb", "quit",
             "press"}

\* fits: the rollout has reached this copy.  floor: the oldest version still supported.
Manifest == [version : Versions, edition : Editions, fits : BOOLEAN, critical : BOOLEAN,
             floor : Nat]

\* What there is to fetch at a time is what one release tells of; auto: the user's setting.
ASSUME HistoriesAssumption ==
    \A h \in Histories :
        /\ h \in [releases : Seq(SUBSET Manifest), quota : [Troubles -> Nat], auto : BOOLEAN]
        /\ h.releases # <<>>

Offers == [version : Versions, edition : Editions, mandatory : BOOLEAN]
NoReady == [version |-> None, edition |-> None, mandatory |-> FALSE]
NoMarker == [to |-> None, attempts |-> 0]
NoOffer == [version |-> None, edition |-> None, mandatory |-> FALSE]

Resting == [at |-> "rest", offer |-> NoOffer]
AtRest == [at |-> "rest", version |-> None]

Installers == {"tick", "page", "quit", "start"}

UpdatesTypeOK ==
    /\ current \in Versions /\ alive \in BOOLEAN
    /\ published \in 1 .. Len(history.releases)
    /\ part \in [Versions -> SUBSET Editions] /\ final \in [Versions -> SUBSET Editions]
    /\ whole \in [Versions -> Editions \union {None}]
    /\ ready = NoReady \/ ready \in Offers
    /\ marker = NoMarker \/ marker \in [to : Versions, attempts : Nat \ {0}]
    /\ check.at \in {"rest", "fetch", "replace", "verify", "record", "tidy", "forget"}
    /\ check.at # "rest" =>
          check.offer = NoOffer \/ check.offer \in Offers
    /\ doing \in [Installers -> [at : {"rest", "write", "spawn", "stuck", "unlink", "files"},
                                 version : Versions \union {None}]]
    /\ quiet \in 0 .. Quiet /\ setup \in Versions \union {None}
    /\ recording \in {"off", "on", "paused"} /\ calm \in BOOLEAN
    /\ tries \in [Versions -> Nat] /\ counted \in [Versions -> Nat]

\* Nothing is downloaded yet.
UpdatesInit ==
    /\ history \in Histories
    /\ current = Min(Versions) /\ alive = TRUE /\ published = 1
    /\ part = [v \in Versions |-> {}] /\ final = [v \in Versions |-> {}]
    /\ whole = [v \in Versions |-> None]
    /\ ready = NoReady /\ marker = NoMarker
    /\ check = Resting /\ doing = [i \in Installers |-> AtRest]
    /\ quiet = 0 /\ setup = None
    /\ recording = "off" /\ calm = TRUE
    /\ tries = [v \in Versions |-> 0] /\ counted = tries

Uses(e) == history.quota[e] > 0 /\ history' = [history EXCEPT !.quota[e] = @ - 1]

Files == <<part, whole, final>>
Counts == <<tries, counted>>
Moment == <<recording, calm>>
Outside == <<current, published, setup, Moment>>

\* start_background has read the marker: the threads run.
Started == alive /\ doing["start"].at = "rest"

\* Recorder.is_active
is_active == recording = "on"

(***************************************************************************)
(* The check (UpdateService).                                              *)
(***************************************************************************)
Manifests == history.releases[published]

\* The build the server has of version v: the last one published.
Served(v) ==
    LET out == {n \in 1 .. published : \E m \in history.releases[n] : m.version = v}
    IN  {m.edition : m \in {x \in history.releases[Max(out)] : x.version = v}}

Newest(ms) == CHOOSE m \in ms : \A other \in ms : other.version <= m.version

OfferOf(m, mandatory) == [version |-> m.version, edition |-> m.edition, mandatory |-> mandatory]

\* Mutant: an older version is as good as a newer one.
chooseAny(ms, installed) ==
    LET fitting == {m \in ms : m.fits /\ m.version # installed} IN
    IF fitting = {} THEN NoOffer ELSE OfferOf(Newest(fitting), Newest(fitting).critical)

\* The newest of what is newer than this copy; held back, the newest that is not.
choose(ms, installed) ==
    LET newer == {m \in ms : m.version > installed}
        best == Newest(newer)
        mandatory == best.critical \/ \E m \in ms : installed < m.floor
        older == {m \in newer \ {best} : m.fits} IN
    IF newer = {} THEN NoOffer
    ELSE IF mandatory \/ best.fits THEN OfferOf(best, mandatory)
    ELSE IF older = {} THEN NoOffer
    ELSE OfferOf(Newest(older), Newest(older).critical)

\* ready.json, and a file of the name it gives.
IsReady == ready # NoReady /\ final[ready.version] # {}

Checks(at, offer) == check' = [at |-> at, offer |-> offer]

\* check_now, from the thread or the page: one at a time.
ChecksNow ==
    /\ Started /\ check.at = "rest"
    /\ LET offer == choose(Manifests, current) IN
       IF offer = NoOffer
       THEN /\ ready' = NoReady
            /\ Checks("forget", NoOffer)
       ELSE /\ ~ (IsReady /\ ready.version = offer.version)
            /\ Checks(IF final[offer.version] = {} THEN "fetch" ELSE "verify", offer)
            /\ UNCHANGED ready
    /\ UNCHANGED <<alive, Files, marker, doing, quiet, Outside, history, Counts>>

\* What a file of the part's size would be fetched of: the bytes after its last, which
\* the server refuses (416).
NothingToFetch == whole[check.offer.version] = check.offer.edition

\* Bytes arrive, after those there are or from the start.
Arrives ==
    /\ check.at = "fetch" /\ ~is_active /\ ~NothingToFetch
    /\ LET v == check.offer.version IN
       /\ \E kept \in {part[v], {}} : part' = [part EXCEPT ![v] = kept \union Served(v)]
       /\ whole' = [whole EXCEPT ![v] = None]
    /\ UNCHANGED <<alive, final, ready, marker, check, doing, quiet, Outside, history, Counts>>

\* A recording pauses the download, a dropped connection fails it; the part is kept.
BreaksOff ==
    /\ check.at = "fetch"
    /\ IF is_active THEN UNCHANGED history ELSE Uses("drop")
    /\ check' = Resting
    /\ UNCHANGED <<alive, Files, ready, marker, doing, quiet, Outside, Counts>>

\* A part that is whole already: the request fails, and the part is kept.
FetchesNothing ==
    /\ check.at = "fetch" /\ NothingToFetch
    /\ check' = Resting
    /\ UNCHANGED <<alive, Files, ready, marker, doing, quiet, Outside, history, Counts>>

\* The last byte.  What ends at another size is refused.
Fills ==
    /\ check.at = "fetch" /\ ~NothingToFetch
    /\ LET v == check.offer.version IN
       \/ /\ check.offer.edition \in part[v]
          /\ whole' = [whole EXCEPT ![v] = check.offer.edition]
          /\ Checks("replace", check.offer) /\ UNCHANGED part
       \/ /\ part[v] \notin {{}, {check.offer.edition}}
          /\ part' = [part EXCEPT ![v] = {}] /\ whole' = [whole EXCEPT ![v] = None]
          /\ check' = Resting
    /\ UNCHANGED <<alive, final, ready, marker, doing, quiet, Outside, history, Counts>>

\* The part becomes the installer.
Replaces ==
    /\ check.at = "replace"
    /\ LET v == check.offer.version IN
       /\ final' = [final EXCEPT ![v] = part[v]]
       /\ part' = [part EXCEPT ![v] = {}] /\ whole' = [whole EXCEPT ![v] = None]
    /\ Checks("verify", check.offer)
    /\ UNCHANGED <<alive, ready, marker, doing, quiet, Outside, history, Counts>>

\* Or does not: the check has failed, and the part stays.
ReplaceRefused ==
    /\ check.at = "replace" /\ Uses("held")
    /\ check' = Resting
    /\ UNCHANGED <<alive, Files, ready, marker, doing, quiet, Outside, Counts>>

\* Mutant: an installer that was there is taken for the one offered.
VerifiesNothing ==
    /\ check.at = "verify"
    /\ Checks("record", check.offer)
    /\ UNCHANGED <<alive, Files, ready, marker, doing, quiet, Outside, history, Counts>>

\* What does not match is refused, and nothing of it kept.
Verifies ==
    /\ check.at = "verify"
    /\ LET v == check.offer.version IN
       IF final[v] = {check.offer.edition}
       THEN Checks("record", check.offer) /\ UNCHANGED Files
       ELSE /\ check' = Resting
            /\ part' = [part EXCEPT ![v] = {}] /\ final' = [final EXCEPT ![v] = {}]
            /\ whole' = [whole EXCEPT ![v] = None]
    /\ UNCHANGED <<alive, ready, marker, doing, quiet, Outside, history, Counts>>

Records ==
    /\ check.at = "record"
    /\ ready' = check.offer
    /\ Checks("tidy", check.offer)
    /\ UNCHANGED <<alive, Files, marker, doing, quiet, Outside, history, Counts>>

\* _remove_others: of every version but the one to keep.
Kept(v) ==
    /\ part' = [p \in Versions |-> {}] /\ whole' = [p \in Versions |-> None]
    /\ final' = [p \in Versions |-> IF p = v THEN final[p] ELSE {}]

Tidies ==
    /\ check.at \in {"tidy", "forget"}
    /\ Kept(check.offer.version)
    /\ check' = Resting
    /\ UNCHANGED <<alive, ready, marker, doing, quiet, Outside, history, Counts>>

CheckStep ==
    \/ ChecksNow \/ Arrives \/ FetchesNothing \/ Fills \/ Replaces
    \/ Verifies \/ Records \/ Tidies

CheckFails == BreaksOff \/ ReplaceRefused

(***************************************************************************)
(* The installer (UpdateInstaller).                                        *)
(***************************************************************************)
_attempts(v) == IF marker.to = v THEN marker.attempts ELSE 0

WhyNot(asked) == is_active \/ (~asked /\ ~calm)

\* _installing is set.
Busy(i) == doing[i].at \in {"write", "spawn", "stuck"}
Installing == \E i \in Installers : Busy(i)

\* What may be installed without being asked.
Retryable == IsReady /\ _attempts(ready.version) < MAX_ATTEMPTS

Wanted == ready.mandatory \/ history.auto

\* install, up to the marker.
Begins(i) ==
    IF Installing THEN UNCHANGED doing
    ELSE doing' = [doing EXCEPT ![i] = [at |-> "write", version |-> ready.version]]

Unsafe == Retryable /\ Wanted /\ WhyNot(FALSE)
\* An update that need not wait for a quiet time does not.
NotYet == Retryable /\ Wanted /\ ~WhyNot(FALSE) /\ ~ready.mandatory /\ quiet < Quiet

Ticks ==
    /\ Started /\ doing["tick"].at \in {"rest", "stuck"}
    /\ \/ /\ ~Retryable \/ Unsafe
          /\ quiet' = 0 /\ UNCHANGED doing
       \/ /\ NotYet
          /\ quiet' = quiet + 1 /\ UNCHANGED doing
       \/ /\ Retryable /\ Wanted /\ ~Unsafe /\ ~NotYet
          /\ Begins("tick") /\ UNCHANGED quiet
    /\ UNCHANGED <<alive, Files, ready, marker, check, Outside, history, Counts>>

\* "Install now" and "Restart to update".
InstallPressed ==
    /\ alive /\ doing["page"].at \in {"rest", "stuck"} /\ Uses("press")
    /\ IsReady /\ ~WhyNot(TRUE)
    /\ Begins("page")
    /\ UNCHANGED <<alive, Files, ready, marker, check, quiet, Outside, Counts>>

\* The process ends.
Closes ==
    /\ alive' = FALSE /\ recording' = "off" /\ quiet' = 0
    /\ check' = Resting /\ doing' = [i \in Installers |-> AtRest]

\* Quit from the tray: a good moment for an automatic update.
Quits ==
    /\ Started /\ doing["quit"].at = "rest" /\ Uses("quit")
    /\ IF Retryable /\ Wanted /\ ~WhyNot(FALSE) /\ ~Installing
       THEN Begins("quit") /\ UNCHANGED <<alive, check, quiet, Moment>>
       ELSE Closes /\ UNCHANGED calm
    /\ UNCHANGED <<Files, ready, marker, current, published, setup, Counts>>

\* _write_marker, and the backup of the database.
Writes(i) ==
    /\ doing[i].at = "write"
    /\ LET v == doing[i].version IN marker' = [to |-> v, attempts |-> _attempts(v) + 1]
    /\ doing' = [doing EXCEPT ![i].at = "spawn"]
    /\ UNCHANGED <<alive, Files, ready, check, quiet, Outside, history, Counts>>

\* A marker cut short cannot be read: nothing is known of any attempt.
MarkerAsIs == UNCHANGED <<marker, Counts>>
MarkerIsCut == marker' = NoMarker /\ counted' = [v \in Versions |-> 0] /\ UNCHANGED tries

\* Or it fails, before the file is opened or after: _installing stays set for as long as
\* the app runs, which at a quit it does not.
WriteFails(i) ==
    /\ doing[i].at = "write" /\ Uses("unwritten")
    /\ MarkerAsIs \/ MarkerIsCut
    /\ IF i = "quit" THEN Closes
       ELSE /\ doing' = [doing EXCEPT ![i].at = "stuck"]
            /\ UNCHANGED <<alive, check, quiet, recording>>
    /\ UNCHANGED <<Files, ready, current, published, setup, calm>>

\* Setup was started, by itself or for who asked.
Tried(i) ==
    LET n == IF i = "page" THEN 0 ELSE 1 IN
    /\ tries' = [tries EXCEPT ![doing[i].version] = @ + n]
    /\ counted' = [counted EXCEPT ![doing[i].version] = @ + n]

\* Mutant: a Setup that did not start leaves its thread installing.
SpawnsForGood(i) ==
    /\ doing[i].at = "spawn" /\ final[doing[i].version] # {}
    /\ setup' = doing[i].version
    /\ Closes
    /\ Tried(i)
    /\ UNCHANGED <<Files, ready, marker, current, published, calm, history>>

\* Setup starts and the app ends, or the file is gone, or Windows refuses to run it.
Spawns(i) ==
    /\ doing[i].at = "spawn"
    /\ LET v == doing[i].version IN
       \/ /\ final[v] # {}
          /\ setup' = v
          /\ Closes
          /\ Tried(i)
          /\ UNCHANGED history
       \/ /\ IF final[v] = {} THEN UNCHANGED history ELSE Uses("refuse")
          /\ IF i = "quit" THEN Closes
             ELSE /\ doing' = [doing EXCEPT ![i] = AtRest]
                  /\ UNCHANGED <<alive, check, quiet, recording>>
          /\ UNCHANGED <<setup, Counts>>
    /\ UNCHANGED <<Files, ready, marker, current, published, calm>>

(***************************************************************************)
(* Setup, and the start after.                                             *)
(***************************************************************************)
\* It installs its version, or does not.
SetupEnds ==
    /\ setup # None /\ ~alive
    /\ \/ current' = setup /\ UNCHANGED history
       \/ Uses("refuse") /\ UNCHANGED current
    /\ setup' = None
    /\ UNCHANGED <<alive, published, Files, ready, marker, check, doing, quiet, Moment, Counts>>

\* after_start: a marker of this very version has done its work, any other stays.
Starts ==
    /\ ~alive /\ setup = None
    /\ alive' = TRUE
    /\ IF marker.to = current
       THEN marker' = NoMarker /\ doing' = [doing EXCEPT !["start"].at = "unlink"]
       ELSE UNCHANGED <<marker, doing>>
    /\ UNCHANGED <<Files, ready, check, quiet, Outside, history, Counts>>

\* forget_ready
Forgets ==
    /\ \/ doing["start"].at = "unlink"
          /\ ready' = NoReady /\ doing' = [doing EXCEPT !["start"].at = "files"]
          /\ UNCHANGED Files
       \/ doing["start"].at = "files"
          /\ Kept(None) /\ doing' = [doing EXCEPT !["start"].at = "rest"]
          /\ UNCHANGED ready
    /\ UNCHANGED <<alive, marker, check, quiet, Outside, history, Counts>>

(***************************************************************************)
(* The rest of the world.                                                  *)
(***************************************************************************)
Publishes ==
    /\ published < Len(history.releases) /\ published' = published + 1
    /\ UNCHANGED <<current, alive, Files, ready, marker, check, doing, quiet, setup, Moment,
                   history, Counts>>

RecordingChanges ==
    /\ alive
    /\ \/ recording = "off" /\ Uses("record") /\ recording' = "on"
       \/ recording # "off" /\ recording' \in {"on", "paused"} \ {recording} /\ Uses("record")
    /\ UNCHANGED <<current, alive, published, Files, ready, marker, check, doing, quiet, setup,
                   calm, Counts>>

RecordingEnds ==
    /\ recording # "off" /\ recording' = "off"
    /\ UNCHANGED <<current, alive, published, Files, ready, marker, check, doing, quiet, setup,
                   calm, history, Counts>>

Disturbed ==
    /\ calm /\ Uses("disturb") /\ calm' = FALSE
    /\ UNCHANGED <<current, alive, published, Files, ready, marker, check, doing, quiet, setup,
                   recording, Counts>>

Calms ==
    /\ ~calm /\ calm' = TRUE
    /\ UNCHANGED <<current, alive, published, Files, ready, marker, check, doing, quiet, setup,
                   recording, history, Counts>>

\* What is being written, ready.json or the marker, may be cut short.
Dies ==
    /\ alive /\ Uses("crash")
    /\ Closes
    /\ ready' = ready \/ (check.at = "record" /\ ready' = NoReady)
    /\ \/ MarkerAsIs
       \/ MarkerIsCut /\ \E i \in Installers : doing[i].at = "write"
    /\ UNCHANGED <<current, published, Files, setup, calm>>

InstallStep == Ticks \/ Forgets \/ \E i \in Installers : Writes(i) \/ Spawns(i)

UpdatesNext ==
    \/ CheckStep \/ CheckFails
    \/ InstallStep \/ InstallPressed \/ Quits \/ \E i \in Installers : WriteFails(i)
    \/ SetupEnds \/ Starts
    \/ Publishes \/ RecordingChanges \/ RecordingEnds \/ Disturbed \/ Calms
    \/ Dies

UpdatesSpec == UpdatesInit /\ [][UpdatesNext]_updatesVars

\* The loops run, Setup ends, the app is started again; calls and recordings end.
UpdatesFairSpec ==
    /\ UpdatesSpec
    /\ WF_updatesVars(CheckStep)
    /\ WF_updatesVars(Ticks) /\ WF_updatesVars(Forgets)
    /\ \A i \in Installers : WF_updatesVars(Writes(i)) /\ WF_updatesVars(Spawns(i))
    /\ WF_updatesVars(SetupEnds) /\ WF_updatesVars(Starts)
    /\ WF_updatesVars(RecordingEnds) /\ WF_updatesVars(Calms)

(***************************************************************************)
(* Properties.                                                             *)
(***************************************************************************)
\* service.py: an installer counts as ready only when it is the file its manifest told
\* of, whatever was resumed, published anew, refused or cut short by a crash.
ReadyIsVerified == ready # NoReady => final[ready.version] = {ready.edition}

\* install.py: a version that failed MAX_ATTEMPTS times is not installed by itself again,
\* unless the writing of a marker was cut short since.
\* (One that has come to run may be installed once more after a crash: NeverOlder.)
TriesEnd == \A v \in Versions : v > current => counted[v] <= MAX_ATTEMPTS

\* install.py:48: "A version whose install failed this many times is no longer installed
\* by itself": whatever became of a marker.
TriesEndForGood == \A v \in Versions : v > current => tries[v] <= MAX_ATTEMPTS

\* Those, in a state of the declared types.
UpdatesInv == UpdatesTypeOK /\ ReadyIsVerified /\ TriesEnd

\* manifest.py: a copy is never downgraded, with a channel turned off or a crash at the
\* start after an update.
NeverOlder == [][setup' # None /\ setup' # setup => setup' >= current]_updatesVars

\* What is offered to this copy.
Offered == choose(Manifests, current)

\* Nothing is left to come: or it has failed too often, or the user said no.
Arrived ==
    \/ Offered = NoOffer
    \/ _attempts(Offered.version) >= MAX_ATTEMPTS
    \/ ~history.auto /\ ~Offered.mandatory

\* install.py: a mandatory update comes in the end, any other too unless the user said
\* no; or it has failed too often; or its part was left whole, or a marker could not be
\* written.
UpdateArrives ==
    <>[](\/ Arrived
         \/ whole[Offered.version] = Offered.edition
         \/ \E i \in Installers : doing[i].at = "stuck")

\* install.py:14: "A mandatory update (critical, or this copy is below ``min_version``)
\* installs at the first safe moment whatever the setting"; service.py:8: a download is
\* resumed from a partial file.
UpdateComes == <>[]Arrived

\* install.py: "any moment without a recording" is a safe one for who asks.
InstallsBetweenRecordings ==
    [][\A i \in Installers :
            doing[i].at = "rest" /\ doing'[i].at = "write" => recording = "off"]_updatesVars
=============================================================================
