--------------------------- MODULE UpdatesProofs ---------------------------
(***************************************************************************)
(* Proofs about Updates, for any versions, editions, attempts and          *)
(* histories: an installer that counts as ready is what its manifest told  *)
(* of; and, where the offers go forward, that no version is tried too      *)
(* often and none is installed over a newer one.                           *)
(***************************************************************************)
EXTENDS Updates, WellFoundedInduction, TLAPS

Places == [at : {"rest", "write", "spawn", "stuck", "unlink", "files"},
           version : Versions \union {None}]

\* What the types leave open: the history, and who may be where at once.
UpdatesTypes ==
    /\ UpdatesTypeOK
    /\ history \in [releases : Seq(SUBSET Manifest), quota : [Troubles -> Nat], auto : BOOLEAN]
    /\ ~alive => check.at = "rest" /\ \A i \in Installers : doing[i].at = "rest"
    /\ setup # None => ~alive
    /\ \A i \in Installers \ {"start"} : doing[i].at \in {"rest", "write", "spawn", "stuck"}
    /\ doing["start"].at \in {"rest", "unlink", "files"}
    /\ \A i \in Installers : Busy(i) => doing[i].version \in Versions
    \* One installs at a time.
    /\ \A i, j \in Installers : Busy(i) /\ Busy(j) => i = j
    /\ check.at \in {"fetch", "replace", "verify", "record", "tidy"} => check.offer # NoOffer
    \* What is fetched is in a release that is out.
    /\ check.at = "fetch" =>
          \E n \in 1 .. published : \E m \in history.releases[n] : m.version = check.offer.version

\* What makes ReadyIsVerified inductive: the check never fetches or refuses the version
\* that is ready, and the start that forgets what is ready runs before any check.
ReadyInv ==
    /\ ReadyIsVerified
    /\ doing["start"].at # "rest" => check.at = "rest"
    /\ doing["start"].at = "files" => ready = NoReady
    /\ check.at = "forget" => ready = NoReady /\ check.offer = NoOffer
    /\ check.at \in {"fetch", "replace", "verify"} => ready.version # check.offer.version
    /\ check.at = "record" => final[check.offer.version] = {check.offer.edition}
    /\ check.at = "tidy" => ready = check.offer

\* What the release n makes of a copy of version c.
OfferIn(releases, c, n) == choose(releases[n], c)

\* The offers go forward: none is older than one before, whatever is installed.
GoesForward(releases) ==
    \A n, m \in DOMAIN releases : \A c, d \in Versions :
        n <= m /\ OfferIn(releases, c, n) # NoOffer /\ OfferIn(releases, d, m) # NoOffer =>
            OfferIn(releases, c, n).version <= OfferIn(releases, d, m).version

\* Nothing older than v is offered any more.
Reached(v) ==
    \A n \in DOMAIN history.releases : \A c \in Versions :
        n >= published /\ OfferIn(history.releases, c, n) # NoOffer =>
            v <= OfferIn(history.releases, c, n).version

\* What a thread without a press has begun to install.
Begun(v) == IF \E i \in {"tick", "quit"} : doing[i].at = "spawn" /\ doing[i].version = v THEN 1 ELSE 0

\* What was offered, in the order it was: installed, begun, tried, ready, being fetched.
ForwardInv ==
    /\ GoesForward(history.releases)
    /\ ready # NoReady => Reached(ready.version) /\ current <= ready.version
    /\ marker # NoMarker => Reached(marker.to)
    /\ marker # NoMarker /\ ready # NoReady => marker.to <= ready.version
    /\ check.at \in {"fetch", "replace", "verify", "record"} =>
          /\ Reached(check.offer.version) /\ current <= check.offer.version
          /\ marker # NoMarker => marker.to <= check.offer.version
          /\ ready # NoReady => ready.version <= check.offer.version
    /\ \A i \in Installers : doing[i].at = "write" =>
          /\ Reached(doing[i].version) /\ current <= doing[i].version
          /\ marker # NoMarker => marker.to <= doing[i].version
          /\ ready # NoReady => doing[i].version <= ready.version
          /\ check.at \in {"fetch", "replace", "verify", "record"} =>
                doing[i].version <= check.offer.version
    /\ \A i \in Installers : doing[i].at = "spawn" =>
          doing[i].version = marker.to /\ current <= doing[i].version
    /\ setup # None => setup = marker.to /\ current <= setup

\* No version that is still to come was tried too often; and the last one tried is the
\* newest that was.
TriesInv ==
    /\ \A v \in Versions : v > current /\ counted[v] + Begun(v) > 0 =>
          /\ counted[v] + Begun(v) <= MAX_ATTEMPTS
          /\ marker # NoMarker /\ v <= marker.to
          /\ v = marker.to => counted[v] + Begun(v) <= marker.attempts
    /\ \A i \in {"tick", "quit"} :
          doing[i].at = "write" => _attempts(doing[i].version) < MAX_ATTEMPTS

\* Where nobody presses and nothing crashes, what is ready is newer than the copy, or the
\* start after is about to forget it.
UndisturbedInv ==
    /\ history.quota["press"] = 0 /\ history.quota["crash"] = 0
    /\ doing["page"].at = "rest"
    /\ ready # NoReady => \/ current < ready.version
                          \/ ~alive /\ marker.to = current
                          \/ doing["start"].at = "unlink"
    /\ check.at \in {"fetch", "replace", "verify", "record"} => current < check.offer.version
    /\ \A i \in Installers : doing[i].at \in {"write", "spawn"} =>
          /\ current < doing[i].version /\ doing["start"].at = "rest"
          /\ doing[i].at = "spawn" => doing[i].version = marker.to
    /\ setup # None => setup = marker.to /\ current < setup

(***************************************************************************)
(* The newest of some versions, and what is offered.                       *)
(***************************************************************************)
LEMMA LeastExists ==
    ASSUME NEW S \in SUBSET Nat, S # {}
    PROVE  \E x \in S : \A y \in S : x <= y
<1>1. \E x \in S : \A y \in S : <<y, x>> \notin OpToRel(<, Nat)
  BY NatLessThanWellFounded, WFMin
<1>2. PICK x \in S : \A y \in S : <<y, x>> \notin OpToRel(<, Nat)
  BY <1>1
<1>3. \A y \in S : ~(y < x)
  BY <1>2 DEF OpToRel
<1> QED BY <1>3

LEMMA GreatestExists ==
    ASSUME NEW S \in SUBSET Nat, S # {}, NEW top \in Nat, \A y \in S : y <= top
    PROVE  \E x \in S : \A y \in S : y <= x
<1> DEFINE T == {top - y : y \in S}
<1>1. T \in SUBSET Nat /\ T # {}
  <2>1. \A y \in S : top - y \in Nat
    OBVIOUS
  <2> QED BY <2>1
<1>2. PICK t \in T : \A u \in T : t <= u
  BY <1>1, LeastExists
<1>3. PICK x \in S : t = top - x
  BY <1>2
<1>4. \A y \in S : top - x <= top - y
  BY <1>2, <1>3
<1> QED BY <1>4

LEMMA NewestIs ==
    ASSUME NEW ms \in SUBSET Manifest, ms # {}
    PROVE  Newest(ms) \in ms /\ \A other \in ms : other.version <= Newest(ms).version
<1> DEFINE S == {m.version : m \in ms}
<1>1. S \in SUBSET Nat /\ S # {} /\ S \subseteq Versions
  BY VersionsAreNumbered DEF Manifest
<1>2. PICK top \in Nat : \A v \in Versions : v <= top
  BY VersionsAreNumbered
<1>3. \E x \in S : \A y \in S : y <= x
  BY <1>1, <1>2, GreatestExists
<1>4. \E m \in ms : \A other \in ms : other.version <= m.version
  BY <1>3
<1> QED BY <1>4 DEF Newest

\* The first version is there.
LEMMA FirstIs == Min(Versions) \in Versions /\ \A v \in Versions : Min(Versions) <= v
<1>1. \E x \in Versions : \A y \in Versions : x <= y
  BY VersionsAreNumbered, LeastExists
<1> QED BY <1>1 DEF Min

\* An offer is one of the release, and newer than the copy.
LEMMA ChosenIs ==
    ASSUME NEW ms \in SUBSET Manifest, NEW installed \in Versions,
           choose(ms, installed) # NoOffer
    PROVE  /\ choose(ms, installed) \in Offers
           /\ installed < choose(ms, installed).version
           /\ \E m \in ms : m.version = choose(ms, installed).version
<1> DEFINE newer == {m \in ms : m.version > installed}
           best == Newest(newer)
           mandatory == best.critical \/ \E m \in ms : installed < m.floor
           older == {m \in newer \ {best} : m.fits}
<1>1. newer # {}
  BY DEF choose
<1>2. best \in newer /\ best \in Manifest /\ mandatory \in BOOLEAN
  <2>1. best \in newer
    BY <1>1, NewestIs
  <2>2. best.critical \in BOOLEAN
    BY <2>1 DEF Manifest
  <2> QED BY <2>1, <2>2
<1>3. ASSUME NEW m \in newer, NEW b \in BOOLEAN
      PROVE  /\ OfferOf(m, b) \in Offers /\ installed < OfferOf(m, b).version
             /\ \E n \in ms : n.version = OfferOf(m, b).version
  BY <1>3, VersionsAreNumbered DEF OfferOf, Offers, Manifest
<1>4. CASE mandatory \/ best.fits
  <2>1. choose(ms, installed) = OfferOf(best, mandatory)
    BY <1>1, <1>4 DEF choose
  <2> QED BY <1>2, <1>3, <2>1
<1>5. CASE ~(mandatory \/ best.fits)
  <2>1. older # {} /\ choose(ms, installed) = OfferOf(Newest(older), Newest(older).critical)
    BY <1>1, <1>5 DEF choose
  <2>2. Newest(older) \in older
    BY <2>1, NewestIs
  <2>3. Newest(older).critical \in BOOLEAN
    BY <2>2 DEF Manifest
  <2> QED BY <1>3, <2>1, <2>2, <2>3
<1> QED BY <1>4, <1>5

LEMMA OffersAreNot == /\ NoOffer \notin Offers /\ NoReady = NoOffer
                      /\ \A o \in Offers : o.version \in Versions /\ o.edition \in Editions
                      /\ NoOffer.version = None
BY VersionsAreNumbered DEF Offers, NoOffer, NoReady

(***************************************************************************)
(* The types.                                                              *)
(***************************************************************************)
Days == [releases : Seq(SUBSET Manifest), quota : [Troubles -> Nat], auto : BOOLEAN]

\* What happens uses what the history has left; the releases and the setting stay.
LEMMA HistoryStep ==
    ASSUME history \in Days, [UpdatesNext]_updatesVars
    PROVE  /\ history' \in Days
           /\ history'.releases = history.releases
           /\ history'.quota["press"] <= history.quota["press"]
           /\ history'.quota["crash"] <= history.quota["crash"]
<1>1. UNCHANGED history \/ \E e \in Troubles : Uses(e)
  BY DEF UpdatesNext, updatesVars, CheckStep, InstallStep, ChecksNow, Arrives, FetchesNothing, Fills,
         Replaces, Verifies, Records, Tidies, CheckFails, BreaksOff, ReplaceRefused,
         Ticks, Forgets, Writes, WriteFails, MarkerAsIs, MarkerIsCut, Spawns, Tried, InstallPressed, Quits, Closes, Begins,
         SetupEnds, Starts, Publishes, RecordingChanges, RecordingEnds, Disturbed, Calms, Dies,
         Outside, Files, Moment, Counts, Troubles
<1>2. CASE UNCHANGED history
  BY <1>2 DEF Days, Troubles
<1>3. CASE \E e \in Troubles : Uses(e)
  <2>1. PICK e \in Troubles : Uses(e)
    BY <1>3
  <2> DEFINE q == [history.quota EXCEPT ![e] = @ - 1]
  <2>2. history.quota \in [Troubles -> Nat] /\ history.quota[e] - 1 \in Nat
    BY <2>1 DEF Uses, Days
  <2>3. q \in [Troubles -> Nat] /\ q["press"] <= history.quota["press"]
        /\ q["crash"] <= history.quota["crash"]
    BY <2>2 DEF Troubles
  <2>4. history' = [history EXCEPT !.quota = q]
    BY <2>1 DEF Uses
  <2> HIDE DEF q
  <2> QED BY <2>3, <2>4 DEF Days
<1> QED BY <1>1, <1>2, <1>3

LEMMA InitUpdatesTypes ==
    ASSUME UpdatesInit
    PROVE  UpdatesTypes
<1>1. history \in Days /\ history.releases # <<>>
  BY HistoriesAssumption DEF UpdatesInit, Days
<1>2. 1 \in 1 .. Len(history.releases)
  BY <1>1 DEF Days
<1>3. current \in Versions
  BY FirstIs DEF UpdatesInit
<1>4. UpdatesTypeOK
  BY <1>2, <1>3, AttemptsAssumption
  DEF UpdatesInit, UpdatesTypeOK, Resting, AtRest, NoReady, NoMarker, NoOffer, Installers
<1> QED
  BY <1>1, <1>4, VersionsAreNumbered
  DEF UpdatesInit, UpdatesTypes, Days, Resting, AtRest, Installers, Busy

\* The pieces of the types, for the steps that change some of them.
ReadyType == ready = NoReady \/ ready \in Offers
MarkerType == marker = NoMarker \/ marker \in [to : Versions, attempts : Nat \ {0}]
CheckType ==
    /\ check.at \in {"rest", "fetch", "replace", "verify", "record", "tidy", "forget"}
    /\ check.at # "rest" => check.offer = NoOffer \/ check.offer \in Offers
    /\ check.at \in {"fetch", "replace", "verify", "record", "tidy"} => check.offer # NoOffer
    /\ check.at = "fetch" =>
          \E n \in 1 .. published : \E m \in history.releases[n] : m.version = check.offer.version
DoingType ==
    /\ doing \in [Installers -> Places]
    /\ \A i \in Installers \ {"start"} : doing[i].at \in {"rest", "write", "spawn", "stuck"}
    /\ doing["start"].at \in {"rest", "unlink", "files"}
    /\ \A i \in Installers : Busy(i) => doing[i].version \in Versions
    /\ \A i, j \in Installers : Busy(i) /\ Busy(j) => i = j
FilesType ==
    /\ part \in [Versions -> SUBSET Editions] /\ final \in [Versions -> SUBSET Editions]
    /\ whole \in [Versions -> Editions \union {None}]
AliveType ==
    /\ ~alive => check.at = "rest" /\ \A i \in Installers : doing[i].at = "rest"
    /\ setup # None => ~alive
RestType ==
    /\ current \in Versions /\ alive \in BOOLEAN
    /\ published \in 1 .. Len(history.releases)
    /\ quiet \in 0 .. Quiet /\ setup \in Versions \union {None}
    /\ recording \in {"off", "on", "paused"} /\ calm \in BOOLEAN
    /\ tries \in [Versions -> Nat] /\ counted \in [Versions -> Nat]
    /\ history \in Days

LEMMA TypePieces ==
    UpdatesTypes <=> /\ ReadyType /\ MarkerType /\ CheckType /\ DoingType /\ FilesType
                     /\ AliveType /\ RestType
BY DEF UpdatesTypes, UpdatesTypeOK, ReadyType, MarkerType, CheckType, DoingType, FilesType,
       AliveType, RestType, Offers, Places, Days

LEMMA TypePiecesNext ==
    UpdatesTypes' <=> /\ ReadyType' /\ MarkerType' /\ CheckType' /\ DoingType' /\ FilesType'
                      /\ AliveType' /\ RestType'
BY DEF UpdatesTypes, UpdatesTypeOK, ReadyType, MarkerType, CheckType, DoingType, FilesType,
       AliveType, RestType, Offers, Places, Days

\* Unless the check fetches, nothing hangs on the releases.
LEMMA ClosedTypes ==
    ASSUME Closes
    PROVE  /\ alive' = FALSE /\ recording' = "off" /\ quiet' = 0 /\ check'.at = "rest"
           /\ \A i \in Installers : doing'[i] = AtRest
           /\ CheckType' /\ DoingType' /\ AliveType'
BY DEF Closes, CheckType, DoingType, AliveType, Resting, AtRest, Installers, Places, Busy

\* Beginning to install what is ready.
LEMMA BegunTypes ==
    ASSUME UpdatesTypes, ready # NoReady, NEW i \in {"tick", "page", "quit"}, alive, Begins(i)
    PROVE  DoingType'
<1>1. ready.version \in Versions
  BY OffersAreNot DEF UpdatesTypes, UpdatesTypeOK
<1>2. DoingType /\ i \in Installers \ {"start"}
  BY TypePieces DEF Installers
<1>3. CASE Installing
  BY <1>2, <1>3 DEF Begins, DoingType, Busy
<1>4. CASE ~Installing
  <2> DEFINE place == [at |-> "write", version |-> ready.version]
  <2>1. place \in Places /\ place.at = "write" /\ place.version \in Versions
    BY <1>1 DEF Places
  <2>2. doing' = [doing EXCEPT ![i] = place]
    BY <1>4 DEF Begins
  <2>3. doing'[i] = place /\ \A j \in Installers : j # i => doing'[j] = doing[j] /\ ~Busy(j)
    BY <1>2, <1>4, <2>2 DEF DoingType, Installing
  <2> HIDE DEF place
  <2> QED BY <1>2, <2>1, <2>2, <2>3 DEF DoingType, Busy
<1> QED BY <1>3, <1>4

\* A thread that installs goes on, or stays stuck.
LEMMA BusyTypes ==
    ASSUME DoingType, NEW i \in Installers, Busy(i), NEW at \in {"spawn", "stuck"},
           doing' = [doing EXCEPT ![i].at = at]
    PROVE  DoingType'
<1>1. /\ doing'[i].at = at /\ doing'[i].version = doing[i].version /\ doing'[i] \in Places
      /\ \A j \in Installers : j # i => doing'[j] = doing[j]
  BY DEF DoingType, Places
<1>2. i # "start" /\ doing' \in [Installers -> Places] /\ "start" \in Installers
  BY <1>1 DEF DoingType, Busy, Installers
<1> QED BY <1>1, <1>2 DEF DoingType, Busy

\* The check's steps.
LEMMA CheckTypes ==
    ASSUME UpdatesTypes, CheckStep \/ CheckFails
    PROVE  UpdatesTypes'
<1> USE DEF Outside, Moment, Files, Counts
<1>1. /\ ReadyType /\ MarkerType /\ CheckType /\ DoingType /\ FilesType /\ AliveType /\ RestType
  BY TypePieces
<1>2. history' \in Days /\ history'.releases = history.releases
  BY <1>1, HistoryStep DEF UpdatesNext, RestType
<1>3. /\ UNCHANGED <<alive, marker, doing, quiet, current, published, setup, recording, calm, tries, counted>>
  BY DEF CheckStep, ChecksNow, Arrives, FetchesNothing, Fills, Replaces, Verifies,
         Records, Tidies, CheckFails, BreaksOff, ReplaceRefused
<1>4. MarkerType' /\ DoingType' /\ RestType'
  BY <1>1, <1>2, <1>3 DEF MarkerType, DoingType, RestType, Busy
<1>5. alive => AliveType'
  BY <1>1, <1>3 DEF AliveType
<1>6. check.at = "rest" /\ check'.at = "rest" => AliveType'
  BY <1>1, <1>3 DEF AliveType
<1>7. check.at # "rest" => alive
  BY <1>1 DEF AliveType
<1>8. CASE ChecksNow
  <2> DEFINE offer == choose(Manifests, current)
  <2>1. alive
    BY <1>8 DEF ChecksNow, Started
  <2>2. Manifests \in SUBSET Manifest /\ published \in 1 .. published
    BY <1>1 DEF Manifests, RestType, Days
  <2>3. CASE offer = NoOffer
    <3>1. ready' = NoReady /\ check' = [at |-> "forget", offer |-> NoOffer] /\ UNCHANGED Files
      BY <1>8, <2>3 DEF ChecksNow, Checks
    <3>2. ReadyType' /\ CheckType' /\ FilesType'
      BY <1>1, <3>1 DEF ReadyType, CheckType, FilesType
    <3> QED BY <1>4, <1>5, <2>1, <3>2, TypePiecesNext
  <2>4. CASE offer # NoOffer
    <3>1. offer \in Offers /\ \E m \in Manifests : m.version = offer.version
      BY <1>1, <2>2, <2>4, ChosenIs DEF RestType
    <3>2. UNCHANGED <<ready, part, whole, final>> /\ \E at \in {"fetch", "verify"} : check' = [at |-> at, offer |-> offer]
      BY <1>8, <2>4 DEF ChecksNow, Checks
    <3> HIDE DEF offer
    <3>3. \E n \in 1 .. published' : \E m \in history'.releases[n] : m.version = offer.version
      BY <1>2, <1>3, <2>2, <3>1 DEF Manifests
    <3>4. check'.at \in {"fetch", "verify"} /\ check'.offer = offer
      BY <3>2
    <3>5. ReadyType' /\ CheckType' /\ FilesType'
      BY <1>1, <2>4, <3>1, <3>2, <3>3, <3>4 DEF ReadyType, CheckType, FilesType
    <3> QED BY <1>4, <1>5, <2>1, <3>5, TypePiecesNext
  <2> QED BY <2>3, <2>4
<1>9. CASE Arrives
  <2>1. check.offer \in Offers /\ check.offer.version \in Versions
    BY <1>1, <1>9, OffersAreNot DEF Arrives, CheckType
  <2>2. Served(check.offer.version) \in SUBSET Editions
    <3> DEFINE v == check.offer.version
               out == {n \in 1 .. published : \E m \in history.releases[n] : m.version = v}
    <3>1. out # {} /\ out \in SUBSET Nat /\ published \in Nat
      BY <1>1, <1>9 DEF Arrives, CheckType, RestType
    <3>2. \A n \in out : n <= published
      BY <1>1 DEF RestType
    <3>3. \E x \in out : \A y \in out : y <= x
      BY <3>1, <3>2, GreatestExists
    <3>4. Max(out) \in out
      BY <3>1, <3>3 DEF Max
    <3>5. history.releases[Max(out)] \in SUBSET Manifest
      <4> DEFINE n == Max(out)
      <4>1. n \in 1 .. published /\ history.releases \in Seq(SUBSET Manifest)
        BY <1>1, <3>4 DEF RestType, Days
      <4> HIDE DEF n
      <4>2. n \in DOMAIN history.releases
        BY <1>1, <4>1 DEF RestType
      <4>3. history.releases[n] \in SUBSET Manifest
        BY <4>1, <4>2
      <4> QED BY <4>3 DEF n
    <3>6. Served(v) = {m.edition : m \in {x \in history.releases[Max(out)] : x.version = v}}
      BY DEF Served
    <3> HIDE DEF out
    <3> QED BY <3>5, <3>6 DEF Manifest
  <2>3. part' \in [Versions -> SUBSET Editions] /\ whole' \in [Versions -> Editions \union {None}]
    <3>1. PICK kept \in {part[check.offer.version], {}} :
             part' = [part EXCEPT ![check.offer.version] = kept \union Served(check.offer.version)]
      BY <1>9 DEF Arrives
    <3>2. kept \union Served(check.offer.version) \in SUBSET Editions
      BY <1>1, <2>1, <2>2, <3>1 DEF FilesType
    <3>3. whole' \in [Versions -> Editions \union {None}]
      BY <1>1, <1>9 DEF Arrives, FilesType
    <3> QED BY <1>1, <3>1, <3>2, <3>3 DEF FilesType
  <2>4. UNCHANGED <<final, ready, check>> /\ check.at = "fetch"
    BY <1>9 DEF Arrives
  <2>5. ReadyType' /\ CheckType' /\ FilesType'
    BY <1>1, <1>2, <1>3, <2>3, <2>4 DEF ReadyType, CheckType, FilesType
  <2> QED BY <1>4, <1>5, <1>7, <2>4, <2>5, TypePiecesNext
<1>10. CASE Fills \/ Replaces \/ Verifies \/ FetchesNothing \/ CheckFails \/ Tidies
  <2> USE DEF CheckFails
  <2>1. check.offer = NoOffer \/ (check.offer \in Offers /\ check.offer.version \in Versions)
    <3>1. check.at # "rest"
      BY <1>10 DEF Fills, Replaces, Verifies, FetchesNothing, BreaksOff, ReplaceRefused, Tidies
    <3> QED BY <1>1, <3>1, OffersAreNot DEF CheckType
  <2>2. FilesType'
    <3>1. CASE Fills
      <4>1. check.offer.edition \in Editions
        BY <1>1, <2>1, <3>1, OffersAreNot DEF Fills, CheckType
      <4> QED BY <1>1, <2>1, <3>1, <4>1 DEF Fills, FilesType, CheckType
    <3>2. CASE Replaces
      BY <1>1, <2>1, <3>2 DEF Replaces, FilesType, CheckType
    <3>3. CASE Verifies
      BY <1>1, <2>1, <3>3 DEF Verifies, FilesType, CheckType
    <3>4. CASE FetchesNothing \/ BreaksOff \/ ReplaceRefused
      BY <1>1, <3>4 DEF FetchesNothing, BreaksOff, ReplaceRefused, FilesType
    <3>5. CASE Tidies
      BY <1>1, <3>5 DEF Tidies, Kept, FilesType
    <3> QED BY <1>10, <3>1, <3>2, <3>3, <3>4, <3>5
  <2>3. UNCHANGED ready /\ (check' = Resting \/ \E at \in {"replace", "verify", "record"} : check' = [at |-> at, offer |-> check.offer])
    BY <1>10 DEF Fills, Replaces, Verifies, FetchesNothing, BreaksOff, ReplaceRefused, Tidies, Checks
  <2>4. check.at # "rest" /\ (check' = Resting \/ check.at \in {"fetch", "replace", "verify"})
    BY <1>10 DEF Fills, Replaces, Verifies, FetchesNothing, BreaksOff, ReplaceRefused, Tidies
  <2>5. ReadyType' /\ CheckType'
    BY <1>1, <2>1, <2>3, <2>4 DEF ReadyType, CheckType, Resting
  <2> QED BY <1>4, <1>5, <1>7, <2>2, <2>4, <2>5, TypePiecesNext
<1>11. CASE Records
  <2>1. /\ check.at = "record" /\ ready' = check.offer
        /\ check' = [at |-> "tidy", offer |-> check.offer] /\ UNCHANGED <<part, whole, final>>
    BY <1>11 DEF Records, Checks
  <2>2. check.offer # NoOffer /\ check.offer \in Offers
    BY <1>1, <2>1 DEF CheckType
  <2>3. ReadyType' /\ CheckType' /\ FilesType'
    BY <1>1, <2>1, <2>2 DEF ReadyType, CheckType, FilesType
  <2> QED BY <1>4, <1>5, <1>7, <2>1, <2>3, TypePiecesNext
<1> QED BY <1>8, <1>9, <1>10, <1>11 DEF CheckStep

\* What does not touch the check, or ends it.
LEMMA OtherTypes ==
    ASSUME UpdatesTypes, UpdatesNext, ~CheckStep, ~CheckFails
    PROVE  UpdatesTypes'
<1> USE DEF Outside, Moment, Files, Counts
<1>1. /\ ReadyType /\ MarkerType /\ CheckType /\ DoingType /\ FilesType /\ AliveType /\ RestType
  BY TypePieces
<1>2. history' \in Days /\ history'.releases = history.releases
  BY <1>1, HistoryStep DEF RestType
<1>3. ASSUME UNCHANGED <<check, published>> PROVE CheckType'
  BY <1>1, <1>2, <1>3 DEF CheckType
<1>4. CASE Ticks
  <2>1. /\ alive /\ UNCHANGED <<alive, part, whole, final, ready, marker, check, current, published, setup, recording, calm, tries, counted>>
    BY <1>4 DEF Ticks, Started
  <2>2. quiet' \in 0 .. Quiet
    <3>1. quiet' = 0 \/ (quiet < Quiet /\ quiet' = quiet + 1) \/ quiet' = quiet
      BY <1>4 DEF Ticks, NotYet
    <3> QED BY <1>1, <3>1, AttemptsAssumption DEF RestType
  <2>3. DoingType'
    <3>1. CASE UNCHANGED doing
      BY <1>1, <3>1 DEF DoingType, Busy
    <3>2. CASE Retryable /\ Begins("tick")
      BY <2>1, <3>2, BegunTypes DEF Retryable, IsReady
    <3> QED BY <1>4, <3>1, <3>2 DEF Ticks
  <2>4. ReadyType' /\ MarkerType' /\ FilesType' /\ AliveType' /\ RestType'
    BY <1>1, <1>2, <2>1, <2>2 DEF ReadyType, MarkerType, FilesType, AliveType, RestType
  <2> QED BY <1>3, <2>1, <2>3, <2>4, TypePiecesNext
<1>5. CASE InstallPressed
  <2>1. /\ alive /\ ready # NoReady
        /\ UNCHANGED <<alive, part, whole, final, ready, marker, check, quiet, current, published, setup, recording, calm, tries, counted>>
    BY <1>5 DEF InstallPressed, IsReady
  <2>2. DoingType'
    BY <1>5, <2>1, BegunTypes DEF InstallPressed
  <2>3. ReadyType' /\ MarkerType' /\ FilesType' /\ AliveType' /\ RestType'
    BY <1>1, <1>2, <2>1 DEF ReadyType, MarkerType, FilesType, AliveType, RestType
  <2> QED BY <1>3, <2>1, <2>2, <2>3, TypePiecesNext
<1>6. CASE Quits
  <2>1. alive /\ UNCHANGED <<part, whole, final, ready, marker, current, published, setup, tries, counted>>
    BY <1>6 DEF Quits, Started
  <2>2. CASE Retryable /\ Begins("quit") /\ UNCHANGED <<alive, check, quiet, Moment>>
    <3>1. DoingType'
      BY <2>1, <2>2, BegunTypes DEF Retryable, IsReady
    <3>2. ReadyType' /\ MarkerType' /\ FilesType' /\ AliveType' /\ RestType'
      BY <1>1, <1>2, <2>1, <2>2 DEF ReadyType, MarkerType, FilesType, AliveType, RestType
    <3> QED BY <1>3, <2>1, <2>2, <3>1, <3>2, TypePiecesNext
  <2>3. CASE Closes /\ UNCHANGED calm
    <3>1. ReadyType' /\ FilesType' /\ MarkerType' /\ RestType'
      BY <1>1, <1>2, <2>1, <2>3, ClosedTypes, AttemptsAssumption DEF ReadyType, FilesType, MarkerType, RestType
    <3> QED BY <2>3, <3>1, ClosedTypes, TypePiecesNext
  <2> QED BY <1>6, <2>2, <2>3 DEF Quits
<1>14. ASSUME NEW i \in Installers, Writes(i) PROVE UpdatesTypes'
  <2>1. /\ UNCHANGED <<alive, part, whole, final, ready, check, quiet, current, published, setup, recording, calm, tries, counted>>
        /\ doing[i].at = "write" /\ Busy(i) /\ doing' = [doing EXCEPT ![i].at = "spawn"]
        /\ marker' = [to |-> doing[i].version, attempts |-> _attempts(doing[i].version) + 1]
    BY <1>14 DEF Writes, Busy
  <2>2. DoingType' /\ doing[i].version \in Versions
    BY <1>1, <2>1, BusyTypes DEF DoingType
  <2>3. MarkerType'
    <3>1. _attempts(doing[i].version) \in Nat
      BY <1>1 DEF MarkerType, _attempts, NoMarker
    <3> QED BY <2>1, <2>2, <3>1 DEF MarkerType
  <2>4. alive
    BY <1>1, <2>1 DEF AliveType
  <2>5. ReadyType' /\ FilesType' /\ AliveType' /\ RestType'
    BY <1>1, <1>2, <2>1, <2>4 DEF ReadyType, FilesType, AliveType, RestType
  <2> QED BY <1>3, <2>1, <2>2, <2>3, <2>5, TypePiecesNext
<1>15. ASSUME MarkerAsIs \/ MarkerIsCut
       PROVE  MarkerType' /\ tries' \in [Versions -> Nat] /\ counted' \in [Versions -> Nat]
  BY <1>1, <1>15 DEF MarkerAsIs, MarkerIsCut, MarkerType, RestType
<1>16. ASSUME NEW i \in Installers, WriteFails(i) PROVE UpdatesTypes'
  <2>1. /\ UNCHANGED <<part, whole, final, ready, current, published, setup, calm>>
        /\ doing[i].at = "write" /\ Busy(i) /\ (MarkerAsIs \/ MarkerIsCut)
    BY <1>16 DEF WriteFails, Busy
  <2>2. ReadyType' /\ FilesType' /\ MarkerType' /\ tries' \in [Versions -> Nat] /\ counted' \in [Versions -> Nat]
    BY <1>1, <1>15, <2>1 DEF ReadyType, FilesType
  <2>3. CASE Closes
    <3>1. RestType'
      BY <1>1, <1>2, <2>1, <2>2, <2>3, ClosedTypes, AttemptsAssumption DEF RestType
    <3> QED BY <2>2, <2>3, <3>1, ClosedTypes, TypePiecesNext
  <2>4. CASE doing' = [doing EXCEPT ![i].at = "stuck"] /\ UNCHANGED <<alive, check, quiet, recording>>
    <3>1. DoingType' /\ alive
      BY <1>1, <2>1, <2>4, BusyTypes DEF AliveType
    <3>2. AliveType' /\ RestType'
      BY <1>1, <1>2, <2>1, <2>2, <2>4, <3>1 DEF AliveType, RestType
    <3> QED BY <1>3, <2>1, <2>2, <2>4, <3>1, <3>2, TypePiecesNext
  <2> QED BY <1>16, <2>3, <2>4 DEF WriteFails
<1>7. ASSUME NEW i \in Installers, Spawns(i) PROVE UpdatesTypes'
  <2>1. UNCHANGED <<part, whole, final, ready, marker, current, published, calm>> /\ doing[i].at = "spawn"
    BY <1>7 DEF Spawns
  <2>2. doing[i].version \in Versions /\ i # "start"
    BY <1>1, <2>1 DEF DoingType, Busy
  <2>3. ReadyType' /\ FilesType' /\ MarkerType'
    BY <1>1, <2>1 DEF ReadyType, FilesType, MarkerType
  <2>4. CASE Closes
    <3>1. setup' \in Versions \union {None}
      BY <1>1, <1>7, <2>2 DEF Spawns, RestType
    <3>3. tries' \in [Versions -> Nat] /\ counted' \in [Versions -> Nat]
      <4>1. UNCHANGED <<tries, counted>> \/ Tried(i)
        BY <1>7 DEF Spawns
      <4> DEFINE v == doing[i].version
                 n == IF i = "page" THEN 0 ELSE 1
      <4>2. v \in Versions /\ n \in Nat /\ tries \in [Versions -> Nat] /\ counted \in [Versions -> Nat]
        BY <1>1, <2>2 DEF RestType
      <4>3. Tried(i) => /\ tries' = [tries EXCEPT ![v] = @ + n]
                        /\ counted' = [counted EXCEPT ![v] = @ + n]
        BY DEF Tried
      <4> HIDE DEF n, v
      <4>4. tries[v] + n \in Nat /\ counted[v] + n \in Nat
        BY <4>2
      <4> QED BY <4>1, <4>2, <4>3, <4>4
    <3>2. RestType'
      BY <1>1, <1>2, <2>1, <2>4, <3>1, <3>3, ClosedTypes, AttemptsAssumption DEF RestType
    <3> QED BY <2>3, <2>4, <3>2, ClosedTypes, TypePiecesNext
  <2>5. CASE ~Closes
    <3>1. doing' = [doing EXCEPT ![i] = AtRest] /\ UNCHANGED <<alive, check, quiet, recording, setup, tries, counted>>
      BY <1>7, <2>5 DEF Spawns
    <3>2. DoingType' /\ AliveType'
      BY <1>1, <2>2, <3>1 DEF DoingType, AliveType, AtRest, Places, Installers, Busy
    <3>3. RestType'
      BY <1>1, <1>2, <2>1, <3>1 DEF RestType
    <3> QED BY <1>3, <2>1, <2>3, <3>1, <3>2, <3>3, TypePiecesNext
  <2> QED BY <2>4, <2>5
<1>8. CASE Forgets
  <2>1. /\ UNCHANGED <<alive, marker, check, quiet, current, published, setup, recording, calm, tries, counted>>
        /\ ready' \in {ready, NoReady} /\ doing["start"].at # "rest"
        /\ \E at \in {"rest", "files"} : doing' = [doing EXCEPT !["start"].at = at]
    BY <1>8 DEF Forgets
  <2>2. FilesType'
    BY <1>1, <1>8 DEF Forgets, Kept, FilesType
  <2>3. DoingType' /\ alive
    BY <1>1, <2>1 DEF DoingType, Places, Installers, AliveType, Busy
  <2>4. ReadyType' /\ MarkerType' /\ AliveType' /\ RestType'
    BY <1>1, <1>2, <2>1, <2>3 DEF ReadyType, MarkerType, AliveType, RestType
  <2> QED BY <1>3, <2>1, <2>2, <2>3, <2>4, TypePiecesNext
<1>9. CASE SetupEnds
  <2>1. /\ UNCHANGED <<alive, published, part, whole, final, ready, marker, check, doing, quiet, recording, calm, tries, counted>>
        /\ current' \in {current, setup} /\ setup # None /\ setup' = None
    BY <1>9 DEF SetupEnds
  <2>2. ReadyType' /\ MarkerType' /\ DoingType' /\ FilesType' /\ AliveType' /\ RestType'
    BY <1>1, <1>2, <2>1 DEF ReadyType, MarkerType, DoingType, FilesType, AliveType, RestType, Busy
  <2> QED BY <1>3, <2>1, <2>2, TypePiecesNext
<1>10. CASE Starts
  <2>1. /\ UNCHANGED <<part, whole, final, ready, check, quiet, current, published, setup, recording, calm, tries, counted>>
        /\ ~alive /\ setup = None /\ alive' = TRUE
        /\ marker' \in {marker, NoMarker}
        /\ doing' = doing \/ doing' = [doing EXCEPT !["start"].at = "unlink"]
    BY <1>10 DEF Starts
  <2>2. DoingType'
    BY <1>1, <2>1 DEF DoingType, Places, Installers, Busy
  <2>3. ReadyType' /\ MarkerType' /\ FilesType' /\ AliveType' /\ RestType'
    BY <1>1, <1>2, <2>1 DEF ReadyType, MarkerType, FilesType, AliveType, RestType
  <2> QED BY <1>3, <2>1, <2>2, <2>3, TypePiecesNext
<1>11. CASE Publishes
  <2>1. /\ UNCHANGED <<current, alive, part, whole, final, ready, marker, check, doing, quiet, setup, recording, calm, history, tries, counted>>
        /\ published < Len(history.releases) /\ published' = published + 1
    BY <1>11 DEF Publishes
  <2>2. published' \in 1 .. Len(history.releases) /\ 1 .. published \subseteq 1 .. published'
    BY <1>1, <2>1 DEF RestType, Days
  <2>3. CheckType'
    BY <1>1, <2>1, <2>2 DEF CheckType
  <2>4. ReadyType' /\ MarkerType' /\ DoingType' /\ FilesType' /\ AliveType' /\ RestType'
    BY <1>1, <2>1, <2>2 DEF ReadyType, MarkerType, DoingType, FilesType, AliveType, RestType, Busy
  <2> QED BY <2>3, <2>4, TypePiecesNext
<1>12. CASE RecordingChanges \/ RecordingEnds \/ Disturbed \/ Calms
  <2>1. /\ UNCHANGED <<current, alive, published, part, whole, final, ready, marker, check, doing, quiet, setup, tries, counted>>
        /\ recording' \in {recording, "off", "on", "paused"} /\ calm' \in BOOLEAN
    BY <1>1, <1>12 DEF RecordingChanges, RecordingEnds, Disturbed, Calms, RestType
  <2>2. ReadyType' /\ MarkerType' /\ DoingType' /\ FilesType' /\ AliveType' /\ RestType'
    BY <1>1, <1>2, <2>1 DEF ReadyType, MarkerType, DoingType, FilesType, AliveType, RestType, Busy
  <2> QED BY <1>3, <2>1, <2>2, TypePiecesNext
<1>13. CASE Dies
  <2>1. /\ Closes /\ ready' \in {ready, NoReady}
        /\ UNCHANGED <<current, published, part, whole, final, setup, calm>>
        /\ MarkerAsIs \/ MarkerIsCut
    BY <1>13 DEF Dies
  <2>2. ReadyType' /\ FilesType' /\ MarkerType' /\ RestType'
    BY <1>1, <1>15, <1>2, <2>1, ClosedTypes, AttemptsAssumption DEF ReadyType, FilesType, MarkerType, RestType
  <2> QED BY <2>1, <2>2, ClosedTypes, TypePiecesNext
<1> QED BY <1>4, <1>5, <1>6, <1>7, <1>8, <1>9, <1>10, <1>11, <1>12, <1>13, <1>14, <1>16
        DEF UpdatesNext, InstallStep

LEMMA NextUpdatesTypes ==
    ASSUME UpdatesTypes, [UpdatesNext]_updatesVars
    PROVE  UpdatesTypes'
<1>1. CASE UpdatesNext
  BY <1>1, CheckTypes, OtherTypes
<1>2. CASE UNCHANGED updatesVars
  BY <1>2 DEF updatesVars, UpdatesTypes, UpdatesTypeOK, Busy
<1> QED BY <1>1, <1>2

(***************************************************************************)
(* What counts as ready is verified.                                       *)
(***************************************************************************)
LEMMA InitReadyInv == UpdatesInit => ReadyInv
BY DEF UpdatesInit, ReadyInv, ReadyIsVerified, Resting, AtRest, Installers

\* Another version's files are none of what is ready.
LEMMA ReadyElsewhere ==
    ASSUME UpdatesTypes, ReadyInv, NEW v \in Versions, ready # NoReady => ready.version # v,
           UNCHANGED ready, \A w \in Versions : w # v => final'[w] = final[w]
    PROVE  ReadyIsVerified'
<1>1. ready # NoReady => ready.version \in Versions
  BY OffersAreNot DEF UpdatesTypes, UpdatesTypeOK, Offers
<1> QED BY <1>1 DEF ReadyInv, ReadyIsVerified

LEMMA CheckKeepsReady ==
    ASSUME UpdatesTypes, ReadyInv, CheckStep \/ CheckFails
    PROVE  ReadyInv'
<1> USE DEF Files, Counts
<1>1. UNCHANGED doing /\ doing["start"].at = "rest"
  BY DEF CheckStep, ChecksNow, Arrives, FetchesNothing, Fills, Replaces, Verifies,
         Records, Tidies, CheckFails, BreaksOff, ReplaceRefused, Started,
         ReadyInv
<1>2. /\ ReadyIsVerified /\ final \in [Versions -> SUBSET Editions] /\ ReadyType
      /\ check.at # "rest" => check.offer = NoOffer \/ check.offer \in Offers
      /\ check.at \in {"fetch", "replace", "verify", "record", "tidy"} =>
            check.offer \in Offers /\ check.offer.version \in Versions
      /\ current \in Versions /\ history \in Days /\ published \in 1 .. Len(history.releases)
  BY TypePieces, OffersAreNot DEF ReadyInv, CheckType, FilesType, RestType
<1>3. CASE ChecksNow
  <2> DEFINE offer == choose(Manifests, current)
  <2>1. CASE offer = NoOffer
    <3>1. ready' = NoReady /\ check' = [at |-> "forget", offer |-> NoOffer]
      BY <1>3, <2>1 DEF ChecksNow, Checks
    <3> QED BY <1>1, <3>1 DEF ReadyInv, ReadyIsVerified
  <2>2. CASE offer # NoOffer
    <3>1. Manifests \in SUBSET Manifest
      BY <1>2 DEF Manifests, Days
    <3>2. offer \in Offers
      BY <1>2, <2>2, <3>1, ChosenIs
    <3>3. /\ UNCHANGED <<ready, final>> /\ ~(IsReady /\ ready.version = offer.version)
          /\ \E at \in {"fetch", "verify"} : check' = [at |-> at, offer |-> offer]
      BY <1>3, <2>2 DEF ChecksNow, Checks
    <3>4. check'.at \in {"fetch", "verify"} /\ check'.offer = offer
      BY <3>3
    <3> HIDE DEF offer
    <3>5. ready.version # offer.version
      <4>1. CASE ready = NoReady
        BY <3>2, <4>1, OffersAreNot, VersionsAreNumbered
      <4>2. CASE ready # NoReady
        BY <1>2, <3>3, <4>2 DEF IsReady, ReadyIsVerified
      <4> QED BY <4>1, <4>2
    <3> QED BY <1>1, <1>2, <3>3, <3>4, <3>5 DEF ReadyInv, ReadyIsVerified
  <2> QED BY <2>1, <2>2
<1>4. CASE Arrives
  <2>1. UNCHANGED <<final, ready, check>>
    BY <1>4 DEF Arrives
  <2> QED BY <1>1, <2>1 DEF ReadyInv, ReadyIsVerified
<1>5. CASE FetchesNothing \/ CheckFails
  <2>1. UNCHANGED <<final, ready>> /\ check'.at = "rest"
    BY <1>5 DEF FetchesNothing, CheckFails, BreaksOff, ReplaceRefused, Resting
  <2> QED BY <1>1, <2>1 DEF ReadyInv, ReadyIsVerified
<1>10. CASE Fills
  <2>1. /\ check.at = "fetch" /\ UNCHANGED <<final, ready>>
        /\ check'.at = "rest" \/ check' = [at |-> "replace", offer |-> check.offer]
    BY <1>10 DEF Fills, Checks, Resting
  <2> QED BY <1>1, <2>1 DEF ReadyInv, ReadyIsVerified
<1>6. CASE Replaces
  <2> DEFINE v == check.offer.version
  <2>1. /\ check.at = "replace" /\ UNCHANGED ready
        /\ check' = [at |-> "verify", offer |-> check.offer]
        /\ final' = [final EXCEPT ![v] = part[v]]
    BY <1>6 DEF Replaces, Checks
  <2>2. v \in Versions /\ ready.version # v
    BY <1>2, <2>1 DEF ReadyInv
  <2>3. ReadyIsVerified'
    BY <1>2, <2>1, <2>2, ReadyElsewhere
  <2> QED BY <1>1, <2>1, <2>2, <2>3 DEF ReadyInv
<1>7. CASE Verifies
  <2> DEFINE v == check.offer.version
  <2>1. check.at = "verify" /\ UNCHANGED ready
    BY <1>7 DEF Verifies
  <2>2. v \in Versions /\ ready.version # v
    BY <1>2, <2>1 DEF ReadyInv
  <2>3. CASE final[v] = {check.offer.edition}
    <3>1. check' = [at |-> "record", offer |-> check.offer] /\ UNCHANGED final
      BY <1>7, <2>3 DEF Verifies, Checks
    <3> QED BY <1>1, <1>2, <2>1, <2>3, <3>1 DEF ReadyInv, ReadyIsVerified
  <2>4. CASE final[v] # {check.offer.edition}
    <3>1. check'.at = "rest" /\ final' = [final EXCEPT ![v] = {}]
      BY <1>7, <2>4 DEF Verifies, Resting
    <3>2. ReadyIsVerified'
      BY <1>2, <2>1, <2>2, <3>1, ReadyElsewhere
    <3> QED BY <1>1, <3>1, <3>2 DEF ReadyInv
  <2> QED BY <2>3, <2>4
<1>8. CASE Records
  <2>1. /\ check.at = "record" /\ ready' = check.offer
        /\ check' = [at |-> "tidy", offer |-> check.offer] /\ UNCHANGED final
    BY <1>8 DEF Records, Checks
  <2> QED BY <1>1, <2>1 DEF ReadyInv, ReadyIsVerified
<1>9. CASE Tidies
  <2>1. /\ check.at \in {"tidy", "forget"} /\ check'.at = "rest" /\ UNCHANGED ready
        /\ final' = [p \in Versions |-> IF p = check.offer.version THEN final[p] ELSE {}]
    BY <1>9 DEF Tidies, Resting, Kept
  <2>2. CASE check.at = "forget"
    BY <1>1, <2>1, <2>2 DEF ReadyInv, ReadyIsVerified
  <2>3. CASE check.at = "tidy"
    <3>1. ready = check.offer /\ ready.version \in Versions
      BY <1>2, <2>3 DEF ReadyInv
    <3>2. final'[ready.version] = final[ready.version]
      BY <2>1, <3>1
    <3>3. ReadyIsVerified'
      BY <1>2, <2>1, <3>2 DEF ReadyIsVerified
    <3> QED BY <1>1, <2>1, <3>3 DEF ReadyInv
  <2> QED BY <2>1, <2>2, <2>3
<1> QED BY <1>3, <1>4, <1>5, <1>6, <1>7, <1>8, <1>9, <1>10 DEF CheckStep

LEMMA OtherKeepsReady ==
    ASSUME UpdatesTypes, ReadyInv, UpdatesNext, ~CheckStep, ~CheckFails
    PROVE  ReadyInv'
<1> USE DEF Files, Outside, Moment, Counts
<1>1. CASE Forgets
  <2>1. doing["start"].at \in {"unlink", "files"} /\ UNCHANGED check /\ check.at = "rest"
    BY <1>1 DEF Forgets, ReadyInv
  <2>2. doing \in [Installers -> Places] /\ "start" \in Installers
    BY TypePieces DEF DoingType, Installers
  <2>3. ready' = NoReady
    BY <1>1 DEF Forgets, ReadyInv
  <2> QED BY <2>1, <2>2, <2>3 DEF ReadyInv, ReadyIsVerified
<1>2. CASE Starts
  <2>1. check.at = "rest" /\ doing["start"].at = "rest" /\ UNCHANGED <<check, final, ready>>
    BY <1>2, TypePieces DEF Starts, AliveType, Installers
  <2>2. doing'["start"].at \in {"rest", "unlink"}
    BY <1>2, <2>1, TypePieces DEF Starts, DoingType, Installers, Places
  <2> QED BY <2>1, <2>2 DEF ReadyInv, ReadyIsVerified
<1>3. CASE Dies
  <2>1. /\ check'.at = "rest" /\ doing'["start"].at = "rest"
        /\ ready' \in {ready, NoReady} /\ UNCHANGED final
    BY <1>3, ClosedTypes DEF Dies, AtRest, Installers
  <2> QED BY <2>1 DEF ReadyInv, ReadyIsVerified
<1>4. ASSUME Closes, UNCHANGED <<ready, final>> PROVE ReadyInv'
  BY <1>4, ClosedTypes DEF ReadyInv, ReadyIsVerified, AtRest, Installers
<1>5. ASSUME UNCHANGED <<ready, final, check>>, doing'["start"] = doing["start"] PROVE ReadyInv'
  BY <1>5 DEF ReadyInv, ReadyIsVerified
<1>6. ASSUME NEW i \in {"tick", "page", "quit"}, Begins(i) PROVE doing'["start"] = doing["start"]
  BY <1>6, TypePieces DEF Begins, DoingType, Installers
<1>7. CASE Ticks \/ InstallPressed
  BY <1>5, <1>6, <1>7 DEF Ticks, InstallPressed
<1>8. CASE Quits
  BY <1>4, <1>5, <1>6, <1>8 DEF Quits
<1>9. CASE \E i \in Installers : Spawns(i)
  <2>1. PICK i \in Installers : Spawns(i)
    BY <1>9
  <2>2. UNCHANGED <<ready, final>> /\ i # "start"
    BY <2>1, TypePieces DEF Spawns, DoingType
  <2>3. CASE ~Closes
    <3>1. doing' = [doing EXCEPT ![i] = AtRest] /\ UNCHANGED check
      BY <2>1, <2>3 DEF Spawns
    <3> QED BY <1>5, <2>2, <3>1, TypePieces DEF DoingType, Installers
  <2> QED BY <1>4, <2>2, <2>3
<1>10. CASE SetupEnds \/ Publishes \/ RecordingChanges \/ RecordingEnds \/ Disturbed \/ Calms
  BY <1>5, <1>10 DEF SetupEnds, Publishes, RecordingChanges, RecordingEnds, Disturbed, Calms
<1>11. CASE \E i \in Installers : Writes(i) \/ WriteFails(i)
  <2>1. PICK i \in Installers : Writes(i) \/ WriteFails(i)
    BY <1>11
  <2>2. UNCHANGED <<ready, final>> /\ i # "start"
    BY <2>1, TypePieces DEF Writes, WriteFails, DoingType
  <2>3. CASE ~Closes
    <3>1. (\E at \in {"spawn", "stuck"} : doing' = [doing EXCEPT ![i].at = at]) /\ UNCHANGED check
      BY <2>1, <2>3 DEF Writes, WriteFails
    <3> QED BY <1>5, <2>2, <3>1, TypePieces DEF DoingType, Installers
  <2> QED BY <1>4, <2>2, <2>3
<1> QED BY <1>1, <1>2, <1>3, <1>7, <1>8, <1>9, <1>10, <1>11 DEF UpdatesNext, InstallStep

LEMMA NextReadyInv ==
    ASSUME UpdatesTypes, ReadyInv, [UpdatesNext]_updatesVars
    PROVE  ReadyInv'
<1>1. CASE UNCHANGED updatesVars
  BY <1>1 DEF updatesVars, ReadyInv, ReadyIsVerified
<1> QED BY <1>1, CheckKeepsReady, OtherKeepsReady

\* service.py: an installer counts as ready only while the file is what its manifest told
\* of, in size, hash and signer: no resumed part, new build, refused file, crash or start
\* after an update leaves one that is not.
THEOREM ReadyAlwaysVerified == UpdatesSpec => []ReadyIsVerified
<1>1. UpdatesInit => UpdatesTypes /\ ReadyInv
  BY InitUpdatesTypes, InitReadyInv
<1>2. UpdatesTypes /\ ReadyInv /\ [UpdatesNext]_updatesVars => UpdatesTypes' /\ ReadyInv'
  BY NextUpdatesTypes, NextReadyInv
<1>3. ReadyInv => ReadyIsVerified
  BY DEF ReadyInv
<1> QED BY <1>1, <1>2, <1>3, PTL DEF UpdatesSpec

\* Every variable keeps its type.
THEOREM UpdatesTypeCorrect == UpdatesSpec => []UpdatesTypeOK
<1>1. UpdatesInit => UpdatesTypes
  BY InitUpdatesTypes
<1>2. UpdatesTypes /\ [UpdatesNext]_updatesVars => UpdatesTypes'
  BY NextUpdatesTypes
<1>3. UpdatesTypes => UpdatesTypeOK
  BY DEF UpdatesTypes
<1> QED BY <1>1, <1>2, <1>3, PTL DEF UpdatesSpec

(***************************************************************************)
(* Where the offers go forward: tries and versions.                          *)
(***************************************************************************)
\* What has been reached stays so, whatever is published.
LEMMA ReachedLasts ==
    ASSUME UpdatesTypes, [UpdatesNext]_updatesVars
    PROVE  /\ history'.releases = history.releases
           /\ \A v : Reached(v) => Reached(v)'
<1>1. history'.releases = history.releases /\ published \in Nat
  BY TypePieces, HistoryStep DEF RestType
<1>2. published' \in Nat /\ published <= published'
  <2>1. published' = published \/ published' = published + 1
    BY DEF UpdatesNext, updatesVars, CheckStep, InstallStep, ChecksNow, Arrives, FetchesNothing, Fills,
           Replaces, Verifies, Records, Tidies, CheckFails, BreaksOff, ReplaceRefused,
           Ticks, Forgets, Writes, WriteFails, MarkerAsIs, MarkerIsCut, Spawns, Tried, InstallPressed, Quits, SetupEnds,
           Starts, Publishes, RecordingChanges, RecordingEnds, Disturbed, Calms, Dies, Outside
  <2> QED BY <1>1, <2>1
<1>3. DOMAIN history.releases \subseteq Nat
  BY TypePieces DEF RestType, Days
<1> QED BY <1>1, <1>2, <1>3 DEF Reached, OfferIn

LEMMA InitForwardInv ==
    ASSUME UpdatesInit, GoesForward(history.releases)
    PROVE  ForwardInv /\ TriesInv
<1>1. ForwardInv
  BY DEF UpdatesInit, ForwardInv, Resting, AtRest, Installers
<1>2. \A v \in Versions : counted[v] + Begun(v) = 0
  BY DEF UpdatesInit, Begun, AtRest, Installers
<1>3. \A i \in Installers : doing[i].at = "rest"
  BY DEF UpdatesInit, AtRest
<1> QED BY <1>1, <1>2, <1>3 DEF TriesInv, Installers

\* The numbers that are compared.
LEMMA ForwardTypes ==
    ASSUME UpdatesTypes
    PROVE  /\ Versions \subseteq Nat /\ current \in Nat
           /\ ready # NoReady => ready.version \in Versions
           /\ marker # NoMarker => marker.to \in Versions /\ marker.attempts \in Nat \ {0}
           /\ check.at \in {"fetch", "replace", "verify", "record", "tidy"} => check.offer.version \in Versions
           /\ setup # None => setup \in Versions
           /\ counted \in [Versions -> Nat] /\ \A v : Begun(v) \in {0, 1}
           /\ NoMarker.to = None /\ None \notin Versions
BY TypePieces, OffersAreNot, VersionsAreNumbered
DEF ReadyType, MarkerType, CheckType, RestType, Begun, NoMarker

\* What is offered now has been reached, and everything offered before is not newer.
LEMMA OfferedReaches ==
    ASSUME UpdatesTypes, GoesForward(history.releases), choose(Manifests, current) # NoOffer
    PROVE  /\ Reached(choose(Manifests, current).version)
           /\ choose(Manifests, current) \in Offers
           /\ current < choose(Manifests, current).version
           /\ \A v : Reached(v) => v <= choose(Manifests, current).version
<1>1. /\ current \in Versions /\ published \in DOMAIN history.releases
      /\ history.releases \in Seq(SUBSET Manifest) /\ published \in Nat
  BY TypePieces DEF RestType, Days
<1>2. Manifests \in SUBSET Manifest /\ OfferIn(history.releases, current, published) = choose(Manifests, current)
  BY <1>1 DEF Manifests, OfferIn
<1>3. choose(Manifests, current) \in Offers /\ current < choose(Manifests, current).version
  BY <1>1, <1>2, ChosenIs
<1>4. Reached(choose(Manifests, current).version)
  <2> SUFFICES ASSUME NEW n \in DOMAIN history.releases, NEW c \in Versions, n >= published,
                      OfferIn(history.releases, c, n) # NoOffer
               PROVE  choose(Manifests, current).version <= OfferIn(history.releases, c, n).version
    BY DEF Reached
  <2>1. published <= n
    BY <1>1
  <2> QED BY <1>1, <1>2, <2>1 DEF GoesForward
<1>5. \A v : Reached(v) => v <= choose(Manifests, current).version
  BY <1>1, <1>2 DEF Reached
<1> QED BY <1>3, <1>4, <1>5

\* The steps that touch neither what is ready, nor the marker, nor who installs.
LEMMA ForwardAsIs ==
    ASSUME UpdatesTypes, ForwardInv, TriesInv, [UpdatesNext]_updatesVars,
           UNCHANGED <<current, marker, doing, setup, counted>>,
           ready' \in {ready, NoReady},
           check'.at \in {"fetch", "replace", "verify", "record"} => UNCHANGED <<ready, check>>
              \/ (check.at \in {"fetch", "replace", "verify"} /\ check'.offer = check.offer /\ UNCHANGED ready)
    PROVE  ForwardInv' /\ TriesInv'
<1>1. ForwardInv'
  BY ReachedLasts DEF ForwardInv
<1>2. \A v : Begun(v)' = Begun(v) /\ _attempts(v)' = _attempts(v)
  BY DEF Begun, _attempts
<1> QED BY <1>1, <1>2 DEF TriesInv

LEMMA CheckGoesForward ==
    ASSUME UpdatesTypes, ForwardInv, TriesInv, CheckStep \/ CheckFails
    PROVE  ForwardInv' /\ TriesInv'
<1> USE DEF Outside, Moment, Files, Counts
<1>1. UpdatesNext
  BY DEF UpdatesNext
<1>2. UNCHANGED <<current, marker, doing, setup, counted>>
  BY DEF CheckStep, ChecksNow, Arrives, FetchesNothing, Fills, Replaces, Verifies,
         Records, Tidies, CheckFails, BreaksOff, ReplaceRefused
<1>3. CASE ChecksNow
  <2> DEFINE offer == choose(Manifests, current)
  <2>1. CASE offer = NoOffer
    BY <1>1, <1>2, <1>3, <2>1, ForwardAsIs DEF ChecksNow, Checks
  <2>2. CASE offer # NoOffer
    <3>1. Reached(offer.version) /\ current < offer.version /\ \A v : Reached(v) => v <= offer.version
      BY <2>2, OfferedReaches DEF ForwardInv
    <3>2. UNCHANGED ready /\ check'.offer = offer
      BY <1>3, <2>2 DEF ChecksNow, Checks
    <3>3. offer.version \in Versions
      BY <2>2, OfferedReaches, OffersAreNot DEF ForwardInv
    <3> HIDE DEF offer
    <3>4. ForwardInv'
      BY <1>1, <1>2, <3>1, <3>2, <3>3, ReachedLasts, ForwardTypes DEF ForwardInv
    <3>5. \A v : Begun(v)' = Begun(v) /\ _attempts(v)' = _attempts(v)
      BY <1>2 DEF Begun, _attempts
    <3> QED BY <1>2, <3>4, <3>5 DEF TriesInv
  <2> QED BY <2>1, <2>2
<1>4. CASE Records
  <2>1. check.at = "record" /\ ready' = check.offer /\ check'.at = "tidy"
    BY <1>4 DEF Records, Checks
  <2>2. ForwardInv'
    BY <1>1, <1>2, <2>1, ReachedLasts DEF ForwardInv
  <2>3. \A v : Begun(v)' = Begun(v) /\ _attempts(v)' = _attempts(v)
    BY <1>2 DEF Begun, _attempts
  <2> QED BY <1>2, <2>2, <2>3 DEF TriesInv
<1>5. CASE Arrives \/ FetchesNothing \/ CheckFails \/ Fills \/ Replaces \/ Verifies \/ Tidies
  <2> USE DEF CheckFails
  <2>1. UNCHANGED ready
    BY <1>5 DEF Arrives, FetchesNothing, BreaksOff, ReplaceRefused, Fills, Replaces, Verifies, Tidies
  <2>2. \/ UNCHANGED check \/ check'.at = "rest"
        \/ check.at \in {"fetch", "replace", "verify"} /\ check'.offer = check.offer
    BY <1>5 DEF Arrives, FetchesNothing, BreaksOff, ReplaceRefused, Fills, Replaces, Verifies, Tidies,
                Checks, Resting
  <2> QED BY <1>1, <1>2, <2>1, <2>2, ForwardAsIs
<1> QED BY <1>3, <1>4, <1>5 DEF CheckStep

\* What is ready is begun: it has been reached, and not tried too often.
LEMMA BeginsForward ==
    ASSUME UpdatesTypes, ForwardInv, TriesInv, UpdatesNext, alive, ready # NoReady,
           NEW i \in {"tick", "page", "quit"}, Begins(i),
           i # "page" => _attempts(ready.version) < MAX_ATTEMPTS,
           UNCHANGED <<current, marker, ready, check, setup, counted>>
    PROVE  ForwardInv' /\ TriesInv'
<1>1. CASE Installing
  BY <1>1, ForwardAsIs DEF Begins
<1>2. CASE ~Installing
  <2> DEFINE v == ready.version
  <2>1. /\ doing'[i] = [at |-> "write", version |-> v]
        /\ \A j \in Installers : j # i => doing'[j] = doing[j] /\ ~Busy(j)
    BY <1>2, TypePieces DEF Begins, DoingType, Installing, Installers
  <2>2. v \in Nat /\ Reached(v) /\ current <= v
    BY ForwardTypes DEF ForwardInv
  <2>3. ForwardInv'
    BY <2>1, <2>2, ReachedLasts DEF ForwardInv, Busy
  <2>4. \A u : Begun(u) = 0 /\ Begun(u)' = 0 /\ _attempts(u)' = _attempts(u)
    BY <1>2, <2>1 DEF Begun, Installing, Busy, Installers, _attempts
  <2>5. \A j \in {"tick", "quit"} : doing'[j].at = "write" => j = i /\ doing'[j].version = v
    BY <2>1 DEF Busy, Installers
  <2> QED BY <2>3, <2>4, <2>5 DEF TriesInv
<1> QED BY <1>1, <1>2

\* The marker counts what is begun as tried, one time more.
LEMMA WritesForward ==
    ASSUME UpdatesTypes, ForwardInv, TriesInv, UpdatesNext, NEW i \in Installers, Writes(i)
    PROVE  ForwardInv' /\ TriesInv'
<1> USE DEF Outside, Moment, Files, Counts
<1>0. PICK v : v = doing[i].version
  OBVIOUS
<1>1. /\ UNCHANGED <<current, ready, check, setup, counted>> /\ doing[i].at = "write" /\ Busy(i)
      /\ marker' = [to |-> v, attempts |-> _attempts(v) + 1]
      /\ doing' = [doing EXCEPT ![i].at = "spawn"]
  BY <1>0 DEF Writes, Busy
<1>2. /\ v \in Versions /\ v \in Nat /\ _attempts(v) \in Nat /\ setup = None
      /\ i \in {"tick", "page", "quit"}
      /\ i # "page" => _attempts(v) < MAX_ATTEMPTS
  BY <1>0, <1>1, ForwardTypes, TypePieces DEF _attempts, AliveType, DoingType, Installers, TriesInv
<1>3. /\ doing'[i] = [at |-> "spawn", version |-> v]
      /\ \A j \in Installers : j # i => doing'[j] = doing[j] /\ ~Busy(j)
  <2>1. doing \in [Installers -> Places] /\ \A j \in Installers : Busy(j) => j = i
    BY <1>1, TypePieces DEF DoingType
  <2>2. doing'[i].at = "spawn" /\ doing'[i].version = v /\ doing'[i] \in Places
    BY <1>0, <1>1, <2>1 DEF Places
  <2> QED BY <1>0, <1>1, <2>1, <2>2 DEF Places
<1>4. marker'.to = v /\ marker'.attempts = _attempts(v) + 1 /\ marker' # NoMarker
  BY <1>1, <1>2, ForwardTypes DEF NoMarker
<1>5. marker # NoMarker => marker.to <= v
  BY <1>0, <1>1 DEF ForwardInv
<1>6. ForwardInv'
  BY <1>0, <1>1, <1>2, <1>3, <1>4, ReachedLasts, ForwardTypes DEF ForwardInv, Busy
<1>7. /\ \A u : Begun(u) = 0
      /\ \A u : u # v => Begun(u)' = 0
      /\ Begun(v)' = IF i = "page" THEN 0 ELSE 1
  BY <1>1, <1>2, <1>3 DEF Begun, Busy, Installers
<1>8. ASSUME NEW u \in Versions, u > current, counted[u] + Begun(u)' > 0
      PROVE  /\ counted[u] + Begun(u)' <= MAX_ATTEMPTS /\ u <= v
             /\ u = v => counted[u] + Begun(u)' <= _attempts(v) + 1
  <2>1. counted[u] \in Nat /\ u \in Nat /\ v \in Nat /\ current \in Nat
    BY <1>2, ForwardTypes
  <2>2. counted[u] > 0 =>
           /\ counted[u] <= MAX_ATTEMPTS /\ marker # NoMarker /\ u <= marker.to
           /\ u = marker.to => counted[u] <= marker.attempts
    BY <1>7, <1>8, <2>1 DEF TriesInv
  <2>3. CASE u # v
    <3>1. counted[u] > 0
      BY <1>7, <1>8, <2>1, <2>3
    <3>2. marker # NoMarker /\ u <= marker.to /\ marker.to \in Nat /\ marker.to <= v
      BY <1>5, <2>2, <3>1, ForwardTypes
    <3>3. Begun(u)' = 0
      BY <1>7, <2>3
    <3> QED BY <2>1, <2>2, <2>3, <3>1, <3>2, <3>3
  <2>4. CASE u = v /\ counted[v] = 0
    <3>1. i # "page" /\ Begun(v)' = 1
      BY <1>7, <1>8, <2>4
    <3> QED BY <1>2, <2>1, <2>4, <3>1, AttemptsAssumption
  <2>5. CASE u = v /\ counted[v] > 0
    <3>0. marker # NoMarker /\ v <= marker.to /\ marker.to \in Nat /\ marker.to <= v
      BY <1>5, <2>2, <2>5, ForwardTypes
    <3>1. marker.to = v /\ marker # NoMarker
      BY <2>1, <2>5, <3>0
    <3>2. counted[v] <= _attempts(v) /\ counted[v] <= MAX_ATTEMPTS
      BY <2>2, <2>5, <3>1 DEF _attempts
    <3> QED BY <1>2, <1>7, <2>1, <2>5, <3>2, AttemptsAssumption
  <2> QED BY <2>1, <2>3, <2>4, <2>5
<1>9. TriesInv'
  <2>1. \A j \in {"tick", "quit"} : doing'[j].at # "write"
    BY <1>3 DEF Busy, Installers
  <2> QED BY <1>1, <1>4, <1>8, <2>1 DEF TriesInv
<1> QED BY <1>6, <1>9

\* Fewer tries, or a newer copy, keep the tries in their bounds.
LEMMA FewerTries ==
    ASSUME UpdatesTypes, TriesInv, UNCHANGED marker, current' \in Nat, current <= current',
           counted' \in [Versions -> Nat],
           \A v \in Versions : counted'[v] + Begun(v)' <= counted[v] + Begun(v),
           \A i \in {"tick", "quit"} : doing'[i].at = "write" => doing'[i] = doing[i]
    PROVE  TriesInv'
<1>0. \A i \in {"tick", "quit"} :
         (doing[i].at = "write" => _attempts(doing[i].version) < MAX_ATTEMPTS)'
  <2>1. \A v : _attempts(v)' = _attempts(v)
    BY DEF _attempts
  <2> QED BY <2>1 DEF TriesInv
<1> SUFFICES ASSUME NEW v \in Versions, v > current', counted'[v] + Begun(v)' > 0
             PROVE  /\ counted'[v] + Begun(v)' <= MAX_ATTEMPTS
                    /\ marker # NoMarker /\ v <= marker.to
                    /\ v = marker.to => counted'[v] + Begun(v)' <= marker.attempts
  BY <1>0 DEF TriesInv
<1>1. /\ v \in Nat /\ current \in Nat /\ counted[v] \in Nat /\ Begun(v) \in Nat
      /\ counted'[v] \in Nat /\ Begun(v)' \in Nat
      /\ marker # NoMarker => marker.attempts \in Nat
  BY ForwardTypes DEF Begun
<1>2. counted'[v] + Begun(v)' <= counted[v] + Begun(v)
  OBVIOUS
<1>3. v > current /\ counted[v] + Begun(v) > 0
  BY <1>1, <1>2
<1>4. /\ counted[v] + Begun(v) <= MAX_ATTEMPTS
      /\ marker # NoMarker /\ v <= marker.to
      /\ v = marker.to => counted[v] + Begun(v) <= marker.attempts
  BY <1>3 DEF TriesInv
<1> QED BY <1>1, <1>2, <1>4, AttemptsAssumption

\* A marker that is cut short counts nothing, while nothing is installed by it.
LEMMA CutForward ==
    ASSUME UpdatesTypes, ForwardInv, TriesInv, UpdatesNext, alive, MarkerIsCut,
           UNCHANGED <<current, setup>>, ready' \in {ready, NoReady},
           check'.at = "rest" \/ UNCHANGED <<check, ready>>,
           \A i \in Installers : doing'[i].at \notin {"write", "spawn"}
    PROVE  ForwardInv' /\ TriesInv'
<1>1. marker' = NoMarker /\ setup' = None
  BY TypePieces DEF MarkerIsCut, AliveType
<1>2. ForwardInv'
  BY <1>1, ReachedLasts DEF ForwardInv
<1>3. \A v \in Versions : counted'[v] + Begun(v)' = 0
  BY DEF MarkerIsCut, Begun, Installers
<1> QED BY <1>2, <1>3 DEF TriesInv, Installers

\* The end of the process leaves what is ready, and its marker or none.
LEMMA ClosesForward ==
    ASSUME UpdatesTypes, ForwardInv, TriesInv, UpdatesNext, alive, Closes,
           MarkerAsIs \/ MarkerIsCut, UNCHANGED <<current, setup>>, ready' \in {ready, NoReady}
    PROVE  ForwardInv' /\ TriesInv'
<1>1. check'.at = "rest" /\ \A i \in Installers : doing'[i].at = "rest"
  BY DEF Closes, Resting, AtRest
<1>2. CASE MarkerIsCut
  BY <1>1, <1>2, CutForward
<1>3. CASE MarkerAsIs
  <2>1. UNCHANGED <<marker, counted>>
    BY <1>3 DEF MarkerAsIs, Counts
  <2>2. ForwardInv'
    BY <1>1, <2>1, ReachedLasts DEF ForwardInv
  <2>3. \A v : Begun(v)' = 0
    BY <1>1 DEF Begun, Installers
  <2>4. \A v \in Versions : counted'[v] + Begun(v)' <= counted[v] + Begun(v)
    BY <2>1, <2>3, ForwardTypes
  <2>5. current' \in Nat /\ current <= current' /\ counted' \in [Versions -> Nat]
    BY <2>1, ForwardTypes
  <2>6. \A i \in {"tick", "quit"} : doing'[i].at # "write"
    BY <1>1 DEF Installers
  <2> QED BY <2>1, <2>2, <2>4, <2>5, <2>6, FewerTries
<1> QED BY <1>2, <1>3

LEMMA InstallGoesForward ==
    ASSUME UpdatesTypes, ForwardInv, TriesInv, UpdatesNext, Ticks \/ InstallPressed \/ Quits
    PROVE  ForwardInv' /\ TriesInv'
<1> USE DEF Outside, Moment, Files, Counts
<1>1. CASE Ticks
  <2>1. alive /\ UNCHANGED <<current, marker, ready, check, setup, counted>>
    BY <1>1 DEF Ticks, Started
  <2>2. CASE UNCHANGED doing
    BY <2>1, <2>2, ForwardAsIs
  <2>3. CASE Retryable /\ Begins("tick")
    BY <2>1, <2>3, BeginsForward DEF Retryable, IsReady
  <2> QED BY <1>1, <2>2, <2>3 DEF Ticks
<1>2. CASE InstallPressed
  BY <1>2, BeginsForward DEF InstallPressed, IsReady
<1>3. CASE Quits
  <2>1. alive /\ UNCHANGED <<current, marker, ready, setup, tries, counted>>
    BY <1>3 DEF Quits, Started
  <2>2. CASE Retryable /\ Begins("quit") /\ UNCHANGED check
    BY <2>1, <2>2, BeginsForward DEF Retryable, IsReady
  <2>3. CASE Closes
    BY <2>1, <2>3, ClosesForward DEF MarkerAsIs
  <2> QED BY <1>3, <2>2, <2>3 DEF Quits
<1> QED BY <1>1, <1>2, <1>3

LEMMA WriteFailsForward ==
    ASSUME UpdatesTypes, ForwardInv, TriesInv, UpdatesNext, NEW i \in Installers, WriteFails(i)
    PROVE  ForwardInv' /\ TriesInv'
<1>1. /\ UNCHANGED <<current, ready, setup>> /\ doing[i].at = "write" /\ Busy(i)
      /\ MarkerAsIs \/ MarkerIsCut
  BY DEF WriteFails, Busy
<1>2. alive /\ doing \in [Installers -> Places] /\ \A j \in Installers : Busy(j) => j = i
  BY <1>1, TypePieces DEF AliveType, DoingType
<1>3. CASE Closes
  BY <1>1, <1>2, <1>3, ClosesForward
<1>4. CASE doing' = [doing EXCEPT ![i].at = "stuck"] /\ UNCHANGED check
  <2>1. /\ doing'[i].at = "stuck"
        /\ \A j \in Installers : j # i => doing'[j] = doing[j]
    BY <1>2, <1>4 DEF Places
  <2>2. \A j \in Installers : doing'[j].at \notin {"write", "spawn"}
    BY <1>2, <2>1 DEF Busy
  <2>3. CASE MarkerIsCut
    BY <1>1, <1>2, <1>4, <2>2, <2>3, CutForward
  <2>4. CASE MarkerAsIs
    <3>1. UNCHANGED <<marker, counted>>
      BY <2>4 DEF MarkerAsIs, Counts
    <3>2. ForwardInv'
      BY <1>1, <1>4, <2>2, <3>1, ReachedLasts DEF ForwardInv
    <3>3. \A v : Begun(v) = 0 /\ Begun(v)' = 0
      BY <1>1, <1>2, <2>2 DEF Begun, Busy, Installers
    <3> QED BY <1>1, <2>2, <3>1, <3>2, <3>3 DEF TriesInv, Installers
  <2> QED BY <1>1, <2>3, <2>4
<1> QED BY <1>3, <1>4 DEF WriteFails

LEMMA SpawnGoesForward ==
    ASSUME UpdatesTypes, ForwardInv, TriesInv, UpdatesNext, NEW i \in Installers, Spawns(i)
    PROVE  ForwardInv' /\ TriesInv'
<1> DEFINE v == doing[i].version
<1> USE DEF Files, Counts
<1>1. /\ doing[i].at = "spawn" /\ i \in {"tick", "page", "quit"} /\ v \in Versions
      /\ UNCHANGED <<ready, marker, current>> /\ v = marker.to /\ current <= v
      /\ doing \in [Installers -> Places] /\ check.at \in {"rest", "fetch", "replace", "verify", "record", "tidy", "forget"}
  BY TypePieces DEF Spawns, DoingType, CheckType, Installers, ForwardInv, Busy
<1>2. CASE /\ Closes /\ setup' = v
           /\ Tried(i)
  <2> DEFINE n == IF i = "page" THEN 0 ELSE 1
  <2>0. counted' = [counted EXCEPT ![v] = @ + n] /\ n \in {0, 1}
    BY <1>2 DEF Tried
  <2>1. check'.at = "rest" /\ \A j \in Installers : doing'[j].at = "rest"
    BY <1>2 DEF Closes, Resting, AtRest
  <2>2. ForwardInv'
    BY <1>1, <1>2, <2>1, ReachedLasts DEF ForwardInv
  <2>3. (\A w : Begun(w)' = 0) /\ (i # "page" => Begun(v) = 1)
    BY <1>1, <2>1 DEF Begun, Installers
  <2>4. counted' \in [Versions -> Nat]
    <3>1. counted \in [Versions -> Nat] /\ counted[v] \in Nat
      BY <1>1, ForwardTypes
    <3>2. counted[v] + n \in Nat
      BY <3>1
    <3> HIDE DEF n
    <3> QED BY <2>0, <3>1, <3>2
  <2>5. ASSUME NEW w \in Versions PROVE counted'[w] + Begun(w)' <= counted[w] + Begun(w)
    <3>1. counted[w] \in Nat /\ Begun(w) \in {0, 1} /\ counted \in [Versions -> Nat]
      BY ForwardTypes
    <3>2. CASE w = v /\ i # "page"
      <4>1. counted'[w] = counted[w] + 1
        BY <2>0, <3>1, <3>2
      <4> QED BY <2>3, <3>1, <3>2, <4>1
    <3>3. CASE w # v \/ i = "page"
      <4>1. counted'[w] = counted[w]
        BY <2>0, <3>1, <3>3
      <4> QED BY <2>3, <3>1, <4>1
    <3> QED BY <3>2, <3>3
  <2>6. TriesInv'
    BY <1>1, <2>1, <2>4, <2>5, FewerTries, ForwardTypes DEF Installers
  <2> QED BY <2>2, <2>6
<1>3. CASE Closes /\ UNCHANGED <<setup, tries, counted>>
  <2>1. alive
    BY <1>1, TypePieces DEF AliveType, Installers
  <2> QED BY <1>1, <1>3, <2>1, ClosesForward DEF MarkerAsIs
<1>4. CASE /\ doing' = [doing EXCEPT ![i] = AtRest]
           /\ UNCHANGED <<setup, counted, check>>
  <2>1. /\ doing'[i].at = "rest"
        /\ \A j \in Installers : j # i => doing'[j] = doing[j]
    BY <1>1, <1>4 DEF AtRest
  <2>2. ForwardInv'
    BY <1>1, <1>4, <2>1, ReachedLasts DEF ForwardInv
  <2>3. \A w : Begun(w)' <= Begun(w)
    BY <2>1 DEF Begun, Installers
  <2>4. \A w \in Versions : counted'[w] + Begun(w)' <= counted[w] + Begun(w)
    <3> SUFFICES ASSUME NEW w \in Versions PROVE counted'[w] + Begun(w)' <= counted[w] + Begun(w)
      OBVIOUS
    <3>1. Begun(w) \in {0, 1} /\ Begun(w)' \in {0, 1} /\ Begun(w)' <= Begun(w)
      BY <2>3 DEF Begun
    <3> QED BY <1>4, <3>1, ForwardTypes
  <2>5. TriesInv'
    BY <1>1, <1>4, <2>1, <2>4, FewerTries, ForwardTypes DEF Installers
  <2> QED BY <2>2, <2>5
<1> QED BY <1>2, <1>3, <1>4 DEF Spawns

LEMMA StartGoesForward ==
    ASSUME UpdatesTypes, ForwardInv, TriesInv, UpdatesNext, SetupEnds \/ Starts \/ Forgets
    PROVE  ForwardInv' /\ TriesInv'
<1> USE DEF Outside, Moment, Files, Counts
<1>1. doing \in [Installers -> Places]
  BY TypePieces DEF DoingType
<1>2. CASE SetupEnds
  <2>1. /\ UNCHANGED <<ready, marker, check, doing, counted>>
        /\ setup # None /\ setup' = None /\ current' \in {current, setup}
        /\ check.at = "rest" /\ \A i \in Installers : doing[i].at = "rest"
    BY <1>2, TypePieces DEF SetupEnds, AliveType
  <2>2. marker # NoMarker /\ setup = marker.to /\ current <= setup
    BY <2>1, ForwardTypes DEF ForwardInv
  <2>3. current' \in Nat /\ current <= current' /\ current' <= marker.to
    BY <2>1, <2>2, ForwardTypes
  <2>4. ready # NoReady => current' <= ready.version
    BY <2>2, <2>3, ForwardTypes DEF ForwardInv
  <2>5. ForwardInv'
    BY <2>1, <2>2, <2>4, ReachedLasts DEF ForwardInv
  <2>6. \A v : Begun(v)' = Begun(v) /\ Begun(v) \in {0, 1}
    BY <2>1 DEF Begun
  <2>7. \A v \in Versions : counted'[v] + Begun(v)' <= counted[v] + Begun(v)
    BY <2>1, <2>6, ForwardTypes
  <2>8. TriesInv'
    BY <2>1, <2>3, <2>7, FewerTries, ForwardTypes DEF Installers
  <2> QED BY <2>5, <2>8
<1>3. CASE Starts
  <2>1. /\ UNCHANGED <<current, ready, check, setup, counted>> /\ ~alive /\ setup = None
        /\ check.at = "rest" /\ \A i \in Installers : doing[i].at = "rest"
    BY <1>3, TypePieces DEF Starts, AliveType
  <2>2. CASE marker.to = current
    <3>1. /\ marker' = NoMarker /\ \A i \in Installers : doing'[i].at \notin {"write", "spawn"}
      <4>1. marker' = NoMarker /\ doing' = [doing EXCEPT !["start"].at = "unlink"]
        BY <1>3, <2>2 DEF Starts
      <4>2. doing'["start"].at = "unlink"
        BY <1>1, <4>1 DEF Installers, Places
      <4>3. \A i \in Installers \ {"start"} : doing'[i] = doing[i]
        BY <1>1, <4>1
      <4> QED BY <2>1, <4>1, <4>2, <4>3
    <3>2. ForwardInv'
      BY <2>1, <3>1, ReachedLasts DEF ForwardInv
    <3>3. \A v : Begun(v) = 0 /\ Begun(v)' = 0
      BY <2>1, <3>1 DEF Begun, Installers
    <3>4. ASSUME NEW v \in Versions, v > current', counted'[v] + Begun(v)' > 0 PROVE FALSE
      <4>1. v > current /\ counted[v] + Begun(v) > 0
        BY <2>1, <3>3, <3>4
      <4>2. v <= marker.to
        BY <4>1 DEF TriesInv
      <4> QED BY <2>2, <4>1, <4>2, ForwardTypes
    <3> QED BY <3>1, <3>2, <3>4 DEF TriesInv, Installers
  <2>3. CASE marker.to # current
    BY <1>3, <2>1, <2>3, ForwardAsIs DEF Starts
  <2> QED BY <2>2, <2>3
<1>4. CASE Forgets
  <2>1. /\ UNCHANGED <<current, marker, check, setup, counted>> /\ ready' \in {ready, NoReady}
        /\ doing["start"].at \in {"unlink", "files"}
        /\ doing'["start"].at \in {"files", "rest"}
        /\ \A i \in Installers \ {"start"} : doing'[i] = doing[i]
    <3>1. /\ UNCHANGED <<current, marker, check, setup, counted>> /\ ready' \in {ready, NoReady}
          /\ doing["start"].at \in {"unlink", "files"}
          /\ \E at \in {"files", "rest"} : doing' = [doing EXCEPT !["start"].at = at]
      BY <1>4 DEF Forgets
    <3>2. PICK at \in {"files", "rest"} : doing' = [doing EXCEPT !["start"].at = at]
      BY <3>1
    <3>3. doing'["start"].at = at
      BY <1>1, <3>2 DEF Installers, Places
    <3>4. \A i \in Installers \ {"start"} : doing'[i] = doing[i]
      BY <1>1, <3>2
    <3> QED BY <3>1, <3>3, <3>4
  <2>2. ForwardInv'
    <3>1. check.at \in {"fetch", "replace", "verify", "record"} /\ ready' # NoReady
             => ready.version <= check.offer.version
      BY <2>1 DEF ForwardInv
    <3> QED BY <2>1, <3>1, ReachedLasts DEF ForwardInv
  <2>3. \A v : Begun(v)' = Begun(v) /\ _attempts(v)' = _attempts(v)
    BY <2>1 DEF Begun, Installers, _attempts
  <2> QED BY <2>1, <2>2, <2>3 DEF TriesInv, Installers
<1> QED BY <1>2, <1>3, <1>4

LEMMA NextGoesForward ==
    ASSUME UpdatesTypes, ForwardInv, TriesInv, [UpdatesNext]_updatesVars
    PROVE  ForwardInv' /\ TriesInv'
<1> USE DEF Outside, Moment, Files, Counts
<1>1. CASE UNCHANGED updatesVars
  BY <1>1, ForwardAsIs DEF updatesVars
<1>2. CASE UpdatesNext
  <2>1. CASE Publishes \/ RecordingChanges \/ RecordingEnds \/ Disturbed \/ Calms
    BY <1>2, <2>1, ForwardAsIs
    DEF Publishes, RecordingChanges, RecordingEnds, Disturbed, Calms
  <2>2. CASE Dies
    BY <1>2, <2>2, ClosesForward DEF Dies
  <2> QED BY <1>2, <2>1, <2>2, CheckGoesForward, InstallGoesForward, WritesForward,
             WriteFailsForward, SpawnGoesForward, StartGoesForward DEF UpdatesNext, InstallStep
<1> QED BY <1>1, <1>2

\* install.py: where no offer is older than one before, a version that failed
\* MAX_ATTEMPTS times is not installed by itself again, unless a marker was cut short
\* since: its marker counts every try, outlives any other crash, and gives way only to the
\* marker of a newer version.
THEOREM TriesDoEnd ==
    ASSUME \A h \in Histories : GoesForward(h.releases)
    PROVE  UpdatesSpec => []UpdatesInv
<1>1. UpdatesInit => UpdatesTypes /\ ReadyInv /\ ForwardInv /\ TriesInv
  BY InitUpdatesTypes, InitReadyInv, InitForwardInv DEF UpdatesInit
<1>2. UpdatesTypes /\ ReadyInv /\ ForwardInv /\ TriesInv /\ [UpdatesNext]_updatesVars
        => UpdatesTypes' /\ ReadyInv' /\ ForwardInv' /\ TriesInv'
  BY NextUpdatesTypes, NextReadyInv, NextGoesForward
<1>3. ASSUME UpdatesTypes, ReadyInv, TriesInv PROVE UpdatesInv
  <2>1. ASSUME NEW v \in Versions, v > current PROVE counted[v] <= MAX_ATTEMPTS
    <3>1. counted[v] \in Nat /\ Begun(v) \in {0, 1}
      BY <1>3, ForwardTypes
    <3>2. counted[v] + Begun(v) > 0 => counted[v] + Begun(v) <= MAX_ATTEMPTS
      BY <1>3, <2>1 DEF TriesInv
    <3> QED BY <3>1, <3>2, AttemptsAssumption
  <2> QED BY <1>3, <2>1 DEF UpdatesInv, TriesEnd, UpdatesTypes, ReadyInv
<1> QED BY <1>1, <1>2, <1>3, PTL DEF UpdatesSpec

(***************************************************************************)
(* Where the offers go back, but nobody presses and nothing crashes.       *)
(***************************************************************************)
LEMMA InitUndisturbedInv ==
    ASSUME UpdatesInit, history.quota["press"] = 0, history.quota["crash"] = 0
    PROVE  UndisturbedInv
BY DEF UpdatesInit, UndisturbedInv, Resting, AtRest, Installers

\* Neither a press nor a crash comes any more.
LEMMA QuotaIsSpent ==
    ASSUME UpdatesTypes, UndisturbedInv, UpdatesNext
    PROVE  history'.quota["press"] = 0 /\ history'.quota["crash"] = 0
<1>1. history \in Days
  BY TypePieces DEF RestType
<1>2. history' \in Days /\ history'.quota["press"] <= 0 /\ history'.quota["crash"] <= 0
  BY <1>1, HistoryStep DEF UndisturbedInv
<1>3. history'.quota["press"] \in Nat /\ history'.quota["crash"] \in Nat
  BY <1>2 DEF Days, Troubles
<1> QED BY <1>2, <1>3

LEMMA CheckKeepsUndisturbed ==
    ASSUME UpdatesTypes, UndisturbedInv, CheckStep \/ CheckFails
    PROVE  UndisturbedInv'
<1> USE DEF Outside, Moment, Files, Counts
<1>1. UpdatesNext
  BY DEF UpdatesNext
<1>2. /\ UNCHANGED <<current, marker, doing, setup, alive>>
      /\ history'.quota["press"] = 0 /\ history'.quota["crash"] = 0
  <2>1. UNCHANGED <<current, marker, doing, setup, alive>>
    BY DEF CheckStep, ChecksNow, Arrives, FetchesNothing, Fills, Replaces, Verifies,
         Records, Tidies, CheckFails, BreaksOff, ReplaceRefused
  <2>2. history'.quota["press"] = 0 /\ history'.quota["crash"] = 0
    BY <1>1, QuotaIsSpent DEF UndisturbedInv
  <2> QED BY <2>1, <2>2
<1>3. CASE ChecksNow
  <2> DEFINE offer == choose(Manifests, current)
  <2>1. CASE offer = NoOffer
    <3>1. ready' = NoReady /\ check'.at = "forget"
      BY <1>3, <2>1 DEF ChecksNow, Checks
    <3> QED BY <1>2, <3>1 DEF UndisturbedInv
  <2>2. CASE offer # NoOffer
    <3>1. UNCHANGED ready /\ check'.offer = offer
      BY <1>3, <2>2 DEF ChecksNow, Checks
    <3>2. current < offer.version
      <4>1. current \in Versions /\ Manifests \in SUBSET Manifest
        BY TypePieces DEF RestType, Days, Manifests
      <4> QED BY <2>2, <4>1, ChosenIs
    <3> HIDE DEF offer
    <3> QED BY <1>2, <3>1, <3>2 DEF UndisturbedInv
  <2> QED BY <2>1, <2>2
<1>4. CASE Records
  <2>1. check.at = "record" /\ ready' = check.offer /\ check'.at = "tidy"
    BY <1>4 DEF Records, Checks
  <2> QED BY <1>2, <2>1 DEF UndisturbedInv
<1>5. CASE Arrives \/ FetchesNothing \/ CheckFails \/ Fills \/ Replaces \/ Verifies \/ Tidies
  <2> USE DEF CheckFails
  <2>1. UNCHANGED ready
    BY <1>5 DEF Arrives, FetchesNothing, BreaksOff, ReplaceRefused, Fills, Replaces, Verifies, Tidies
  <2>2. \/ UNCHANGED check \/ check'.at = "rest"
        \/ check.at \in {"fetch", "replace", "verify"} /\ check'.offer = check.offer
    BY <1>5 DEF Arrives, FetchesNothing, BreaksOff, ReplaceRefused, Fills, Replaces, Verifies, Tidies,
                Checks, Resting
  <2> QED BY <1>2, <2>1, <2>2 DEF UndisturbedInv
<1> QED BY <1>3, <1>4, <1>5 DEF CheckStep

LEMMA OtherKeepsUndisturbed ==
    ASSUME UpdatesTypes, ReadyInv, UndisturbedInv, UpdatesNext, ~CheckStep, ~CheckFails
    PROVE  UndisturbedInv'
<1> USE DEF Outside, Moment, Files, Counts
<1>1. history'.quota["press"] = 0 /\ history'.quota["crash"] = 0
  BY QuotaIsSpent DEF UndisturbedInv
<1>2. doing \in [Installers -> Places]
  BY TypePieces DEF DoingType
<1>3. ~InstallPressed /\ ~Dies
  BY DEF InstallPressed, Dies, Uses, UndisturbedInv
<1>4. ASSUME UNCHANGED <<current, alive, ready, marker, check, doing, setup>> PROVE UndisturbedInv'
  BY <1>1, <1>4 DEF UndisturbedInv
<1>5. ASSUME Started, Closes, UNCHANGED <<current, ready, setup>> PROVE UndisturbedInv'
  <2>1. alive' = FALSE /\ check'.at = "rest" /\ \A i \in Installers : doing'[i].at = "rest"
    BY <1>5 DEF Closes, Resting, AtRest
  <2>2. ready # NoReady => current < ready.version
    BY <1>5 DEF Started, UndisturbedInv
  <2>3. UNCHANGED <<current, ready, setup>> /\ setup = None
    BY <1>5, TypePieces DEF Started, AliveType
  <2> QED BY <1>1, <2>1, <2>2, <2>3 DEF UndisturbedInv, Installers
<1>6. ASSUME NEW i \in {"tick", "quit"}, Started, ready # NoReady, Begins(i),
             UNCHANGED <<current, alive, ready, marker, check, setup>>
      PROVE  UndisturbedInv'
  <2>1. CASE Installing
    BY <1>4, <1>6, <2>1 DEF Begins
  <2>2. CASE ~Installing
    <3>1. doing' = [doing EXCEPT ![i] = [at |-> "write", version |-> ready.version]]
      BY <1>6, <2>2 DEF Begins
    <3>2. /\ doing'[i] = [at |-> "write", version |-> ready.version]
          /\ \A j \in Installers : j # i => doing'[j] = doing[j] /\ ~Busy(j)
      BY <1>2, <2>2, <3>1 DEF Installing, Installers
    <3>3. setup = None /\ current < ready.version /\ doing["start"].at = "rest" /\ alive
      BY <1>6, TypePieces DEF Started, UndisturbedInv, AliveType
    <3> QED BY <1>1, <1>6, <3>1, <3>2, <3>3 DEF UndisturbedInv, Installers, Busy
  <2> QED BY <2>1, <2>2
<1>7. CASE Ticks
  BY <1>4, <1>6, <1>7 DEF Ticks, Retryable, IsReady
<1>8. CASE Quits
  BY <1>5, <1>6, <1>8 DEF Quits, Retryable, IsReady
<1>9. ASSUME NEW i \in Installers, Spawns(i) PROVE UndisturbedInv'
  <2>1. /\ doing[i].at = "spawn" /\ UNCHANGED <<ready, marker, current>>
        /\ doing[i].version = marker.to /\ current < doing[i].version
        /\ doing["start"].at = "rest" /\ alive
    BY <1>9, TypePieces DEF Spawns, UndisturbedInv, AliveType
  <2>2. ready # NoReady => current < ready.version
    BY <2>1 DEF UndisturbedInv
  <2>3. CASE Closes /\ setup' = doing[i].version
    <3>1. alive' = FALSE /\ check'.at = "rest" /\ \A j \in Installers : doing'[j].at = "rest"
      BY <2>3 DEF Closes, Resting, AtRest
    <3> QED BY <1>1, <2>1, <2>2, <2>3, <3>1 DEF UndisturbedInv, Installers
  <2>4. CASE Closes /\ UNCHANGED setup
    BY <1>5, <2>1, <2>4 DEF Started
  <2>5. CASE doing' = [doing EXCEPT ![i] = AtRest] /\ UNCHANGED <<setup, check, alive>>
    <3>1. /\ doing'[i].at = "rest"
          /\ \A j \in Installers : j # i => doing'[j] = doing[j]
      BY <1>2, <2>5 DEF AtRest
    <3> QED BY <1>1, <2>1, <2>2, <2>5, <3>1 DEF UndisturbedInv, Installers
  <2> QED BY <1>9, <2>3, <2>4, <2>5 DEF Spawns
<1>10. CASE SetupEnds
  <2>1. /\ UNCHANGED <<ready, marker, check, doing, alive>> /\ ~alive
        /\ setup # None /\ setup' = None /\ current' \in {current, setup}
        /\ check.at = "rest" /\ \A i \in Installers : doing[i].at = "rest"
    BY <1>10, TypePieces DEF SetupEnds, AliveType
  <2>2. setup = marker.to
    BY <2>1 DEF UndisturbedInv
  <2> QED BY <1>1, <2>1, <2>2 DEF UndisturbedInv, Installers
<1>11. CASE Starts
  <2>1. /\ UNCHANGED <<current, ready, check, setup>> /\ ~alive /\ setup = None
        /\ check.at = "rest" /\ \A i \in Installers : doing[i].at = "rest"
    BY <1>11, TypePieces DEF Starts, AliveType
  <2>2. CASE marker.to = current
    <3>1. doing' = [doing EXCEPT !["start"].at = "unlink"]
      BY <1>11, <2>2 DEF Starts
    <3>2. doing'["start"].at = "unlink"
      BY <1>2, <3>1 DEF Installers, Places
    <3>3. \A i \in Installers \ {"start"} : doing'[i] = doing[i]
      BY <1>2, <3>1
    <3> QED BY <1>1, <2>1, <3>2, <3>3 DEF UndisturbedInv, Installers
  <2>3. CASE marker.to # current
    <3>1. UNCHANGED <<marker, doing>>
      BY <1>11, <2>3 DEF Starts
    <3> QED BY <1>1, <2>1, <2>3, <3>1 DEF UndisturbedInv, Installers
  <2> QED BY <2>2, <2>3
<1>12. CASE Forgets
  <2>1. /\ UNCHANGED <<current, marker, check, setup, alive>> /\ ready' = NoReady
        /\ doing["start"].at \in {"unlink", "files"}
        /\ \E at \in {"files", "rest"} : doing' = [doing EXCEPT !["start"].at = at]
    BY <1>12 DEF Forgets, ReadyInv
  <2>2. PICK at \in {"files", "rest"} : doing' = [doing EXCEPT !["start"].at = at]
    BY <2>1
  <2>3. doing'["start"].at = at
    BY <1>2, <2>2 DEF Installers, Places
  <2>4. \A i \in Installers \ {"start"} : doing'[i] = doing[i]
    BY <1>2, <2>2
  <2>5. \A i \in Installers : doing'[i].at \notin {"write", "spawn"}
    BY <2>1, <2>3, <2>4 DEF UndisturbedInv
  <2> QED BY <1>1, <2>1, <2>4, <2>5 DEF UndisturbedInv, Installers
<1>13. CASE Publishes \/ RecordingChanges \/ RecordingEnds \/ Disturbed \/ Calms
  BY <1>4, <1>13 DEF Publishes, RecordingChanges, RecordingEnds, Disturbed, Calms
<1>14. ASSUME NEW i \in Installers, Writes(i) \/ WriteFails(i) PROVE UndisturbedInv'
  <2>1. /\ doing[i].at = "write" /\ Busy(i) /\ UNCHANGED <<ready, current, setup>>
        /\ current < doing[i].version /\ doing["start"].at = "rest" /\ alive /\ setup = None
    BY <1>14, TypePieces DEF Writes, WriteFails, UndisturbedInv, AliveType, Busy
  <2>2. \A j \in Installers : Busy(j) => j = i
    BY <2>1, TypePieces DEF DoingType
  <2>3. CASE Closes
    BY <1>5, <2>1, <2>3 DEF Started
  <2>4. CASE ~Closes
    <3>1. PICK at \in {"spawn", "stuck"} :
             /\ doing' = [doing EXCEPT ![i].at = at]
             /\ at = "spawn" => marker'.to = doing[i].version
      BY <1>14, <2>4 DEF Writes, WriteFails
    <3>2. UNCHANGED <<alive, check>>
      BY <1>14, <2>4 DEF Writes, WriteFails
    <3>3. /\ doing'[i].at = at /\ doing'[i].version = doing[i].version
          /\ \A j \in Installers : j # i => doing'[j] = doing[j]
      BY <1>2, <3>1 DEF Places
    <3>4. ready # NoReady => current < ready.version
      BY <2>1 DEF UndisturbedInv
    <3>5. doing["page"].at = "rest" /\ i # "page" /\ i # "start" /\ "page" \in Installers /\ "start" \in Installers
      BY <2>1 DEF UndisturbedInv, Installers
    <3>6. \A j \in Installers : j # i => doing'[j].at \notin {"write", "spawn"}
      BY <2>2, <3>3 DEF Busy
    <3>7. check'.at \in {"fetch", "replace", "verify", "record"} => current' < check'.offer.version
      BY <2>1, <3>2 DEF UndisturbedInv
    <3> QED BY <1>1, <2>1, <3>1, <3>2, <3>3, <3>4, <3>5, <3>6, <3>7 DEF UndisturbedInv
  <2> QED BY <2>3, <2>4
<1> QED BY <1>3, <1>7, <1>8, <1>9, <1>10, <1>11, <1>12, <1>13, <1>14 DEF UpdatesNext, InstallStep

LEMMA NextUndisturbed ==
    ASSUME UpdatesTypes, ReadyInv, UndisturbedInv, [UpdatesNext]_updatesVars
    PROVE  UndisturbedInv'
<1>1. CASE UNCHANGED updatesVars
  BY <1>1 DEF updatesVars, UndisturbedInv
<1> QED BY <1>1, CheckKeepsUndisturbed, OtherKeepsUndisturbed

\* A history of which one of the two arguments speaks.
Foreseen(h) == GoesForward(h.releases) \/ (h.quota["press"] = 0 /\ h.quota["crash"] = 0)

\* manifest.py: a copy is never downgraded.  Where no offer is older than one before,
\* what was begun is never older than the copy, whatever is pressed and crashes; where a
\* channel is turned off and the offers go back, the start after an update forgets what
\* was ready before anything but a press can take it.
THEOREM NeverInstallsOlder ==
    ASSUME \A h \in Histories : Foreseen(h)
    PROVE  UpdatesSpec => NeverOlder
<1> DEFINE Either == (ForwardInv /\ TriesInv) \/ UndisturbedInv
<1>1. UpdatesInit => UpdatesTypes /\ ReadyInv /\ Either
  <2> SUFFICES ASSUME UpdatesInit PROVE UpdatesTypes /\ ReadyInv /\ Either
    OBVIOUS
  <2>1. Foreseen(history)
    BY DEF UpdatesInit
  <2> QED BY <2>1, InitUpdatesTypes, InitReadyInv, InitForwardInv, InitUndisturbedInv DEF Foreseen
<1>2. UpdatesTypes /\ ReadyInv /\ Either /\ [UpdatesNext]_updatesVars
        => UpdatesTypes' /\ ReadyInv' /\ Either'
  BY NextUpdatesTypes, NextReadyInv, NextGoesForward, NextUndisturbed
<1>3. ASSUME UpdatesTypes, Either, [UpdatesNext]_updatesVars
      PROVE  setup' # None /\ setup' # setup => setup' >= current
  <2> SUFFICES ASSUME setup' # None, setup' # setup PROVE setup' >= current
    OBVIOUS
  <2>1. PICK i \in Installers : Spawns(i)
    BY <1>3 DEF UpdatesNext, updatesVars, CheckStep, InstallStep, ChecksNow, Arrives, FetchesNothing, Fills,
           Replaces, Verifies, Records, Tidies, CheckFails, BreaksOff, ReplaceRefused,
           Ticks, Forgets, Writes, WriteFails, InstallPressed, Quits, SetupEnds,
           Starts, Publishes, RecordingChanges, RecordingEnds, Disturbed, Calms, Dies, Outside
  <2>2. doing[i].at = "spawn" /\ setup' = doing[i].version
    BY <2>1 DEF Spawns
  <2>3. setup' \in Nat /\ current \in Nat
    BY <1>3, <2>2, ForwardTypes, TypePieces DEF UpdatesTypes, Busy
  <2>4. current <= setup' \/ current < setup'
    BY <1>3, <2>2 DEF ForwardInv, UndisturbedInv
  <2> QED BY <2>3, <2>4
<1> HIDE DEF Either
<1> QED BY <1>1, <1>2, <1>3, PTL DEF UpdatesSpec, NeverOlder

=============================================================================
