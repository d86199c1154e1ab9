--------------------------- MODULE LibraryProofs ---------------------------
(***************************************************************************)
(* Proofs about Library, for any recordings, pressers and mishaps: no      *)
(* sound is doubled, no transcript is of a part, what is not transcribed   *)
(* waits to be, and every id leads to the sound recorded under it.         *)
(*                                                                         *)
(* Four invariants, each with one lemma per step that keeps it: Threads    *)
(* (where everybody is), Once (whose sound a file holds), Work (what waits *)
(* or is in hand), Found (what leads to a file is heard in it).  The code  *)
(* does not promise them when a merge (merge.py and its callers) is        *)
(* beside other threads: MergesAlone and MergesIntoKept say what it has to *)
(* be spared, and the last part shows that handlers one after the other    *)
(* spare it.  Found is kept until the policy takes sound unheard.          *)
(***************************************************************************)
EXTENDS Library, SequenceTheorems, TLAPS

\* Nothing else is under way when a merge begins, nor begins before it ends: merge.py takes
\* no lock that the worker, a deletion or a sweep would wait for.
MergeAlone(t) ==
    /\ doing[t].second # None => doing'[t] # doing[t]
    /\ doing'[t].second # None => \A u \in LibraryThreads \ {t} : doing'[u].at = "rest"

MergesAlone == \A t \in LibraryThreads : MergeAlone(t)

\* A merge is under way; so is a run of the worker.
MergeAt == {"second", "append", "undo", "join", "alias", "redo", "remove"}
WorkerAt == {"stage", "complete", "next", "pending"}

\* Who is at a merge is alone, and at two recordings that are there.
Threads ==
    /\ \A t \in LibraryThreads :
          /\ doing[t].at = "rest" => doing[t] = Idle
          /\ doing[t].at \in WorkerAt => t = TheWorker /\ doing[t].first \in Parts
          /\ doing[t].at \in MergeAt =>
                /\ doing[t].first \in row /\ doing[t].second \in row
                /\ doing[t].first # doing[t].second
          /\ doing[t].second # None => doing[t].at \in MergeAt
    /\ \A t, u \in LibraryThreads :
          doing[t].second # None /\ doing[u].at # "rest" => t = u

(***************************************************************************)
(* Once: the sound of a file is of the ids that lead to it.                *)
(***************************************************************************)
\* No sound twice, and all of ids that lead to one of ms.
Apart(audio, ms) == IsInjective(audio) /\ \A q \in ToSet(audio) : resolve(q) \in ms

\* m is in a merge at one of these places.
FirstAt(m, ats) == \E t \in LibraryThreads : doing[t].first = m /\ doing[t].at \in ats
SecondAt(m, ats) == \E t \in LibraryThreads : doing[t].second = m /\ doing[t].at \in ats

Joined == {"undo", "join", "alias"}
Led == {"redo", "remove"}

Once ==
    "cut" \notin flaws =>
        /\ \A m \in row :
              /\ ~SecondAt(m, Led) => alias[m] = None
              /\ ~FirstAt(m, Joined) /\ ~SecondAt(m, Led) => Apart(folder[m].audio, {m})
        /\ \A t \in LibraryThreads :
              LET a == doing[t].first
                  b == doing[t].second IN
              /\ doing[t].at \in {"join", "alias"} => Apart(folder[a].audio, {a, b})
              /\ doing[t].at \in {"append", "undo"} => Apart(doing[t].before.audio, {a})

(***************************************************************************)
(* Work: what is not transcribed waits to be, or was deleted.              *)
(***************************************************************************)
InLine == {"pending", "running"}
Withdrawn == {"pending", "running", "cancelled"}

\* Between a transcription and the job that comes after it.
Between(m) ==
    /\ doing[TheWorker].at = "next" /\ doing[TheWorker].first = m
    /\ doing[TheWorker].stage = "transcribe"

\* m with the files f is transcribed, or has a job in one of states, or was deleted.
Kept(m, f, states) ==
    /\ job[m]["assemble"] \in InLine => f.segments = f.audio
    /\ job[m]["assemble"] = "cancelled" => f.segments # <<>>
    /\ \/ f.transcript = f.audio
       \/ \E s \in Stages : job[m][s] \in states
       \/ Between(m)
       \/ m \in removed /\ job[m]["assemble"] # "done"

\* What the worker has in hand is of what the file holds.
InHand ==
    LET d == doing[TheWorker]
        f == folder[d.first] IN
    /\ d.at = "stage" => IF d.stage = "transcribe" THEN d.before.audio = f.audio
                         ELSE d.before.segments = f.audio
    /\ d.at \in {"complete", "next"} => IF d.stage = "transcribe" THEN f.segments = f.audio
                                        ELSE f.transcript = f.audio

Whole(f) == f.segments \in {<<>>, f.audio}

\* What a merge found when it began, and has done so far.
AtMerge(t) ==
    LET d == doing[t]
        a == d.first
        b == d.second
        f == IF d.at = "undo" THEN d.before ELSE folder[a] IN
    /\ folder[b].audio # <<>> /\ f.audio # <<>>
    /\ d.at # "remove" => ~Queued(a)
    /\ d.at # "second" => ~Queued(b)
    /\ d.at \in {"second", "append", "undo"} => Kept(a, f, Withdrawn)
    /\ d.at \in {"append", "undo"} =>
          Kept(b, folder[b], Withdrawn) /\ Whole(f) /\ Whole(folder[b])
    /\ d.at = "append" => /\ d.before = f
                          /\ d.both = (transcribed(a) /\ transcribed(b))
    /\ d.at = "join" /\ d.both => f.audio = f.segments \o folder[b].segments
    /\ d.at \in {"alias", "redo"} /\ d.both => f.segments = f.audio
    /\ d.at \in {"join", "alias", "redo"} /\ job[a]["assemble"] = "cancelled" => f.segments # <<>>

Work ==
    flaws = {} =>
        /\ \A m \in row :
              /\ folder[m].audio # <<>> /\ ~FirstAt(m, MergeAt \ {"remove"})
                    /\ ~SecondAt(m, MergeAt \ {"second"})
                 => Kept(m, folder[m], InLine)
        /\ doing[TheWorker].first \in Parts /\ folder[doing[TheWorker].first].audio # <<>> => InHand
        /\ \A t \in LibraryThreads : doing[t].at \in MergeAt => AtMerge(t)

LibraryIndInv == LibraryTypeOK /\ Threads /\ Once /\ Work

(***************************************************************************)
(* Found: what an id leads to holds the sound, or the words, of it.        *)
(***************************************************************************)
\* Nothing is merged into a recording that is to be deleted.
MergesIntoKept == \A t \in LibraryThreads : doing[t].second # None => ~folder[doing[t].first].marker

\* Those that are found at m.
Lead(m) == {p \in Parts \ removed : resolve(p) = m}

Planned(m) == \E t \in LibraryThreads : <<m, "strip">> \in doing[t].todo

\* What is to go was deleted with all that it stands for.
Doomed ==
    /\ \A m \in row : folder[m].marker => Held(m) \subseteq removed
    /\ \A m \in row : m \in deleting => folder[m].marker
    /\ \A m \in row, t \in LibraryThreads : <<m, "purge">> \in doing[t].todo => Held(m) \subseteq removed
    /\ \A t \in LibraryThreads : doing[t].at # "sweep" => doing[t].todo = {}

\* m holds all that leads to it, and so will the transcript it is to get.
Hears(m) ==
    /\ IF folder[m].audio = <<>> THEN Lead(m) \subseteq ToSet(folder[m].transcript)
       ELSE {m} \union Lead(m) \subseteq ToSet(folder[m].audio)
    /\ folder[m].audio = <<>> \/ Planned(m) =>
          (job[m]["assemble"] \in InLine => Lead(m) \subseteq ToSet(folder[m].segments))

Found ==
    /\ \A p \in Parts \ removed : resolve(p) \in row
    /\ \A m \in row : Hears(m)

FoundInHand ==
    LET d == doing[TheWorker]
        m == d.first IN
    d.at \in {"stage", "complete", "next"} /\ m \in row =>
      /\ d.at \in {"stage", "complete"} => job[m][d.stage] \in InLine \/ Held(m) \subseteq removed
      /\ d.at = "stage" /\ d.stage = "transcribe" =>
            d.before.audio = <<>> \/ Lead(m) \subseteq ToSet(d.before.audio)
      /\ d.at = "stage" /\ d.stage = "assemble" /\ (folder[m].audio = <<>> \/ Planned(m)) =>
            Lead(m) \subseteq ToSet(d.before.segments)
      /\ d.at \in {"complete", "next"} /\ d.stage = "transcribe" =>
            Lead(m) \subseteq ToSet(folder[m].segments)

FoundAtMerge ==
    \A t \in LibraryThreads :
        LET d == doing[t]
            a == d.first
            b == d.second IN
        /\ d.at \in MergeAt => folder[a].audio # <<>> /\ folder[b].audio # <<>>
        /\ d.at = "append" => d.before = folder[a]
        /\ d.at = "undo" => /\ d.before.audio # <<>> /\ ~d.before.marker
                            /\ {a} \union Lead(a) \subseteq ToSet(d.before.audio)
        /\ d.at \in {"join", "alias"} => ToSet(folder[b].audio) \subseteq ToSet(folder[a].audio)
        /\ d.at \in Led => \A p \in Parts : resolve(p) # b

FoundInv == LibraryTypeOK /\ Threads /\ Doomed /\ Found /\ FoundInHand /\ FoundAtMerge

(***************************************************************************)
(* Threads.                                                                *)
(***************************************************************************)
LEMMA IdleIsDoing ==
    /\ Idle \in Doing /\ Idle.at = "rest" /\ Idle.first = None /\ Idle.second = None /\ Idle.todo = {}
    /\ NoFolder \in Folder /\ NoFolder.audio = <<>> /\ NoFolder.segments = <<>>
    /\ NoFolder.transcript = <<>> /\ NoFolder.marker = FALSE
BY DEF Idle, Doing, NoFolder, Folder, Stages

\* What a thread turns to is its own.
LEMMA IsOwn ==
    ASSUME doing \in [LibraryThreads -> Doing], NEW t \in LibraryThreads, NEW d \in Doing, Is(t, d)
    PROVE  /\ doing' \in [LibraryThreads -> Doing] /\ doing'[t] = d
           /\ \A u \in LibraryThreads \ {t} : doing'[u] = doing[u]
BY DEF Is

Ats == {"rest", "second", "append", "undo", "join", "alias", "redo", "remove",
        "stage", "complete", "next", "pending", "sweep"}

\* It goes on with the same recordings.
LEMMA ToOwn ==
    ASSUME doing \in [LibraryThreads -> Doing], NEW t \in LibraryThreads, NEW at \in Ats, To(t, at)
    PROVE  /\ doing' \in [LibraryThreads -> Doing]
           /\ doing'[t] = [doing[t] EXCEPT !.at = at]
           /\ doing'[t].at = at
           /\ doing'[t].first = doing[t].first /\ doing'[t].second = doing[t].second
           /\ doing'[t].before = doing[t].before /\ doing'[t].both = doing[t].both
           /\ doing'[t].stage = doing[t].stage /\ doing'[t].todo = doing[t].todo
           /\ \A u \in LibraryThreads \ {t} : doing'[u] = doing[u]
<1>1. doing[t] \in Doing
  OBVIOUS
<1>2. [doing[t] EXCEPT !.at = at] \in Doing
  BY <1>1 DEF Doing, Ats
<1>3. Is(t, [doing[t] EXCEPT !.at = at])
  BY DEF To
<1>4. /\ doing' \in [LibraryThreads -> Doing] /\ doing'[t] = [doing[t] EXCEPT !.at = at]
      /\ \A u \in LibraryThreads \ {t} : doing'[u] = doing[u]
  BY <1>2, <1>3, IsOwn
<1> QED BY <1>1, <1>4 DEF Doing

LEMMA Pieces ==
    ASSUME LibraryTypeOK
    PROVE  /\ \A p \in Parts : /\ folder[p] \in Folder /\ folder[p].audio \in Seq(Parts)
                               /\ folder[p].segments \in Seq(Parts)
                               /\ folder[p].transcript \in Seq(Parts) /\ folder[p].marker \in BOOLEAN
                               /\ job[p] \in [Stages -> JobStates]
                               /\ alias[p] \in Parts \union {None}
                               /\ resolve(p) \in Parts
           /\ \A t \in LibraryThreads : /\ doing[t] \in Doing /\ doing[t].before \in Folder
                                        /\ doing[t].before.audio \in Seq(Parts)
                                        /\ doing[t].before.segments \in Seq(Parts)
                                        /\ doing[t].stage \in Stages
                                        /\ doing[t].at \in Ats
                                        /\ doing[t].first \in Parts \union {None}
                                        /\ doing[t].second \in Parts \union {None}
                                        /\ doing[t].todo \in SUBSET (Parts \X {"strip", "purge"})
           /\ TheWorker \in LibraryThreads /\ row \subseteq Parts
           /\ Stages = {"transcribe", "assemble"}
BY DEF LibraryTypeOK, Folder, Doing, resolve, LibraryThreads, Ats, Stages

LEMMA MovedTypes ==
    ASSUME NEW js \in [Parts -> [Stages -> JobStates]], NEW p \in Parts, NEW old,
           NEW new \in JobStates
    PROVE  /\ Moved(js, p, old, new) \in [Parts -> [Stages -> JobStates]]
           /\ \A q \in Parts \ {p} : Moved(js, p, old, new)[q] = js[q]
           /\ \A s \in Stages : Moved(js, p, old, new)[p][s] = IF js[p][s] = old THEN new ELSE js[p][s]
BY DEF Moved

\* Beside what is no merge there is none.
LEMMA NoMergeBeside ==
    ASSUME LibraryTypeOK, Threads, MergesAlone, NEW u \in LibraryThreads,
           doing[u].at \notin MergeAt,
           \A t \in LibraryThreads \ {u} : doing'[t] = doing[t]
    PROVE  \A t \in LibraryThreads : doing[t].second = None /\ doing[t].at \notin MergeAt
<1> SUFFICES ASSUME NEW t \in LibraryThreads
             PROVE  doing[t].second = None /\ doing[t].at \notin MergeAt
  OBVIOUS
<1>1. doing[t].second = None
  <2>1. CASE t = u
    BY <2>1 DEF Threads
  <2>2. CASE t # u
    BY <2>2 DEF MergesAlone, MergeAlone
  <2> QED BY <2>1, <2>2
<1> QED BY <1>1, PartsAreNumbered DEF Threads, LibraryTypeOK

\* Beside a merge there is nothing else.
LEMMA NothingBesideMerge ==
    ASSUME LibraryTypeOK, Threads, NEW t \in LibraryThreads, doing[t].at \in MergeAt
    PROVE  /\ \A u \in LibraryThreads \ {t} : doing[u] = Idle
           /\ doing[t].first \in row /\ doing[t].second \in row /\ doing[t].first # doing[t].second
           /\ doing[t].first \in Parts /\ doing[t].second \in Parts
           /\ doing[t].second # None
<1>1. doing[t].first \in row /\ doing[t].second \in row /\ doing[t].first # doing[t].second
  BY DEF Threads
<1>2. row \subseteq Parts
  BY DEF LibraryTypeOK
<1>3. doing[t].second # None
  BY <1>1, <1>2, PartsAreNumbered
<1>4. \A u \in LibraryThreads \ {t} : doing[u].at = "rest"
  BY <1>3 DEF Threads
<1> QED BY <1>1, <1>2, <1>3, <1>4 DEF Threads

(***************************************************************************)
(* One thing of a folder changes.                                          *)
(***************************************************************************)
LEMMA AudioGrows ==
    ASSUME NEW f \in [Parts -> Folder], NEW g, NEW a \in Parts, NEW s \in Seq(Parts),
           g = [f EXCEPT ![a].audio = @ \o s]
    PROVE  /\ g \in [Parts -> Folder] /\ g[a].audio = f[a].audio \o s
           /\ g[a].segments = f[a].segments /\ g[a].transcript = f[a].transcript /\ g[a].marker = f[a].marker
           /\ \A p \in Parts \ {a} : g[p] = f[p]
<1>1. f[a] \in Folder /\ f[a].audio \o s \in Seq(Parts)
  BY DEF Folder
<1>2. ASSUME NEW x \in Folder, NEW y \in Seq(Parts) PROVE [x EXCEPT !.audio = y] \in Folder
  BY DEF Folder
<1>3. [f[a] EXCEPT !.audio = f[a].audio \o s] \in Folder
  BY <1>1, <1>2
<1>4. g = [f EXCEPT ![a] = [f[a] EXCEPT !.audio = f[a].audio \o s]]
  OBVIOUS
<1>5. g \in [Parts -> Folder] /\ \A p \in Parts \ {a} : g[p] = f[p]
  BY <1>3, <1>4
<1>6. /\ g[a].audio = f[a].audio \o s
      /\ g[a].segments = f[a].segments /\ g[a].transcript = f[a].transcript /\ g[a].marker = f[a].marker
  BY DEF Folder
<1> QED BY <1>5, <1>6

LEMMA AudioSet ==
    ASSUME NEW f \in [Parts -> Folder], NEW g, NEW a \in Parts, NEW s \in Seq(Parts),
           g = [f EXCEPT ![a].audio = s]
    PROVE  /\ g \in [Parts -> Folder] /\ g[a].audio = s
           /\ g[a].segments = f[a].segments /\ g[a].transcript = f[a].transcript /\ g[a].marker = f[a].marker
           /\ \A p \in Parts \ {a} : g[p] = f[p]
<1>1. f[a] \in Folder /\ s \in Seq(Parts)
  BY DEF Folder
<1>2. ASSUME NEW x \in Folder, NEW y \in Seq(Parts) PROVE [x EXCEPT !.audio = y] \in Folder
  BY DEF Folder
<1>3. [f[a] EXCEPT !.audio = s] \in Folder
  BY <1>1, <1>2
<1>4. g = [f EXCEPT ![a] = [f[a] EXCEPT !.audio = s]]
  OBVIOUS
<1>5. g \in [Parts -> Folder] /\ \A p \in Parts \ {a} : g[p] = f[p]
  BY <1>3, <1>4
<1>6. /\ g[a].audio = s
      /\ g[a].segments = f[a].segments /\ g[a].transcript = f[a].transcript /\ g[a].marker = f[a].marker
  BY DEF Folder
<1> QED BY <1>5, <1>6

LEMMA SegmentsGrow ==
    ASSUME NEW f \in [Parts -> Folder], NEW g, NEW a \in Parts, NEW s \in Seq(Parts),
           g = [f EXCEPT ![a].segments = @ \o s]
    PROVE  /\ g \in [Parts -> Folder] /\ g[a].segments = f[a].segments \o s
           /\ g[a].audio = f[a].audio /\ g[a].transcript = f[a].transcript /\ g[a].marker = f[a].marker
           /\ \A p \in Parts \ {a} : g[p] = f[p]
<1>1. f[a] \in Folder /\ f[a].segments \o s \in Seq(Parts)
  BY DEF Folder
<1>2. ASSUME NEW x \in Folder, NEW y \in Seq(Parts) PROVE [x EXCEPT !.segments = y] \in Folder
  BY DEF Folder
<1>3. [f[a] EXCEPT !.segments = f[a].segments \o s] \in Folder
  BY <1>1, <1>2
<1>4. g = [f EXCEPT ![a] = [f[a] EXCEPT !.segments = f[a].segments \o s]]
  OBVIOUS
<1>5. g \in [Parts -> Folder] /\ \A p \in Parts \ {a} : g[p] = f[p]
  BY <1>3, <1>4
<1>6. /\ g[a].segments = f[a].segments \o s
      /\ g[a].audio = f[a].audio /\ g[a].transcript = f[a].transcript /\ g[a].marker = f[a].marker
  BY DEF Folder
<1> QED BY <1>5, <1>6

LEMMA SegmentsSet ==
    ASSUME NEW f \in [Parts -> Folder], NEW g, NEW a \in Parts, NEW s \in Seq(Parts),
           g = [f EXCEPT ![a].segments = s]
    PROVE  /\ g \in [Parts -> Folder] /\ g[a].segments = s
           /\ g[a].audio = f[a].audio /\ g[a].transcript = f[a].transcript /\ g[a].marker = f[a].marker
           /\ \A p \in Parts \ {a} : g[p] = f[p]
<1>1. f[a] \in Folder /\ s \in Seq(Parts)
  BY DEF Folder
<1>2. ASSUME NEW x \in Folder, NEW y \in Seq(Parts) PROVE [x EXCEPT !.segments = y] \in Folder
  BY DEF Folder
<1>3. [f[a] EXCEPT !.segments = s] \in Folder
  BY <1>1, <1>2
<1>4. g = [f EXCEPT ![a] = [f[a] EXCEPT !.segments = s]]
  OBVIOUS
<1>5. g \in [Parts -> Folder] /\ \A p \in Parts \ {a} : g[p] = f[p]
  BY <1>3, <1>4
<1>6. /\ g[a].segments = s
      /\ g[a].audio = f[a].audio /\ g[a].transcript = f[a].transcript /\ g[a].marker = f[a].marker
  BY DEF Folder
<1> QED BY <1>5, <1>6

LEMMA TranscriptSet ==
    ASSUME NEW f \in [Parts -> Folder], NEW g, NEW a \in Parts, NEW s \in Seq(Parts),
           g = [f EXCEPT ![a].transcript = s]
    PROVE  /\ g \in [Parts -> Folder] /\ g[a].transcript = s
           /\ g[a].audio = f[a].audio /\ g[a].segments = f[a].segments /\ g[a].marker = f[a].marker
           /\ \A p \in Parts \ {a} : g[p] = f[p]
<1>1. f[a] \in Folder /\ s \in Seq(Parts)
  BY DEF Folder
<1>2. ASSUME NEW x \in Folder, NEW y \in Seq(Parts) PROVE [x EXCEPT !.transcript = y] \in Folder
  BY DEF Folder
<1>3. [f[a] EXCEPT !.transcript = s] \in Folder
  BY <1>1, <1>2
<1>4. g = [f EXCEPT ![a] = [f[a] EXCEPT !.transcript = s]]
  OBVIOUS
<1>5. g \in [Parts -> Folder] /\ \A p \in Parts \ {a} : g[p] = f[p]
  BY <1>3, <1>4
<1>6. /\ g[a].transcript = s
      /\ g[a].audio = f[a].audio /\ g[a].segments = f[a].segments /\ g[a].marker = f[a].marker
  BY DEF Folder
<1> QED BY <1>5, <1>6

LEMMA MarkerSet ==
    ASSUME NEW f \in [Parts -> Folder], NEW g, NEW a \in Parts, g = [f EXCEPT ![a].marker = TRUE]
    PROVE  /\ g \in [Parts -> Folder] /\ g[a].marker = TRUE
           /\ g[a].audio = f[a].audio /\ g[a].segments = f[a].segments /\ g[a].transcript = f[a].transcript
           /\ \A p \in Parts \ {a} : g[p] = f[p]
<1>1. f[a] \in Folder /\ TRUE \in BOOLEAN
  BY DEF Folder
<1>2. ASSUME NEW x \in Folder, NEW y \in BOOLEAN PROVE [x EXCEPT !.marker = y] \in Folder
  BY DEF Folder
<1>3. [f[a] EXCEPT !.marker = TRUE] \in Folder
  BY <1>1, <1>2
<1>4. g = [f EXCEPT ![a] = [f[a] EXCEPT !.marker = TRUE]]
  OBVIOUS
<1>5. g \in [Parts -> Folder] /\ \A p \in Parts \ {a} : g[p] = f[p]
  BY <1>3, <1>4
<1>6. /\ g[a].marker = TRUE
      /\ g[a].audio = f[a].audio /\ g[a].segments = f[a].segments /\ g[a].transcript = f[a].transcript
  BY DEF Folder
<1> QED BY <1>5, <1>6

LEMMA UsesTypes ==
    ASSUME quota \in [Happenings -> Nat], NEW e \in Happenings, Uses(e)
    PROVE  quota' \in [Happenings -> Nat]
BY DEF Uses

\* t has begun a merge of a and b, and withdrawn what waits of a.
Begins(t, a, b) ==
    /\ a \in row /\ b \in row /\ a # b
    /\ folder[a].audio # <<>> /\ folder[b].audio # <<>> /\ ~Busy(a)
    /\ job' = withdraw(job, a)
    /\ doing'[t].at = "second" /\ doing'[t].first = a /\ doing'[t].second = b /\ doing'[t].todo = {}

\* What asks for a merge begins one or changes nothing that counts.
Asks(t) ==
    /\ doing[t].at \in {"rest", "pending"}
    /\ doing' \in [LibraryThreads -> Doing] /\ \A u \in LibraryThreads \ {t} : doing'[u] = doing[u]
    /\ waits' \in [Parts -> Parts \union {None}] /\ quota' \in [Happenings -> Nat]
    /\ job' \in [Parts -> [Stages -> JobStates]]
    /\ \/ job' = job /\ (doing'[t] = doing[t] \/ doing'[t] = Idle)
       \/ \E a, b \in row : Begins(t, a, b)
    /\ UNCHANGED <<row, folder, alias, deleting, removed, flaws>>

LEMMA MergesAsks ==
    ASSUME LibraryTypeOK, NEW t \in LibraryThreads, doing[t].at \in {"rest", "pending"},
           NEW p \in row, NEW q \in row, p # q, NEW asked \in BOOLEAN, NEW calling \in BOOLEAN,
           Merges(t, p, q, asked, calling), quota' \in [Happenings -> Nat],
           UNCHANGED <<row, folder, alias, deleting, removed, flaws>>
    PROVE  Asks(t)
<1> DEFINE a == IF p < q THEN p ELSE q
           b == IF p < q THEN q ELSE p
           begun == [Idle EXCEPT !.at = "second", !.first = a, !.second = b,
                                 !.waiting = asked, !.calling = calling]
<1>1. p \in Parts /\ q \in Parts
  BY DEF LibraryTypeOK
<1>2. a \in row /\ b \in row /\ a # b
  OBVIOUS
<1> HIDE DEF a, b
<1>3. doing \in [LibraryThreads -> Doing] /\ waits \in [Parts -> Parts \union {None}]
      /\ job \in [Parts -> [Stages -> JobStates]] /\ row \subseteq Parts
  BY DEF LibraryTypeOK
<1>4. CASE Mergeable(a) /\ Mergeable(b) /\ ~Busy(a)
  <2>1. job' = withdraw(job, a) /\ Is(t, begun) /\ waits' = waits
    BY <1>4 DEF Merges, a, b
  <2>2. begun \in Doing /\ begun.at = "second" /\ begun.first = a /\ begun.second = b /\ begun.todo = {}
    <3>1. a \in Parts /\ b \in Parts
      BY <1>2, <1>3
    <3>2. ASSUME NEW d \in Doing
          PROVE  [d EXCEPT !.at = "second", !.first = a, !.second = b,
                           !.waiting = asked, !.calling = calling] \in Doing
      BY <3>1 DEF Doing
    <3>3. begun \in Doing
      BY <3>2, IdleIsDoing
    <3>4. begun.at = "second" /\ begun.first = a /\ begun.second = b /\ begun.todo = {}
      BY DEF Idle
    <3> QED BY <3>3, <3>4
  <2> HIDE DEF begun
  <2>3. /\ doing' \in [LibraryThreads -> Doing] /\ doing'[t] = begun
        /\ \A u \in LibraryThreads \ {t} : doing'[u] = doing[u]
    BY <1>3, <2>1, <2>2, IsOwn
  <2>4. job' \in [Parts -> [Stages -> JobStates]]
    BY <1>2, <1>3, <2>1, MovedTypes DEF withdraw, JobStates
  <2>5. Begins(t, a, b)
    BY <1>2, <1>4, <2>1, <2>2, <2>3 DEF Begins, Mergeable
  <2> QED BY <1>2, <1>3, <2>1, <2>3, <2>4, <2>5 DEF Asks
<1>5. CASE ~(Mergeable(a) /\ Mergeable(b) /\ ~Busy(a))
  <2>1. Refuses(t, b, a, asked) /\ job' = job
    BY <1>5 DEF Merges, a, b
  <2>2. Is(t, Idle) /\ waits' \in [Parts -> Parts \union {None}]
    BY <1>2, <1>3, <2>1 DEF Refuses
  <2>3. /\ doing' \in [LibraryThreads -> Doing] /\ doing'[t] = Idle
        /\ \A u \in LibraryThreads \ {t} : doing'[u] = doing[u]
    BY <1>3, <2>2, IsOwn, IdleIsDoing
  <2> QED BY <1>3, <2>1, <2>2, <2>3 DEF Asks
<1> QED BY <1>4, <1>5

LEMMA MergePressedAsks ==
    ASSUME LibraryTypeOK, NEW t \in Pressers, MergePressed(t)
    PROVE  Asks(t)
<1>1. t \in LibraryThreads /\ doing[t].at = "rest"
  BY DEF LibraryThreads, MergePressed, Free
<1>2. quota' \in [Happenings -> Nat]
  BY UsesTypes DEF MergePressed, LibraryTypeOK, Happenings
<1>3. PICK p \in Parts, q \in Parts :
         /\ resolve(p) # resolve(q) /\ resolve(p) \in row /\ resolve(q) \in row
         /\ Merges(t, resolve(p), resolve(q), FALSE, FALSE)
  BY DEF MergePressed
<1> QED BY <1>1, <1>2, <1>3, MergesAsks DEF MergePressed

LEMMA AssignedAsks ==
    ASSUME LibraryTypeOK, NEW t \in Pressers, Assigned(t)
    PROVE  Asks(t)
<1>1. t \in LibraryThreads /\ doing[t].at = "rest"
  BY DEF LibraryThreads, Assigned, Free
<1>2. quota' \in [Happenings -> Nat]
  BY UsesTypes DEF Assigned, LibraryTypeOK, Happenings
<1>3. PICK p \in row, q \in row :
         /\ p # q
         /\ LET a == IF p < q THEN p ELSE q
                b == IF p < q THEN q ELSE p IN
            IF transcribed(a) /\ ~transcribed(b)
            THEN waits' = [waits EXCEPT ![b] = a] /\ UNCHANGED <<job, doing>>
            ELSE Merges(t, a, b, TRUE, FALSE)
  BY DEF Assigned
<1> DEFINE a == IF p < q THEN p ELSE q
           b == IF p < q THEN q ELSE p
<1>4. a \in row /\ b \in row /\ a # b /\ row \subseteq Parts
  BY <1>3 DEF LibraryTypeOK
<1>5. UNCHANGED <<row, folder, alias, deleting, removed, flaws>>
  BY DEF Assigned
<1>6. \/ waits' = [waits EXCEPT ![b] = a] /\ UNCHANGED <<job, doing>>
      \/ Merges(t, a, b, TRUE, FALSE)
  BY <1>3
<1> HIDE DEF a, b
<1>7. CASE waits' = [waits EXCEPT ![b] = a] /\ UNCHANGED <<job, doing>>
  BY <1>1, <1>2, <1>4, <1>5, <1>7 DEF Asks, LibraryTypeOK
<1>8. CASE Merges(t, a, b, TRUE, FALSE)
  BY <1>1, <1>2, <1>4, <1>5, <1>8, MergesAsks
<1> QED BY <1>6, <1>7, <1>8

LEMMA MergesPendingAsks ==
    ASSUME LibraryTypeOK, Threads, MergesPending
    PROVE  Asks(TheWorker)
<1> DEFINE p == doing[TheWorker].first
           target == IF waits[p] = None THEN None ELSE resolve(waits[p])
<1>1. TheWorker \in LibraryThreads /\ doing[TheWorker].at = "pending"
  BY DEF LibraryThreads, MergesPending
<1>2. p \in Parts
  BY <1>1 DEF Threads, WorkerAt
<1>3. UNCHANGED <<row, folder, alias, deleting, removed, flaws>> /\ quota' \in [Happenings -> Nat]
  BY DEF MergesPending, Memory, LibraryTypeOK
<1>4. \/ Is(TheWorker, Idle) /\ UNCHANGED job /\ (waits' = waits \/ waits' = [waits EXCEPT ![p] = None])
      \/ target \in row /\ target # p /\ p \in row /\ Merges(TheWorker, target, p, FALSE, TRUE)
  BY DEF MergesPending
<1> HIDE DEF p, target
<1>5. CASE Is(TheWorker, Idle) /\ UNCHANGED job /\ (waits' = waits \/ waits' = [waits EXCEPT ![p] = None])
  <2>1. /\ doing' \in [LibraryThreads -> Doing] /\ doing'[TheWorker] = Idle
        /\ \A u \in LibraryThreads \ {TheWorker} : doing'[u] = doing[u]
    BY <1>1, <1>5, IsOwn, IdleIsDoing DEF LibraryTypeOK
  <2> QED BY <1>1, <1>2, <1>3, <1>5, <2>1 DEF Asks, LibraryTypeOK
<1>6. CASE target \in row /\ target # p /\ p \in row /\ Merges(TheWorker, target, p, FALSE, TRUE)
  BY <1>1, <1>3, <1>6, MergesAsks
<1> QED BY <1>4, <1>5, <1>6

Base == LibraryTypeOK /\ Threads

LEMMA BesideNoMerge ==
    ASSUME Base, MergesAlone, NEW t \in LibraryThreads,
           \A u \in LibraryThreads \ {t} : doing'[u] = doing[u]
    PROVE  \A u \in LibraryThreads \ {t} : doing[u].second = None /\ doing[u].at \notin MergeAt
<1>1. CASE doing[t].at \in MergeAt
  BY <1>1, NothingBesideMerge, IdleIsDoing DEF Base, MergeAt
<1>2. CASE doing[t].at \notin MergeAt
  BY <1>2, NoMergeBeside DEF Base
<1> QED BY <1>1, <1>2

LEMMA ThreadsStep ==
    ASSUME Base, MergesAlone, NEW t \in LibraryThreads,
           \A u \in LibraryThreads \ {t} : doing'[u] = doing[u],
           doing'[t].at = "rest" => doing'[t] = Idle,
           doing'[t].at \in WorkerAt => t = TheWorker /\ doing'[t].first \in Parts,
           doing'[t].second # None => doing'[t].at \in MergeAt,
           doing'[t].at \in MergeAt => /\ doing'[t].first \in row' /\ doing'[t].second \in row'
                                       /\ doing'[t].first # doing'[t].second
    PROVE  Threads'
<1>1. \A u \in LibraryThreads \ {t} : doing[u].second = None /\ doing[u].at \notin MergeAt
  BY BesideNoMerge
<1>2. \A u \in LibraryThreads :
         /\ doing'[u].at = "rest" => doing'[u] = Idle
         /\ doing'[u].at \in WorkerAt => u = TheWorker /\ doing'[u].first \in Parts
         /\ doing'[u].at \in MergeAt => /\ doing'[u].first \in row' /\ doing'[u].second \in row'
                                        /\ doing'[u].first # doing'[u].second
         /\ doing'[u].second # None => doing'[u].at \in MergeAt
  BY <1>1 DEF Base, Threads
<1>3. \A u, w \in LibraryThreads : doing'[u].second # None /\ doing'[w].at # "rest" => u = w
  BY DEF MergesAlone, MergeAlone
<1> QED BY <1>2, <1>3 DEF Threads

\* Nobody turns to anything else.
LEMMA ThreadsStay ==
    ASSUME Base, MergesAlone, doing' = doing
    PROVE  Threads' /\ \A u \in LibraryThreads : doing[u].second = None /\ doing[u].at \notin MergeAt
<1>1. \A u \in LibraryThreads : doing[u].second = None
  BY DEF MergesAlone, MergeAlone
<1>2. \A u \in LibraryThreads : doing[u].at \notin MergeAt
  BY <1>1, PartsAreNumbered DEF Base, Threads, LibraryTypeOK
<1> QED BY <1>1, <1>2 DEF Base, Threads

LEMMA BaseAsks ==
    ASSUME Base, MergesAlone, NEW t \in LibraryThreads, Asks(t)
    PROVE  Base'
<1>1. LibraryTypeOK'
  BY DEF Asks, Base, LibraryTypeOK
<1>2. /\ doing[t].at \in {"rest", "pending"} /\ row' = row
      /\ \A u \in LibraryThreads \ {t} : doing'[u] = doing[u]
      /\ \/ doing'[t] = doing[t] \/ doing'[t] = Idle
         \/ \E a, b \in row : Begins(t, a, b)
  BY DEF Asks
<1>3. CASE \E a, b \in row : Begins(t, a, b)
  <2>1. /\ doing'[t].at = "second" /\ doing'[t].first \in row /\ doing'[t].second \in row
        /\ doing'[t].first # doing'[t].second
    BY <1>3 DEF Begins
  <2> QED BY <1>1, <1>2, <2>1, ThreadsStep DEF Base, MergeAt, WorkerAt
<1>4. CASE doing'[t] = Idle
  <2>1. doing'[t].at = "rest" /\ doing'[t].second = None
    BY <1>4, IdleIsDoing
  <2> QED BY <1>1, <1>2, <1>4, <2>1, ThreadsStep DEF Base, MergeAt, WorkerAt
<1>5. CASE doing'[t] = doing[t]
  <2>1. /\ doing[t].at = "rest" => doing[t] = Idle
        /\ doing[t].at \in WorkerAt => t = TheWorker /\ doing[t].first \in Parts
        /\ doing[t].second # None => doing[t].at \in MergeAt
    BY DEF Base, Threads
  <2>2. doing[t].at \notin MergeAt
    BY <1>2 DEF MergeAt
  <2> QED BY <1>1, <1>2, <1>5, <2>1, <2>2, ThreadsStep DEF Base
<1> QED BY <1>2, <1>3, <1>4, <1>5

\* What an error in a merge leaves: rows and files are as they are, the thread is through.
LEMMA MergeFailsDoes ==
    ASSUME Base, NEW t \in LibraryThreads, MergeFails(t)
    PROVE  /\ doing[t].at \in MergeAt /\ UNCHANGED <<row, folder, deleting, removed>>
           /\ Is(t, Idle) /\ Uses("error")
           /\ Refuses(t, doing[t].second, doing[t].first, doing[t].waiting)
           /\ flaws' = flaws \union {"dropped"} \/ flaws' = flaws \union {"cut"}
           /\ \/ alias' = alias
              \/ /\ doing[t].at = "alias" /\ add_alias(doing[t].second, doing[t].first)
                 /\ job' = job
           /\ \/ job' = job
              \/ job' = withdraw(job, doing[t].second)
              \/ job' = restore(restore(job, doing[t].first), doing[t].second)
              \/ job' = [job EXCEPT ![doing[t].first]["assemble"] = "pending"]
              \/ job' = [job EXCEPT ![doing[t].first]["transcribe"] = "pending"]
           /\ "cut" \notin flaws' => doing[t].at = "second" /\ alias' = alias
<1>1. /\ UNCHANGED <<row, deleting, removed>> /\ Uses("error")
      /\ Refuses(t, doing[t].second, doing[t].first, doing[t].waiting)
  BY DEF MergeFails
<1>2. CASE SnapshotFails(t)
  <2>1. doing[t].at \in MergeAt
    BY <1>2 DEF SnapshotFails, MergeAt
  <2> QED BY <1>1, <1>2, <2>1 DEF SnapshotFails, Refuses, Flawed
<1>3. CASE RestoreFails(t)
  <2>1. doing[t].at \in MergeAt
    BY <1>3 DEF RestoreFails, MergeAt
  <2> QED BY <1>1, <1>3, <2>1 DEF RestoreFails, Refuses, Flawed
<1>4. CASE MirrorFails(t)
  <2>1. doing[t].at \in MergeAt /\ UNCHANGED folder /\ flaws' = flaws \union {"cut"}
    BY <1>4 DEF MirrorFails, MergeAt, Flawed
  <2>2. \/ doing[t].at = "alias" /\ add_alias(doing[t].second, doing[t].first) /\ job' = job
        \/ /\ alias' = alias
           /\ \/ job' = [job EXCEPT ![doing[t].first]["assemble"] = "pending"]
              \/ job' = [job EXCEPT ![doing[t].first]["transcribe"] = "pending"]
    BY <1>4 DEF MirrorFails, Again
  <2> QED BY <1>1, <2>1, <2>2 DEF Refuses
<1> QED BY <1>2, <1>3, <1>4 DEF MergeFails

\* The merging thread is at rest again, or goes on with rows that are still there.
LEMMA BaseMerge ==
    ASSUME Base, MergesAlone, NEW t \in LibraryThreads, MergeStep(t)
    PROVE  /\ Base' /\ doing[t].at \in MergeAt
           /\ \A u \in LibraryThreads \ {t} : doing'[u] = doing[u]
           /\ \/ doing'[t] = Idle
              \/ /\ row' = row /\ doing'[t].at \in MergeAt
                 /\ doing'[t].first = doing[t].first /\ doing'[t].second = doing[t].second
<1> DEFINE a == doing[t].first
           b == doing[t].second
           Ends == /\ doing' \in [LibraryThreads -> Doing] /\ doing'[t] = Idle
                   /\ \A u \in LibraryThreads \ {t} : doing'[u] = doing[u]
           GoesOn(at) == /\ doing' \in [LibraryThreads -> Doing] /\ doing'[t].at = at
                         /\ doing'[t].first = a /\ doing'[t].second = b
                         /\ \A u \in LibraryThreads \ {t} : doing'[u] = doing[u]
<1>1. doing[t].at \in MergeAt
  BY MergeFailsDoes
  DEF MergeStep, WithdrawsSecond, Appends, Joins, Undoes, Aliases, Redoes, Removes, MergeAt
<1>2. /\ a \in row /\ b \in row /\ a # b /\ a \in Parts /\ b \in Parts /\ b # None
      /\ \A u \in LibraryThreads \ {t} : doing[u] = Idle
  BY <1>1, NothingBesideMerge DEF Base
<1>3. /\ row \subseteq Parts /\ folder \in [Parts -> Folder]
      /\ job \in [Parts -> [Stages -> JobStates]]
      /\ alias \in [Parts -> Parts \union {None}]
      /\ waits \in [Parts -> Parts \union {None}]
      /\ deleting \subseteq Parts
      /\ doing \in [LibraryThreads -> Doing]
      /\ quota \in [Happenings -> Nat]
      /\ removed \subseteq Parts /\ flaws \subseteq Flaws
  BY DEF Base, LibraryTypeOK
<1>4. ASSUME Is(t, Idle) PROVE Ends
  BY <1>3, <1>4, IsOwn, IdleIsDoing
<1>5. ASSUME NEW at \in MergeAt, To(t, at) PROVE GoesOn(at)
  BY <1>3, <1>5, ToOwn DEF Ats, MergeAt
<1>6. ASSUME Refuses(t, b, a, doing[t].waiting)
      PROVE  Ends /\ waits' \in [Parts -> Parts \union {None}]
  BY <1>2, <1>3, <1>4, <1>6 DEF Refuses
<1>7. /\ withdraw(job, b) \in [Parts -> [Stages -> JobStates]]
      /\ restore(job, a) \in [Parts -> [Stages -> JobStates]]
      /\ restore(restore(job, a), b) \in [Parts -> [Stages -> JobStates]]
  BY <1>2, <1>3, MovedTypes DEF withdraw, restore, JobStates
<1>8. ASSUME Ends, LibraryTypeOK'
      PROVE  Base'
  <2>1. doing'[t].at = "rest" /\ doing'[t].second = None
    BY <1>8, IdleIsDoing
  <2> HIDE DEF a, b
  <2> QED BY <1>8, <2>1, ThreadsStep DEF Base, MergeAt, WorkerAt
<1>9. ASSUME NEW at \in MergeAt, GoesOn(at), LibraryTypeOK', row' = row
      PROVE  Base'
  <2>1. at \notin WorkerAt /\ at # "rest"
    BY DEF MergeAt, WorkerAt
  <2>2. /\ doing'[t].at \in MergeAt /\ doing'[t].at \notin WorkerAt /\ doing'[t].at # "rest"
        /\ doing'[t].first \in row' /\ doing'[t].second \in row' /\ doing'[t].first # doing'[t].second
    BY <1>2, <1>9, <2>1
  <2> HIDE DEF a, b
  <2> QED BY <1>9, <2>2, ThreadsStep DEF Base
<1> SUFFICES /\ LibraryTypeOK'
             /\ \/ Ends
                \/ row' = row /\ \E at \in MergeAt : GoesOn(at)
  BY <1>1, <1>8, <1>9
<1> DEFINE Kinds == /\ folder' \in [Parts -> Folder]
                    /\ job' \in [Parts -> [Stages -> JobStates]]
                    /\ alias' \in [Parts -> Parts \union {None}]
                    /\ waits' \in [Parts -> Parts \union {None}]
                    /\ quota' \in [Happenings -> Nat]
                    /\ flaws' \subseteq Flaws
                    /\ row' \subseteq Parts /\ deleting' \subseteq Parts /\ removed' \subseteq Parts
<1> SUFFICES /\ Kinds
             /\ \/ Ends
                \/ row' = row /\ \E at \in MergeAt : GoesOn(at)
  BY DEF LibraryTypeOK
<1>11. CASE WithdrawsSecond(t)
  <2>1. Kinds
    BY <1>3, <1>6, <1>7, <1>11 DEF WithdrawsSecond, Flawed, Flaws
  <2>2. CASE Busy(b)
    BY <1>6, <1>11, <2>1, <2>2 DEF WithdrawsSecond
  <2>3. CASE ~Busy(b)
    <3> DEFINE both == transcribed(a) /\ transcribed(b)
               on == [doing[t] EXCEPT !.at = "append", !.before = folder[a], !.both = both]
    <3>1. Is(t, on) /\ row' = row
      BY <1>11, <2>3 DEF WithdrawsSecond
    <3>2. both \in BOOLEAN /\ folder[a] \in Folder /\ doing[t] \in Doing
      BY <1>2, <1>3
    <3>3. on \in Doing
      <4> HIDE DEF both
      <4> QED BY <3>2 DEF Doing
    <3>4. on.at = "append" /\ on.first = a /\ on.second = b
      BY <3>2 DEF Doing
    <3> HIDE DEF on
    <3>5. GoesOn("append")
      BY <1>3, <3>1, <3>3, <3>4, IsOwn
    <3> QED BY <2>1, <3>1, <3>5 DEF MergeAt
  <2> QED BY <2>2, <2>3
<1>12. CASE Appends(t)
  <2>1. /\ folder[a] \in Folder /\ folder[b] \in Folder
        /\ folder[a].audio \in Seq(Parts) /\ folder[b].audio \in Seq(Parts)
    BY <1>2, <1>3 DEF Folder
  <2>2. folder' = [folder EXCEPT ![a].audio = @ \o folder[b].audio]
    BY <1>12 DEF Appends
  <2>3. folder' \in [Parts -> Folder]
    BY <1>2, <1>3, <2>1, <2>2, AudioGrows
  <2>4. quota' \in [Happenings -> Nat]
    BY <1>3, <1>12, UsesTypes DEF Appends, Happenings
  <2>5. Kinds
    BY <1>2, <1>3, <1>12, <2>3, <2>4 DEF Appends
  <2>6. To(t, "undo") \/ To(t, "join")
    BY <1>12 DEF Appends
  <2>7. row' = row
    BY <1>12 DEF Appends
  <2> QED BY <1>5, <2>5, <2>6, <2>7 DEF MergeAt
<1>13. CASE Joins(t)
  <2>1. /\ folder[a] \in Folder /\ folder[b] \in Folder
        /\ folder[a].segments \in Seq(Parts) /\ folder[b].segments \in Seq(Parts)
    BY <1>2, <1>3 DEF Folder
  <2>3. folder' \in [Parts -> Folder]
    BY <1>2, <1>3, <1>13, <2>1, SegmentsGrow DEF Joins
  <2>5. Kinds
    BY <1>2, <1>3, <1>13, <2>3 DEF Joins, Memory
  <2>6. To(t, "alias") /\ row' = row
    BY <1>13 DEF Joins
  <2> QED BY <1>5, <2>5, <2>6 DEF MergeAt
<1>14. CASE Undoes(t)
  <2>1. doing[t].before \in Folder
    BY <1>3 DEF Doing
  <2>2. Ends /\ Kinds
    BY <1>2, <1>3, <1>6, <1>7, <1>14, <2>1 DEF Undoes, Memory
  <2> QED BY <2>2
<1>15. CASE Aliases(t)
  <2>1. Kinds
    BY <1>2, <1>3, <1>15 DEF Aliases, Memory, add_alias
  <2>2. To(t, "redo") /\ row' = row
    BY <1>2, <1>15 DEF Aliases
  <2> QED BY <1>5, <2>1, <2>2 DEF MergeAt
<1>16. CASE Redoes(t)
  <2> PICK stage : stage = Again(t)
    OBVIOUS
  <2>1. /\ job' = [job EXCEPT ![a][stage] = "pending"] /\ To(t, "remove")
        /\ UNCHANGED <<row, folder, alias, waits, Memory>>
    BY <1>2, <1>16 DEF Redoes
  <2>2. job' \in [Parts -> [Stages -> JobStates]]
    <3>1. "pending" \in JobStates
      BY DEF JobStates
    <3> QED BY <1>2, <1>3, <2>1, <3>1
  <2>3. Kinds
    BY <1>3, <2>1, <2>2 DEF Memory
  <2> QED BY <1>5, <2>1, <2>3 DEF MergeAt
<1>17. CASE Removes(t)
  <2>1. quota' \in [Happenings -> Nat]
    BY <1>3, <1>17, UsesTypes DEF Removes, Happenings
  <2>2. NoJobs \in [Stages -> JobStates]
    BY DEF NoJobs, JobStates
  <2>6. folder' \in [Parts -> Folder] /\ row' \subseteq Parts
        /\ job' \in [Parts -> [Stages -> JobStates]]
    <3>1. \/ purge(b)
          \/ /\ folder' = [folder EXCEPT ![b].marker = TRUE] /\ row' = row \ {b}
             /\ job' = [job EXCEPT ![b] = NoJobs]
      BY <1>17 DEF Removes
    <3>2. CASE purge(b)
      BY <1>2, <1>3, <2>2, <3>2, IdleIsDoing DEF purge
    <3>3. CASE /\ folder' = [folder EXCEPT ![b].marker = TRUE] /\ row' = row \ {b}
               /\ job' = [job EXCEPT ![b] = NoJobs]
      BY <1>2, <1>3, <2>2, <3>3, MarkerSet
    <3> QED BY <3>1, <3>2, <3>3
  <2>4. Kinds /\ Is(t, Idle)
    BY <1>2, <1>3, <1>17, <2>1, <2>6 DEF Removes
  <2> QED BY <1>4, <2>4
<1>18. CASE MergeFails(t)
  <2>1. quota' \in [Happenings -> Nat] /\ flaws' \subseteq Flaws
    BY <1>3, <1>18, MergeFailsDoes, UsesTypes DEF Flaws, Happenings
  <2>2. Ends /\ waits' \in [Parts -> Parts \union {None}]
    BY <1>6, <1>18, MergeFailsDoes
  <2>3. alias' \in [Parts -> Parts \union {None}]
    <3>1. alias' = alias \/ add_alias(b, a)
      BY <1>18, MergeFailsDoes
    <3> HIDE DEF a, b
    <3> QED BY <1>2, <1>3, <3>1 DEF add_alias
  <2>4. job' \in [Parts -> [Stages -> JobStates]]
    <3>1. "pending" \in JobStates /\ Stages = {"transcribe", "assemble"}
      BY DEF JobStates, Stages
    <3>2. \/ job' = job \/ job' = withdraw(job, b) \/ job' = restore(restore(job, a), b)
          \/ job' = [job EXCEPT ![a]["assemble"] = "pending"]
          \/ job' = [job EXCEPT ![a]["transcribe"] = "pending"]
      BY <1>18, MergeFailsDoes
    <3>3. CASE job' = job \/ job' = withdraw(job, b) \/ job' = restore(restore(job, a), b)
      BY <1>3, <1>7, <3>3
    <3>4. ASSUME NEW stage, job' = [job EXCEPT ![a][stage] = "pending"]
          PROVE  job' \in [Parts -> [Stages -> JobStates]]
      BY <1>2, <1>3, <3>1, <3>4
    <3> QED BY <3>2, <3>3, <3>4
  <2>5. UNCHANGED <<row, folder, deleting, removed>>
    BY <1>18, MergeFailsDoes
  <2> QED BY <1>3, <2>1, <2>2, <2>3, <2>4, <2>5
<1> QED BY <1>11, <1>12, <1>13, <1>14, <1>15, <1>16, <1>17, <1>18 DEF MergeStep

NoMerge == \A u \in LibraryThreads : doing[u].second = None /\ doing[u].at \notin MergeAt

\* t was at no merge and goes on to what is none.
LEMMA BaseTurn ==
    ASSUME Base, MergesAlone, LibraryTypeOK', NEW t \in LibraryThreads, doing[t].at \notin MergeAt,
           \A u \in LibraryThreads \ {t} : doing'[u] = doing[u],
           \/ doing'[t] = Idle
           \/ /\ doing'[t].at \notin MergeAt \union {"rest"} /\ doing'[t].second = None
              /\ doing'[t].at \in WorkerAt => t = TheWorker /\ doing'[t].first \in Parts
    PROVE  Base' /\ NoMerge
<1>1. NoMerge
  BY BesideNoMerge, NoMergeBeside DEF NoMerge, Base
<1>2. CASE doing'[t] = Idle
  <2>1. doing'[t].at = "rest" /\ doing'[t].second = None
    BY <1>2, IdleIsDoing
  <2> QED BY <1>1, <1>2, <2>1, ThreadsStep DEF Base, MergeAt, WorkerAt
<1>3. CASE doing'[t] # Idle
  BY <1>1, <1>3, ThreadsStep DEF Base
<1> QED BY <1>2, <1>3

LEMMA TakesJobDoes ==
    ASSUME Base, MergesAlone, TakesJob
    PROVE  /\ Base' /\ NoMerge /\ doing[TheWorker].at = "rest"
           /\ UNCHANGED <<row, folder, alias, Memory>>
           /\ \A u \in LibraryThreads \ {TheWorker} : doing'[u] = doing[u]
           /\ doing'[TheWorker].at = "stage" /\ doing'[TheWorker].todo = {}
           /\ \E p \in row, s \in Stages :
                 /\ job[p][s] = "pending" /\ job' = [job EXCEPT ![p][s] = "running"]
                 /\ doing'[TheWorker].first = p /\ doing'[TheWorker].stage = s
                 /\ doing'[TheWorker].before = folder[p]
<1>1. PICK p \in row, s \in Stages :
         /\ job[p][s] = "pending" /\ job' = [job EXCEPT ![p][s] = "running"]
         /\ Is(TheWorker, [Idle EXCEPT !.at = "stage", !.first = p, !.stage = s, !.before = folder[p]])
  BY DEF TakesJob
<1> DEFINE on == [Idle EXCEPT !.at = "stage", !.first = p, !.stage = s, !.before = folder[p]]
<1>2. p \in Parts /\ folder[p] \in Folder /\ TheWorker \in LibraryThreads
  BY DEF Base, LibraryTypeOK, LibraryThreads
<1>3. on \in Doing
  <2>1. ASSUME NEW d \in Doing
        PROVE  [d EXCEPT !.at = "stage", !.first = p, !.stage = s, !.before = folder[p]] \in Doing
    BY <1>2 DEF Doing
  <2> QED BY <2>1, IdleIsDoing
<1>4. /\ on.at = "stage" /\ on.first = p /\ on.stage = s /\ on.before = folder[p]
      /\ on.second = None /\ on.todo = {}
  BY DEF Idle
<1>5. Is(TheWorker, on)
  BY <1>1
<1> HIDE DEF on
<1>6. /\ doing' \in [LibraryThreads -> Doing] /\ doing'[TheWorker] = on
      /\ \A u \in LibraryThreads \ {TheWorker} : doing'[u] = doing[u]
  BY <1>2, <1>3, <1>5, IsOwn DEF Base, LibraryTypeOK
<1>7. UNCHANGED <<row, folder, alias, waits, Memory>> /\ doing[TheWorker].at = "rest"
  BY DEF TakesJob, Free
<1>8. job' \in [Parts -> [Stages -> JobStates]]
  BY <1>1, <1>2 DEF Base, LibraryTypeOK, JobStates
<1>9. LibraryTypeOK'
  BY <1>6, <1>7, <1>8 DEF Base, LibraryTypeOK, Memory
<1>10. Base' /\ NoMerge
  <2>1. /\ doing[TheWorker].at \notin MergeAt /\ doing'[TheWorker].at \notin MergeAt \union {"rest"}
        /\ doing'[TheWorker].second = None /\ doing'[TheWorker].first \in Parts
    BY <1>2, <1>4, <1>6, <1>7 DEF MergeAt
  <2> QED BY <1>2, <1>6, <1>9, <2>1, BaseTurn
<1> QED BY <1>1, <1>4, <1>6, <1>7, <1>10

LEMMA PurgeTypes ==
    ASSUME LibraryTypeOK, NEW p \in Parts, purge(p)
    PROVE  /\ folder' \in [Parts -> Folder] /\ row' \subseteq Parts
           /\ job' \in [Parts -> [Stages -> JobStates]]
<1>1. NoJobs \in [Stages -> JobStates]
  BY DEF NoJobs, JobStates
<1> QED BY <1>1, IdleIsDoing DEF purge, LibraryTypeOK

LEMMA StageEndsBadlyDoes ==
    ASSUME Base, MergesAlone, StageEndsBadly
    PROVE  /\ Base' /\ NoMerge /\ UNCHANGED <<alias, removed, flaws>>
           /\ \A u \in LibraryThreads \ {TheWorker} : doing'[u] = doing[u]
           /\ doing[TheWorker].at = "stage" /\ doing[TheWorker].first \in Parts
           /\ doing'[TheWorker] = Idle
           /\ LET p == doing[TheWorker].first
                  s == doing[TheWorker].stage IN
              \/ p \in deleting /\ purge(p) /\ deleting' = deleting \ {p}
              \/ /\ Input = <<>> /\ job' = [job EXCEPT ![p][s] = "failed"]
                 /\ UNCHANGED <<row, folder, deleting>>
<1> DEFINE p == doing[TheWorker].first
           s == doing[TheWorker].stage
<1>1. doing[TheWorker].at = "stage" /\ TheWorker \in LibraryThreads
  BY DEF StageEndsBadly, LibraryThreads
<1>2. p \in Parts /\ s \in Stages
  BY <1>1, Pieces DEF Base, Threads, WorkerAt
<1>3. /\ doing' \in [LibraryThreads -> Doing] /\ doing'[TheWorker] = Idle
      /\ \A u \in LibraryThreads \ {TheWorker} : doing'[u] = doing[u]
  BY <1>1, IsOwn, IdleIsDoing DEF Base, LibraryTypeOK, StageEndsBadly
<1>4. \/ p \in deleting /\ purge(p) /\ deleting' = deleting \ {p}
      \/ /\ Input = <<>> /\ job' = [job EXCEPT ![p][s] = "failed"]
         /\ UNCHANGED <<row, folder, deleting>>
  BY DEF StageEndsBadly
<1>5. UNCHANGED <<alias, waits, quota, removed, flaws>>
  BY DEF StageEndsBadly
<1> HIDE DEF p, s
<1>6. /\ folder' \in [Parts -> Folder] /\ row' \subseteq Parts /\ deleting' \subseteq Parts
      /\ job' \in [Parts -> [Stages -> JobStates]]
  <2>1. CASE p \in deleting /\ purge(p) /\ deleting' = deleting \ {p}
    BY <1>2, <2>1, PurgeTypes DEF Base, LibraryTypeOK
  <2>2. CASE /\ Input = <<>> /\ job' = [job EXCEPT ![p][s] = "failed"]
             /\ UNCHANGED <<row, folder, deleting>>
    BY <1>2, <2>2 DEF Base, LibraryTypeOK, JobStates
  <2> QED BY <1>4, <2>1, <2>2
<1>7. LibraryTypeOK'
  BY <1>3, <1>5, <1>6 DEF Base, LibraryTypeOK
<1>8. Base' /\ NoMerge
  BY <1>1, <1>3, <1>7, BaseTurn DEF MergeAt
<1> QED BY <1>1, <1>2, <1>3, <1>4, <1>5, <1>8 DEF p, s

LEMMA InputIs ==
    ASSUME LibraryTypeOK
    PROVE  Input \in Seq(Parts)
BY Pieces DEF Input

LEMMA StageEndsWellDoes ==
    ASSUME Base, MergesAlone, StageEndsWell
    PROVE  /\ Base' /\ NoMerge /\ UNCHANGED <<row, job, alias, Memory>>
           /\ \A u \in LibraryThreads \ {TheWorker} : doing'[u] = doing[u]
           /\ doing[TheWorker].at = "stage" /\ doing[TheWorker].first \in Parts
           /\ doing'[TheWorker].at = "complete" /\ doing'[TheWorker].first = doing[TheWorker].first
           /\ doing'[TheWorker].stage = doing[TheWorker].stage
           /\ doing'[TheWorker].todo = doing[TheWorker].todo
           /\ Input # <<>>
           /\ LET p == doing[TheWorker].first IN
              /\ folder'[p].audio = folder[p].audio /\ folder'[p].marker = folder[p].marker
              /\ doing[TheWorker].stage = "transcribe" =>
                    folder'[p].segments = Input /\ folder'[p].transcript = folder[p].transcript
              /\ doing[TheWorker].stage = "assemble" =>
                    folder'[p].transcript = Input /\ folder'[p].segments = folder[p].segments
              /\ \A q \in Parts \ {p} : folder'[q] = folder[q]
<1> DEFINE p == doing[TheWorker].first
<1>1. doing[TheWorker].at = "stage" /\ TheWorker \in LibraryThreads /\ To(TheWorker, "complete")
      /\ UNCHANGED <<row, job, alias, waits, Memory>> /\ Input # <<>>
  BY DEF StageEndsWell, LibraryThreads
<1>2. p \in Parts /\ doing[TheWorker].stage \in Stages /\ folder \in [Parts -> Folder]
  BY <1>1, Pieces DEF Base, Threads, WorkerAt, LibraryTypeOK
<1>3. /\ doing' \in [LibraryThreads -> Doing] /\ doing'[TheWorker].at = "complete"
      /\ doing'[TheWorker].first = p /\ doing'[TheWorker].second = doing[TheWorker].second
      /\ doing'[TheWorker].stage = doing[TheWorker].stage
      /\ doing'[TheWorker].todo = doing[TheWorker].todo
      /\ \A u \in LibraryThreads \ {TheWorker} : doing'[u] = doing[u]
  BY <1>1, ToOwn DEF Base, LibraryTypeOK, Ats
<1>4. \/ doing[TheWorker].stage = "transcribe" /\ folder' = [folder EXCEPT ![p].segments = Input]
      \/ doing[TheWorker].stage = "assemble" /\ folder' = [folder EXCEPT ![p].transcript = Input]
  BY <1>2 DEF StageEndsWell, Stages
<1>5. Input \in Seq(Parts)
  BY InputIs DEF Base
<1> HIDE DEF p
<1>6. /\ folder' \in [Parts -> Folder]
      /\ folder'[p].audio = folder[p].audio /\ folder'[p].marker = folder[p].marker
      /\ doing[TheWorker].stage = "transcribe" =>
            folder'[p].segments = Input /\ folder'[p].transcript = folder[p].transcript
      /\ doing[TheWorker].stage = "assemble" =>
            folder'[p].transcript = Input /\ folder'[p].segments = folder[p].segments
      /\ \A q \in Parts \ {p} : folder'[q] = folder[q]
  <2>1. CASE doing[TheWorker].stage = "transcribe" /\ folder' = [folder EXCEPT ![p].segments = Input]
    BY <1>2, <1>5, <2>1, SegmentsSet
  <2>2. CASE doing[TheWorker].stage = "assemble" /\ folder' = [folder EXCEPT ![p].transcript = Input]
    BY <1>2, <1>5, <2>2, TranscriptSet
  <2> QED BY <1>4, <2>1, <2>2
<1>7. LibraryTypeOK'
  BY <1>1, <1>3, <1>6 DEF Base, LibraryTypeOK, Memory
<1>8. Base' /\ NoMerge
  <2>1. doing[TheWorker].second = None
    BY <1>1 DEF Base, Threads, MergeAt
  <2>2. doing[TheWorker].at \notin MergeAt /\ doing'[TheWorker].at \notin MergeAt \union {"rest"}
    BY <1>1, <1>3 DEF MergeAt
  <2> QED BY <1>1, <1>2, <1>3, <1>7, <2>1, <2>2, BaseTurn
<1> QED BY <1>1, <1>2, <1>3, <1>6, <1>8 DEF p

\* Both steps after a stage: to the next place, or, with the row gone, to rest.
LEMMA CompletesDoes ==
    ASSUME Base, MergesAlone, Completes
    PROVE  /\ Base' /\ NoMerge /\ UNCHANGED <<row, folder, alias, Memory>>
           /\ \A u \in LibraryThreads \ {TheWorker} : doing'[u] = doing[u]
           /\ doing[TheWorker].at = "complete" /\ doing[TheWorker].first \in Parts
           /\ LET p == doing[TheWorker].first IN
              \/ p \notin row /\ job' = job /\ doing'[TheWorker] = Idle
              \/ /\ job' = [job EXCEPT ![p][doing[TheWorker].stage] = "done"]
                 /\ doing'[TheWorker].at = "next" /\ doing'[TheWorker].first = p
                 /\ doing'[TheWorker].stage = doing[TheWorker].stage
                 /\ doing'[TheWorker].todo = doing[TheWorker].todo
<1> DEFINE p == doing[TheWorker].first
<1>1. doing[TheWorker].at = "complete" /\ TheWorker \in LibraryThreads
      /\ UNCHANGED <<row, folder, alias, waits, Memory>>
  BY DEF Completes, LibraryThreads
<1>2. p \in Parts /\ doing[TheWorker].stage \in Stages /\ doing[TheWorker].second = None
      /\ doing \in [LibraryThreads -> Doing] /\ job \in [Parts -> [Stages -> JobStates]]
      /\ doing[TheWorker].at \notin MergeAt
  BY <1>1, Pieces DEF Base, Threads, WorkerAt, LibraryTypeOK, MergeAt
<1>3. \/ p \notin row /\ job' = job /\ Is(TheWorker, Idle)
      \/ /\ job' = [job EXCEPT ![p][doing[TheWorker].stage] = "done"]
         /\ To(TheWorker, "next")
  BY DEF Completes
<1> HIDE DEF p
<1>4. CASE p \notin row /\ job' = job /\ Is(TheWorker, Idle)
  <2>1. /\ doing' \in [LibraryThreads -> Doing] /\ doing'[TheWorker] = Idle
        /\ \A u \in LibraryThreads \ {TheWorker} : doing'[u] = doing[u]
    BY <1>1, <1>2, <1>4, IsOwn, IdleIsDoing
  <2>2. LibraryTypeOK'
    BY <1>1, <1>4, <2>1 DEF Base, LibraryTypeOK, Memory
  <2>3. Base' /\ NoMerge
    BY <1>1, <1>2, <2>1, <2>2, BaseTurn
  <2> QED BY <1>1, <1>2, <1>4, <2>1, <2>3 DEF p
<1>5. CASE job' = [job EXCEPT ![p][doing[TheWorker].stage] = "done"] /\ To(TheWorker, "next")
  <2>1. /\ doing' \in [LibraryThreads -> Doing] /\ doing'[TheWorker].at = "next"
        /\ doing'[TheWorker].first = p /\ doing'[TheWorker].second = doing[TheWorker].second
        /\ doing'[TheWorker].stage = doing[TheWorker].stage
        /\ doing'[TheWorker].todo = doing[TheWorker].todo
        /\ \A u \in LibraryThreads \ {TheWorker} : doing'[u] = doing[u]
    BY <1>1, <1>2, <1>5, ToOwn DEF Ats, p
  <2>2. LibraryTypeOK'
    BY <1>1, <1>2, <1>5, <2>1 DEF Base, LibraryTypeOK, Memory, JobStates
  <2>3. doing'[TheWorker].at \notin MergeAt \union {"rest"}
    BY <2>1 DEF MergeAt
  <2>4. Base' /\ NoMerge
    BY <1>1, <1>2, <2>1, <2>2, <2>3, BaseTurn
  <2> QED BY <1>1, <1>2, <1>5, <2>1, <2>4 DEF p
<1> QED BY <1>3, <1>4, <1>5

LEMMA EnqueuesNextDoes ==
    ASSUME Base, MergesAlone, EnqueuesNext
    PROVE  /\ Base' /\ NoMerge /\ UNCHANGED <<row, folder, alias, Memory>>
           /\ \A u \in LibraryThreads \ {TheWorker} : doing'[u] = doing[u]
           /\ doing[TheWorker].at = "next" /\ doing[TheWorker].first \in Parts
           /\ LET p == doing[TheWorker].first IN
              \/ p \notin row /\ job' = job /\ doing'[TheWorker] = Idle
              \/ /\ IF doing[TheWorker].stage = "transcribe" /\ job[p]["assemble"] # "running"
                    THEN job' = [job EXCEPT ![p]["assemble"] = "pending"] ELSE job' = job
                 /\ doing'[TheWorker].at = "pending"
                 /\ doing'[TheWorker].first = p /\ doing'[TheWorker].todo = doing[TheWorker].todo
<1> DEFINE p == doing[TheWorker].first
<1>1. doing[TheWorker].at = "next" /\ TheWorker \in LibraryThreads
      /\ UNCHANGED <<row, folder, alias, waits, Memory>>
  BY DEF EnqueuesNext, LibraryThreads
<1>2. p \in Parts /\ doing[TheWorker].stage \in Stages /\ doing[TheWorker].second = None
      /\ doing \in [LibraryThreads -> Doing] /\ job \in [Parts -> [Stages -> JobStates]]
      /\ doing[TheWorker].at \notin MergeAt
  BY <1>1, Pieces DEF Base, Threads, WorkerAt, LibraryTypeOK, MergeAt
<1> DEFINE Goes == IF doing[TheWorker].stage = "transcribe" /\ job[p]["assemble"] # "running"
                   THEN job' = [job EXCEPT ![p]["assemble"] = "pending"] ELSE job' = job
<1>3. \/ p \notin row /\ job' = job /\ Is(TheWorker, Idle)
      \/ Goes /\ To(TheWorker, "pending")
  BY DEF EnqueuesNext
<1>6. Goes => job' \in [Parts -> [Stages -> JobStates]]
  BY <1>2 DEF Stages, JobStates
<1> HIDE DEF p
<1>4. CASE p \notin row /\ job' = job /\ Is(TheWorker, Idle)
  <2>1. /\ doing' \in [LibraryThreads -> Doing] /\ doing'[TheWorker] = Idle
        /\ \A u \in LibraryThreads \ {TheWorker} : doing'[u] = doing[u]
    BY <1>1, <1>2, <1>4, IsOwn, IdleIsDoing
  <2>2. LibraryTypeOK'
    BY <1>1, <1>4, <2>1 DEF Base, LibraryTypeOK, Memory
  <2>3. Base' /\ NoMerge
    BY <1>1, <1>2, <2>1, <2>2, BaseTurn
  <2> QED BY <1>1, <1>2, <1>4, <2>1, <2>3 DEF p
<1>5. CASE Goes /\ To(TheWorker, "pending")
  <2>1. /\ doing' \in [LibraryThreads -> Doing] /\ doing'[TheWorker].at = "pending"
        /\ doing'[TheWorker].first = p /\ doing'[TheWorker].second = doing[TheWorker].second
        /\ doing'[TheWorker].todo = doing[TheWorker].todo
        /\ \A u \in LibraryThreads \ {TheWorker} : doing'[u] = doing[u]
    BY <1>1, <1>2, <1>5, ToOwn DEF Ats, p
  <2>2. LibraryTypeOK'
    BY <1>1, <1>2, <1>5, <1>6, <2>1 DEF Base, LibraryTypeOK, Memory
  <2>3. doing'[TheWorker].at \notin MergeAt \union {"rest"}
    BY <2>1 DEF MergeAt
  <2>4. Base' /\ NoMerge
    BY <1>1, <1>2, <2>1, <2>2, <2>3, BaseTurn
  <2> QED BY <1>1, <1>2, <1>5, <2>1, <2>4 DEF p
<1> QED BY <1>3, <1>4, <1>5

LEMMA RetryPressedDoes ==
    ASSUME Base, MergesAlone, NEW t \in Pressers, RetryPressed(t)
    PROVE  /\ Base' /\ NoMerge /\ UNCHANGED <<row, folder, alias, deleting, doing, removed, flaws>>
           /\ \E p \in row : job' = [job EXCEPT ![p]["transcribe"] = "pending"]
<1>1. UNCHANGED <<row, folder, alias, waits, deleting, doing, removed, flaws>>
  BY DEF RetryPressed
<1>2. PICK p \in row : job' = [job EXCEPT ![p]["transcribe"] = "pending"]
  BY DEF RetryPressed
<1>3. quota' \in [Happenings -> Nat]
  BY UsesTypes DEF RetryPressed, Base, LibraryTypeOK, Happenings
<1>4. LibraryTypeOK'
  BY <1>1, <1>2, <1>3 DEF Base, LibraryTypeOK, Stages, JobStates
<1> QED BY <1>1, <1>2, <1>4, ThreadsStay DEF Base, NoMerge

\* What is left of the jobs of a recording that is to go.
OnlyRunning(m) == [s \in Stages |-> IF job[m][s] = "running" THEN job[m][s] ELSE "none"]

LEMMA DeletePressedDoes ==
    ASSUME Base, MergesAlone, NEW t \in Pressers, DeletePressed(t)
    PROVE  /\ Base' /\ NoMerge /\ UNCHANGED <<alias, doing, flaws>>
           /\ \E m \in row :
                 /\ removed' = removed \union Held(m)
                 /\ \/ /\ Busy(m) /\ deleting' = deleting \union {m} /\ row' = row
                       /\ folder' = [folder EXCEPT ![m].marker = TRUE]
                       /\ job' = [job EXCEPT ![m] = OnlyRunning(m)]
                    \/ deleting' = deleting /\ purge(m)
                    \/ deleting' = deleting /\ job' = [job EXCEPT ![m] = NoJobs] /\ UNCHANGED <<row, folder>>
<1>1. UNCHANGED <<alias, waits, doing, flaws>>
  BY DEF DeletePressed
<1>2. PICK p \in Parts :
        LET m == resolve(p) IN
          /\ m \in row
          /\ removed' = removed \union Held(m)
          /\ IF Busy(m)
             THEN /\ deleting' = deleting \union {m}
                  /\ folder' = [folder EXCEPT ![m].marker = TRUE]
                  /\ job' = [job EXCEPT ![m] =
                               [s \in Stages |-> IF @[s] = "running" THEN @[s] ELSE "none"]]
                  /\ UNCHANGED row
             ELSE /\ UNCHANGED deleting
                  /\ \/ purge(m)
                     \/ /\ quota["held"] > 0
                        /\ job' = [job EXCEPT ![m] = NoJobs]
                        /\ UNCHANGED <<row, folder>>
  BY DEF DeletePressed
<1> DEFINE m == resolve(p)
<1>3. m \in row /\ m \in Parts /\ removed' = removed \union Held(m)
  BY <1>2 DEF Base, LibraryTypeOK
<1>4. \/ /\ Busy(m) /\ deleting' = deleting \union {m} /\ row' = row
         /\ folder' = [folder EXCEPT ![m].marker = TRUE]
         /\ job' = [job EXCEPT ![m] = OnlyRunning(m)]
      \/ deleting' = deleting /\ purge(m)
      \/ deleting' = deleting /\ job' = [job EXCEPT ![m] = NoJobs] /\ UNCHANGED <<row, folder>>
  BY <1>2 DEF OnlyRunning
<1> HIDE DEF m
<1>5. quota' \in [Happenings -> Nat]
  BY UsesTypes DEF DeletePressed, Base, LibraryTypeOK, Happenings
<1>6. removed' \subseteq Parts
  BY <1>3 DEF Held, Base, LibraryTypeOK
<1>7. NoJobs \in [Stages -> JobStates] /\ OnlyRunning(m) \in [Stages -> JobStates]
  BY <1>3 DEF NoJobs, OnlyRunning, JobStates, Base, LibraryTypeOK
<1>8. /\ folder' \in [Parts -> Folder] /\ row' \subseteq Parts /\ deleting' \subseteq Parts
      /\ job' \in [Parts -> [Stages -> JobStates]]
  <2>1. CASE /\ deleting' = deleting \union {m} /\ row' = row
             /\ folder' = [folder EXCEPT ![m].marker = TRUE]
             /\ job' = [job EXCEPT ![m] = OnlyRunning(m)]
    BY <1>3, <1>7, <2>1, MarkerSet DEF Base, LibraryTypeOK
  <2>2. CASE deleting' = deleting /\ purge(m)
    BY <1>3, <2>2, PurgeTypes DEF Base, LibraryTypeOK
  <2>3. CASE deleting' = deleting /\ job' = [job EXCEPT ![m] = NoJobs] /\ UNCHANGED <<row, folder>>
    BY <1>3, <1>7, <2>3 DEF Base, LibraryTypeOK
  <2> QED BY <1>4, <2>1, <2>2, <2>3
<1>9. LibraryTypeOK'
  BY <1>1, <1>5, <1>6, <1>8 DEF Base, LibraryTypeOK
<1>10. Base' /\ NoMerge
  <2>1. Threads' /\ NoMerge
    BY <1>1, ThreadsStay DEF NoMerge
  <2> QED BY <1>9, <2>1 DEF Base
<1> QED BY <1>1, <1>3, <1>4, <1>10

LEMMA SweepBeginsDoes ==
    ASSUME Base, MergesAlone, NEW t \in LibraryThreads, SweepBegins(t)
    PROVE  /\ Base' /\ NoMerge /\ UNCHANGED <<row, folder, job, alias, deleting, flaws>>
           /\ \A u \in LibraryThreads \ {t} : doing'[u] = doing[u]
           /\ doing[t].at = "rest" /\ doing'[t].at = "sweep"
           /\ \/ doing'[t].todo = {p \in row : Strips(p)} \X {"strip"} /\ removed' = removed
              \/ /\ doing'[t].todo = {p \in row : ~Queued(p)} \X {"purge"}
                 /\ removed' = removed \union UNION {Held(p) : p \in {q \in row : ~Queued(q)}}
<1>1. UNCHANGED <<row, folder, job, alias, waits, deleting, flaws>> /\ doing[t].at = "rest"
  BY DEF SweepBegins, Free
<1>2. PICK kind \in {"strip", "purge"} :
       LET doomed == IF kind = "strip" THEN {p \in row : Strips(p)}
                     ELSE {p \in row : ~Queued(p)} IN
          /\ Uses(kind)
          /\ Is(t, [Idle EXCEPT !.at = "sweep", !.todo = doomed \X {kind}])
          /\ removed' = IF kind = "purge" THEN removed \union UNION {Held(p) : p \in doomed}
                        ELSE removed
  BY DEF SweepBegins
<1> DEFINE doomed == IF kind = "strip" THEN {p \in row : Strips(p)} ELSE {p \in row : ~Queued(p)}
           todo == doomed \X {kind}
           on == [Idle EXCEPT !.at = "sweep", !.todo = todo]
<1>3. quota' \in [Happenings -> Nat]
  <2>1. Uses(kind) /\ kind \in Happenings
    BY <1>2 DEF Happenings
  <2> QED BY <2>1, UsesTypes DEF Base, LibraryTypeOK
<1>4. removed' = IF kind = "purge" THEN removed \union UNION {Held(p) : p \in doomed} ELSE removed
  BY <1>2
<1>5. doomed \subseteq Parts /\ todo \in SUBSET (Parts \X {"strip", "purge"})
  BY DEF Base, LibraryTypeOK
<1>6. removed' \subseteq Parts
  <2>1. UNION {Held(p) : p \in doomed} \subseteq Parts
    <3> HIDE DEF doomed
    <3> QED BY <1>5 DEF Held
  <2> HIDE DEF doomed
  <2> QED BY <1>4, <2>1 DEF Base, LibraryTypeOK
<1>7. Is(t, on)
  BY <1>2
<1>8. todo = doomed \X {kind}
  OBVIOUS
<1>9. \/ kind = "strip" /\ doomed = {p \in row : Strips(p)}
      \/ kind = "purge" /\ doomed = {p \in row : ~Queued(p)}
  OBVIOUS
<1> HIDE DEF todo, doomed
<1>10. on \in Doing /\ on.at = "sweep" /\ on.todo = todo /\ on.second = None
  <2>1. ASSUME NEW d \in Doing PROVE [d EXCEPT !.at = "sweep", !.todo = todo] \in Doing
    BY <1>5 DEF Doing
  <2>2. on \in Doing
    BY <2>1, IdleIsDoing
  <2>3. on.at = "sweep" /\ on.todo = todo /\ on.second = None
    BY DEF Idle
  <2> QED BY <2>2, <2>3
<1> HIDE DEF on
<1>11. /\ doing' \in [LibraryThreads -> Doing] /\ doing'[t] = on
       /\ \A u \in LibraryThreads \ {t} : doing'[u] = doing[u]
  BY <1>7, <1>10, IsOwn DEF Base, LibraryTypeOK
<1>12. LibraryTypeOK'
  BY <1>1, <1>3, <1>6, <1>11 DEF Base, LibraryTypeOK
<1>13. Base' /\ NoMerge
  <2>1. doing[t].at \notin MergeAt /\ doing'[t].at \notin MergeAt \union WorkerAt \union {"rest"}
        /\ doing'[t].second = None
    BY <1>1, <1>10, <1>11 DEF MergeAt, WorkerAt
  <2> QED BY <1>11, <1>12, <2>1, BaseTurn
<1>14. CASE kind = "strip" /\ doomed = {p \in row : Strips(p)}
  BY <1>1, <1>4, <1>8, <1>10, <1>11, <1>13, <1>14
<1>15. CASE kind = "purge" /\ doomed = {p \in row : ~Queued(p)}
  BY <1>1, <1>4, <1>8, <1>10, <1>11, <1>13, <1>15
<1> QED BY <1>9, <1>14, <1>15

LEMMA SweepsDoes ==
    ASSUME Base, MergesAlone, NEW t \in LibraryThreads, Sweeps(t)
    PROVE  /\ Base' /\ NoMerge /\ UNCHANGED <<alias, deleting, quota, removed>>
           /\ flaws' = flaws \/ flaws' = flaws \union {"unheard"}
           /\ \A u \in LibraryThreads \ {t} : doing'[u] = doing[u]
           /\ doing[t].at = "sweep"
           /\ \/ doing'[t] = Idle /\ UNCHANGED <<row, folder, job>>
              \/ /\ doing'[t].at = "sweep" /\ doing'[t].todo \subseteq doing[t].todo
                 /\ \/ UNCHANGED <<row, folder, job>>
                    \/ \E p \in row : /\ <<p, "purge">> \in doing[t].todo /\ purge(p)
                    \/ \E p \in row : /\ <<p, "strip">> \in doing[t].todo
                                      /\ folder' = [folder EXCEPT ![p].audio = <<>>]
                                      /\ UNCHANGED <<row, job>>
                                      /\ GoesUnheard(p) => "unheard" \in flaws'
<1>1. /\ doing[t].at = "sweep" /\ UNCHANGED <<alias, waits, deleting, quota, removed>>
      /\ flaws' = flaws \/ flaws' = flaws \union {"unheard"}
  BY DEF Sweeps, Flawed
<1>2. doing \in [LibraryThreads -> Doing] /\ doing[t].at \notin MergeAt /\ doing[t].second = None
      /\ doing[t] \in Doing
  BY <1>1 DEF Base, Threads, LibraryTypeOK, MergeAt
<1>3. CASE doing[t].todo = {}
  <2>1. Is(t, Idle) /\ UNCHANGED <<row, folder, job>>
    BY <1>3 DEF Sweeps
  <2>2. /\ doing' \in [LibraryThreads -> Doing] /\ doing'[t] = Idle
        /\ \A u \in LibraryThreads \ {t} : doing'[u] = doing[u]
    BY <1>2, <2>1, IsOwn, IdleIsDoing
  <2>3. LibraryTypeOK'
    BY <1>1, <2>1, <2>2 DEF Base, LibraryTypeOK, Flaws
  <2>4. Base' /\ NoMerge
    BY <1>2, <2>2, <2>3, BaseTurn
  <2> QED BY <1>1, <2>1, <2>2, <2>4
<1>4. CASE doing[t].todo # {}
  <2>1. PICK c \in doing[t].todo :
            /\ Is(t, [doing[t] EXCEPT !.todo = @ \ {c}])
            /\ IF c[1] \notin row THEN UNCHANGED <<row, folder, job>>
               ELSE IF c[2] = "purge" THEN purge(c[1])
               ELSE /\ folder' = [folder EXCEPT ![c[1]].audio = <<>>] /\ UNCHANGED <<row, job>>
                    /\ GoesUnheard(c[1]) => "unheard" \in flaws'
    BY <1>4 DEF Sweeps, Flawed
  <2> DEFINE todo == doing[t].todo \ {c}
             on == [doing[t] EXCEPT !.todo = todo]
  <2>2. doing[t].todo \in SUBSET (Parts \X {"strip", "purge"})
    BY <1>2 DEF Doing
  <2>3. c[1] \in Parts /\ c[2] \in {"strip", "purge"} /\ c = <<c[1], c[2]>>
    BY <2>2
  <2>4. Is(t, on)
    BY <1>2, <2>1 DEF Doing
  <2>5. todo \subseteq doing[t].todo /\ todo \in SUBSET (Parts \X {"strip", "purge"})
    BY <2>2
  <2> HIDE DEF todo
  <2>6. on \in Doing
    BY <1>2, <2>5 DEF Doing
  <2>7. on.at = "sweep" /\ on.todo = todo /\ on.second = None
    BY <1>1, <1>2 DEF Doing
  <2> HIDE DEF on
  <2>8. /\ doing' \in [LibraryThreads -> Doing] /\ doing'[t] = on
        /\ \A u \in LibraryThreads \ {t} : doing'[u] = doing[u]
    BY <1>2, <2>4, <2>6, IsOwn
  <2>9. \/ UNCHANGED <<row, folder, job>>
        \/ c[1] \in row /\ <<c[1], "purge">> \in doing[t].todo /\ purge(c[1])
        \/ /\ c[1] \in row /\ <<c[1], "strip">> \in doing[t].todo
           /\ folder' = [folder EXCEPT ![c[1]].audio = <<>>] /\ UNCHANGED <<row, job>>
           /\ GoesUnheard(c[1]) => "unheard" \in flaws'
    BY <2>1, <2>3
  <2>10. /\ folder' \in [Parts -> Folder] /\ row' \subseteq Parts
         /\ job' \in [Parts -> [Stages -> JobStates]]
    <3>1. CASE UNCHANGED <<row, folder, job>>
      BY <3>1 DEF Base, LibraryTypeOK
    <3>2. CASE purge(c[1])
      BY <2>3, <3>2, PurgeTypes DEF Base
    <3>3. CASE folder' = [folder EXCEPT ![c[1]].audio = <<>>] /\ UNCHANGED <<row, job>>
      <4>1. <<>> \in Seq(Parts) /\ folder \in [Parts -> Folder]
        BY DEF Base, LibraryTypeOK
      <4> QED BY <2>3, <3>3, <4>1, AudioSet DEF Base, LibraryTypeOK
    <3> QED BY <2>9, <3>1, <3>2, <3>3
  <2>11. LibraryTypeOK'
    BY <1>1, <2>8, <2>10 DEF Base, LibraryTypeOK, Flaws
  <2>12. Base' /\ NoMerge
    <3>1. doing'[t].at \notin MergeAt \union WorkerAt \union {"rest"} /\ doing'[t].second = None
      BY <2>7, <2>8 DEF MergeAt, WorkerAt
    <3> QED BY <1>2, <2>8, <2>11, <3>1, BaseTurn
  <2>13. doing'[t].at = "sweep" /\ doing'[t].todo \subseteq doing[t].todo
    BY <2>5, <2>7, <2>8
  <2> QED BY <1>1, <2>8, <2>9, <2>12, <2>13
<1> QED BY <1>3, <1>4

\* What is left of the jobs when the process starts again.
Resumed(p) == Moved(job, p, "running", "pending")[p]

LEMMA DiesDoes ==
    ASSUME Base, Dies
    PROVE  /\ Base' /\ UNCHANGED <<alias, removed>> /\ deleting' = {}
           /\ \A t \in LibraryThreads : doing'[t] = Idle
           /\ row' = row \ {p \in Parts : folder[p].marker}
           /\ \A p \in row' : /\ ~folder[p].marker /\ folder'[p] = folder[p]
                              /\ job'[p] = Resumed(p)
           /\ flaws' = IF \E t \in LibraryThreads : doing[t].second # None \/ doing[t].at = "next"
                       THEN flaws \union {"cut"} ELSE flaws
<1> DEFINE marked == {p \in Parts : folder[p].marker}
<1>1. /\ folder' = [p \in Parts |-> IF p \in marked THEN NoFolder ELSE folder[p]]
      /\ row' = row \ marked
      /\ job' = [p \in Parts |-> IF p \in marked THEN NoJobs ELSE Resumed(p)]
      /\ doing' = [t \in LibraryThreads |-> Idle]
      /\ deleting' = {} /\ UNCHANGED <<alias, waits, removed>>
      /\ flaws' = IF \E t \in LibraryThreads : doing[t].second # None \/ doing[t].at = "next"
                  THEN flaws \union {"cut"} ELSE flaws
  BY DEF Dies, Resumed
<1>2. quota' \in [Happenings -> Nat]
  BY UsesTypes DEF Dies, Base, LibraryTypeOK, Happenings
<1> HIDE DEF marked
<1>3. \A p \in Parts : Resumed(p) \in [Stages -> JobStates]
  BY MovedTypes DEF Resumed, Base, LibraryTypeOK, JobStates
<1>4. NoJobs \in [Stages -> JobStates]
  BY DEF NoJobs, JobStates
<1>5. LibraryTypeOK'
  BY <1>1, <1>2, <1>3, <1>4, IdleIsDoing DEF Base, LibraryTypeOK, Flaws
<1>6. Threads'
  <2>1. \A t \in LibraryThreads : doing'[t] = Idle /\ doing'[t].at = "rest" /\ doing'[t].second = None
    BY <1>1, IdleIsDoing
  <2> QED BY <2>1 DEF Threads, MergeAt, WorkerAt
<1>7. row \subseteq Parts
  BY DEF Base, LibraryTypeOK
<1> QED BY <1>1, <1>5, <1>6, <1>7 DEF Base, marked

(***************************************************************************)
(* Once.                                                                   *)
(***************************************************************************)
Quiet == \A m \in row : alias[m] = None /\ Apart(folder[m].audio, {m})

Open == Joined \union Led \union {"append"}

LEMMA OnceIsQuiet ==
    ASSUME Once, "cut" \notin flaws, \A t \in LibraryThreads : doing[t].at \notin Joined \union Led
    PROVE  Quiet
BY DEF Once, Quiet, FirstAt, SecondAt

LEMMA QuietIsOnce ==
    ASSUME "cut" \notin flaws' => Quiet', \A t \in LibraryThreads : doing'[t].at \notin Open
    PROVE  Once'
BY DEF Once, Quiet, FirstAt, SecondAt, Open, Joined, Led

LEMMA SilenceIsApart ==
    ASSUME NEW ms
    PROVE  Apart(<<>>, ms)
BY DEF Apart, IsInjective, ToSet

\* What changes no file but to nothing, and leads no id elsewhere, keeps them apart.
LEMMA OnceStay ==
    ASSUME Base, Once, NoMerge, alias' = alias, flaws \subseteq flaws', row' \subseteq row,
           \A m \in row' : folder'[m].audio \in {folder[m].audio, <<>>},
           \A t \in LibraryThreads : doing'[t].at \notin Open
    PROVE  Once'
<1>1. SUFFICES ASSUME "cut" \notin flaws'
               PROVE  Quiet'
  BY QuietIsOnce
<1>2. Quiet
  BY <1>1, OnceIsQuiet DEF NoMerge, MergeAt, Joined, Led
<1>3. ASSUME NEW m \in row'
      PROVE  alias'[m] = None /\ (Apart(folder[m].audio, {m}))'
  <2>1. alias[m] = None /\ Apart(folder[m].audio, {m})
    BY <1>2, <1>3 DEF Quiet
  <2>2. Apart(folder'[m].audio, {m})
    BY <1>3, <2>1, SilenceIsApart
  <2> QED BY <2>1, <2>2 DEF Apart, resolve
<1> QED BY <1>3 DEF Quiet

LEMMA ApartJoined ==
    ASSUME NEW x \in Seq(Parts), NEW y \in Seq(Parts), NEW a, NEW b, a # b,
           Apart(x, {a}), Apart(y, {b})
    PROVE  Apart(x \o y, {a, b})
<1>1. ASSUME NEW i \in DOMAIN (x \o y)
      PROVE  \/ i \in DOMAIN x /\ (x \o y)[i] = x[i] /\ resolve((x \o y)[i]) = a
             \/ i \notin DOMAIN x /\ i - Len(x) \in DOMAIN y /\ (x \o y)[i] = y[i - Len(x)]
                /\ resolve((x \o y)[i]) = b
  <2>1. CASE i <= Len(x)
    <3>1. i \in DOMAIN x /\ (x \o y)[i] = x[i]
      BY <2>1
    <3> QED BY <3>1 DEF Apart, ToSet
  <2>2. CASE i > Len(x)
    <3>1. i \notin DOMAIN x /\ i - Len(x) \in DOMAIN y /\ (x \o y)[i] = y[i - Len(x)]
      BY <2>2
    <3> QED BY <3>1 DEF Apart, ToSet
  <2>3. i \in Nat /\ Len(x) \in Nat
    OBVIOUS
  <2> QED BY <2>1, <2>2, <2>3
<1>2. IsInjective(x \o y)
  <2> SUFFICES ASSUME NEW i \in DOMAIN (x \o y), NEW j \in DOMAIN (x \o y), (x \o y)[i] = (x \o y)[j]
               PROVE  i = j
    BY DEF IsInjective
  <2>1. CASE i \in DOMAIN x /\ j \in DOMAIN x
    BY <1>1, <2>1 DEF Apart, IsInjective
  <2>2. CASE i \notin DOMAIN x /\ j \notin DOMAIN x
    <3>1. i - Len(x) = j - Len(x)
      BY <1>1, <2>2 DEF Apart, IsInjective
    <3>2. i \in Nat /\ j \in Nat /\ Len(x) \in Nat
      OBVIOUS
    <3> QED BY <3>1, <3>2
  <2> QED BY <1>1, <2>1, <2>2
<1>3. \A q \in ToSet(x \o y) : resolve(q) \in {a, b}
  BY <1>1 DEF ToSet
<1> QED BY <1>2, <1>3 DEF Apart

\* At a merge, with what it says of its own two recordings.
LEMMA OnceMerge ==
    ASSUME Base, Base', Once, MergesAlone, NEW t \in LibraryThreads, MergeStep(t)
    PROVE  Once'
<1>0. PICK a, b : a = doing[t].first /\ b = doing[t].second
  OBVIOUS
<1> USE <1>0
<1>1. /\ doing[t].at \in MergeAt
      /\ \A u \in LibraryThreads \ {t} : doing'[u] = doing[u]
      /\ \/ doing'[t] = Idle
         \/ /\ row' = row /\ doing'[t].at \in MergeAt
            /\ doing'[t].first = a /\ doing'[t].second = b
  BY BaseMerge
<1>2. /\ a \in row /\ b \in row /\ a # b /\ a \in Parts /\ b \in Parts
      /\ \A u \in LibraryThreads \ {t} : doing[u] = Idle /\ doing[u].at = "rest" /\ doing'[u].at = "rest"
  BY <1>1, NothingBesideMerge, IdleIsDoing DEF Base
<1>3. /\ \A p \in Parts : folder[p].audio \in Seq(Parts)
      /\ row \subseteq Parts /\ folder \in [Parts -> Folder] /\ doing[t] \in Doing
      /\ alias \in [Parts -> Parts \union {None}] /\ doing \in [LibraryThreads -> Doing]
      /\ folder[a] \in Folder /\ folder[b] \in Folder
  BY <1>2, Pieces DEF Base, LibraryTypeOK
<1>5. flaws \subseteq flaws'
  BY MergeFailsDoes
  DEF MergeStep, WithdrawsSecond, Appends, Joins, Undoes, Aliases, Redoes, Removes, Memory, Flawed
<1> SUFFICES ASSUME "cut" \notin flaws, "cut" \notin flaws'
             PROVE  Once'
  BY <1>5 DEF Once
<1>6. ASSUME doing'[t] = Idle PROVE \A u \in LibraryThreads : doing'[u].at \notin Open
  BY <1>2, <1>6, IdleIsDoing DEF Open, Joined, Led
<1>7. ASSUME doing[t].at \notin Joined \union Led PROVE Quiet
  BY <1>2, <1>7, OnceIsQuiet DEF Joined, Led
<1>8. ASSUME NEW at \in MergeAt, To(t, at)
      PROVE  doing'[t].at = at /\ doing'[t].before = doing[t].before /\ doing'[t].first = a /\ doing'[t].second = b
  BY <1>3, <1>8, ToOwn DEF Ats, MergeAt
<1>11. CASE WithdrawsSecond(t)
  <2>1. UNCHANGED <<row, folder, alias>> /\ doing[t].at = "second"
    BY <1>11 DEF WithdrawsSecond
  <2>2. Quiet
    BY <1>7, <2>1 DEF Joined, Led
  <2>3. Quiet'
    BY <2>1, <2>2 DEF Quiet, Apart, resolve
  <2>4. CASE doing'[t] = Idle
    BY <1>6, <2>3, <2>4, QuietIsOnce
  <2>5. CASE doing'[t] # Idle
    <3>1. Is(t, [doing[t] EXCEPT !.at = "append", !.before = folder[a],
                                 !.both = transcribed(a) /\ transcribed(b)])
      <4>1. CASE Busy(b)
        BY <1>2, <1>3, <1>11, <2>5, <4>1, IsOwn, IdleIsDoing DEF WithdrawsSecond, Refuses
      <4>2. CASE ~Busy(b)
        BY <1>11, <4>2 DEF WithdrawsSecond
      <4> QED BY <4>1, <4>2
    <3>2. doing'[t].at = "append" /\ doing'[t].before = folder[a]
      BY <1>3, <3>1 DEF Is, Doing
    <3>3. Apart(folder[a].audio, {a})
      BY <1>2, <2>2 DEF Quiet
    <3>4. Apart(doing[t].before.audio, {a})'
      BY <2>1, <3>2, <3>3 DEF Apart, resolve
    <3>5. doing'[t].first = a
      BY <1>1, <2>5
    <3>6. \A u \in LibraryThreads : doing'[u].at \notin Joined \union Led
      BY <1>2, <3>2 DEF Joined, Led
    <3>7. \A u \in LibraryThreads \ {t} : doing'[u].at = "rest"
      BY <1>2
    <3> QED BY <2>3, <3>2, <3>4, <3>5, <3>6, <3>7 DEF Once, Quiet, FirstAt, SecondAt
  <2> QED BY <2>4, <2>5
<1>12. CASE Appends(t)
  <2>1. /\ doing[t].at = "append" /\ UNCHANGED <<row, alias>>
        /\ folder' = [folder EXCEPT ![a].audio = @ \o folder[b].audio]
        /\ To(t, "undo") \/ To(t, "join")
    BY <1>12 DEF Appends
  <2>2. Quiet /\ Apart(doing[t].before.audio, {a})
    BY <1>7, <2>1 DEF Joined, Led, Once
  <2>3. /\ doing'[t].at \in {"undo", "join"} /\ doing'[t].before = doing[t].before
        /\ doing'[t].first = a /\ doing'[t].second = b
    BY <1>8, <2>1 DEF MergeAt
  <2>4. /\ folder'[a].audio = folder[a].audio \o folder[b].audio
        /\ \A p \in Parts \ {a} : folder'[p] = folder[p]
    <3>1. PICK s \in Seq(Parts) : s = folder[b].audio
      BY <1>2, <1>3
    <3>2. folder' = [folder EXCEPT ![a].audio = @ \o s]
      BY <2>1, <3>1
    <3>3. a \in Parts /\ folder \in [Parts -> Folder]
      BY <1>2, <1>3
    <3> HIDE <1>0
    <3>4. folder'[a].audio = folder[a].audio \o s /\ \A p \in Parts \ {a} : folder'[p] = folder[p]
      BY ONLY <3>2, <3>3, AudioGrows
    <3> QED BY <3>1, <3>4
  <2>5. Apart(folder[a].audio \o folder[b].audio, {a, b})
    <3>1. Apart(folder[a].audio, {a}) /\ Apart(folder[b].audio, {b})
      BY <1>2, <2>2 DEF Quiet
    <3>2. folder[a].audio \in Seq(Parts) /\ folder[b].audio \in Seq(Parts)
      BY <1>2, <1>3
    <3> QED BY <1>2, <3>1, <3>2, ApartJoined
  <2>6. Apart(folder[a].audio, {a, b})' /\ Apart(doing[t].before.audio, {a})'
    BY <2>1, <2>2, <2>3, <2>4, <2>5 DEF Apart, resolve
  <2>7. ASSUME NEW m \in row', m # a
        PROVE  Apart(folder[m].audio, {m})' /\ alias'[m] = None
    <3>1. folder'[m] = folder[m] /\ m \in row
      BY <1>3, <2>1, <2>4, <2>7
    <3> QED BY <2>1, <2>2, <3>1 DEF Quiet, Apart, resolve
  <2>8. alias'[a] = None
    BY <1>2, <2>1, <2>2 DEF Quiet
  <2>9. \A u \in LibraryThreads \ {t} : doing'[u].at = "rest"
    BY <1>2
  <2>10. FirstAt(a, Joined)'
    BY <2>3 DEF FirstAt, Joined
  <2> QED BY <2>3, <2>6, <2>7, <2>8, <2>9, <2>10 DEF Once
<1>13. CASE Joins(t)
  <2>1. /\ doing[t].at = "join" /\ UNCHANGED <<row, alias>> /\ To(t, "alias")
        /\ folder' = folder \/ folder' = [folder EXCEPT ![a].segments = @ \o folder[b].segments]
    BY <1>13 DEF Joins
  <2>2. \A p \in Parts : folder'[p].audio = folder[p].audio
    <3>1. folder[b].segments \in Seq(Parts)
      BY <1>3 DEF Folder
    <3>2. CASE folder' = [folder EXCEPT ![a].segments = @ \o folder[b].segments]
      <4>1. /\ folder'[a].audio = folder[a].audio
            /\ \A p \in Parts \ {a} : folder'[p] = folder[p]
        <5>1. a \in Parts /\ folder \in [Parts -> Folder]
          BY <1>2, <1>3
        <5> HIDE <1>0
        <5> QED BY ONLY <5>1, <3>1, <3>2, SegmentsGrow
      <4> QED BY <4>1
    <3> QED BY <2>1, <3>2
  <2>3. doing'[t].at = "alias" /\ doing'[t].first = a /\ doing'[t].second = b
    BY <1>8, <2>1 DEF MergeAt
  <2>4. Apart(folder[a].audio, {a, b})
    BY <2>1 DEF Once
  <2>5. ASSUME NEW m \in row PROVE alias[m] = None /\ (m # a => Apart(folder[m].audio, {m}))
    <3>1. ~SecondAt(m, Led) /\ (m # a => ~FirstAt(m, Joined))
      BY <1>2, <2>1 DEF SecondAt, FirstAt, Led, Joined
    <3> QED BY <2>5, <3>1 DEF Once
  <2>6. Apart(folder[a].audio, {a, b})'
    BY <1>2, <2>1, <2>2, <2>4 DEF Apart, resolve
  <2>7. ASSUME NEW m \in row' PROVE alias'[m] = None /\ (m # a => Apart(folder[m].audio, {m})')
    <3>1. folder'[m].audio = folder[m].audio
      BY <1>3, <2>1, <2>2, <2>7
    <3> QED BY <2>1, <2>5, <2>7, <3>1 DEF Apart, resolve
  <2>8. \A u \in LibraryThreads \ {t} : doing'[u].at = "rest"
    BY <1>2
  <2>9. FirstAt(a, Joined)'
    BY <2>3 DEF FirstAt, Joined
  <2> QED BY <2>3, <2>6, <2>7, <2>8, <2>9 DEF Once
<1>14. CASE Undoes(t)
  <2>1. /\ doing[t].at = "undo" /\ UNCHANGED <<row, alias>> /\ Is(t, Idle)
        /\ folder' = [folder EXCEPT ![a] = doing[t].before]
    BY <1>14 DEF Undoes, Refuses, Memory
  <2>2. doing'[t] = Idle
    BY <1>3, <2>1, IsOwn, IdleIsDoing
  <2>3. Apart(doing[t].before.audio, {a})
    BY <2>1 DEF Once
  <2>5. ASSUME NEW m \in row PROVE alias[m] = None /\ (m # a => Apart(folder[m].audio, {m}))
    <3>1. ~SecondAt(m, Led) /\ (m # a => ~FirstAt(m, Joined))
      BY <1>2, <2>1 DEF SecondAt, FirstAt, Led, Joined
    <3> QED BY <2>5, <3>1 DEF Once
  <2>6. ASSUME NEW m \in row' PROVE alias'[m] = None /\ Apart(folder[m].audio, {m})'
    <3>1. folder'[m].audio = IF m = a THEN doing[t].before.audio ELSE folder[m].audio
      BY <1>2, <1>3, <2>1, <2>6
    <3>2. Apart(folder'[m].audio, {m})
      BY <2>1, <2>3, <2>5, <2>6, <3>1
    <3> QED BY <2>1, <2>5, <2>6, <3>2 DEF Apart, resolve
  <2>7. Quiet'
    BY <2>6 DEF Quiet
  <2> QED BY <1>6, <2>2, <2>7, QuietIsOnce
<1>15. CASE Aliases(t)
  <2>1. /\ doing[t].at = "alias" /\ UNCHANGED <<row, folder>> /\ add_alias(b, a) /\ To(t, "redo")
    BY <1>2, <1>15 DEF Aliases
  <2>2. doing'[t].at = "redo" /\ doing'[t].first = a /\ doing'[t].second = b
    BY <1>8, <2>1 DEF MergeAt
  <2>3. Apart(folder[a].audio, {a, b})
    BY <2>1 DEF Once
  <2>5. ASSUME NEW m \in row PROVE alias[m] = None /\ (m # a => Apart(folder[m].audio, {m}))
    <3>1. ~SecondAt(m, Led) /\ (m # a => ~FirstAt(m, Joined))
      BY <1>2, <2>1 DEF SecondAt, FirstAt, Led, Joined
    <3> QED BY <2>5, <3>1 DEF Once
  <2>6. \A p \in Parts : alias'[p] = IF p = b \/ alias[p] = b THEN a ELSE alias[p]
    BY <2>1 DEF add_alias
  <2>7. ASSUME NEW m \in row', m # b PROVE alias'[m] = None
    <3>1. alias[m] = None /\ m \in Parts
      BY <1>3, <2>1, <2>5, <2>7
    <3> QED BY <1>2, <2>6, <2>7, <3>1, PartsAreNumbered
  <2>8. ASSUME NEW q \in Parts
        PROVE  resolve(q)' = IF resolve(q) \in {a, b} THEN a ELSE resolve(q)
    <3>1. alias[a] = None /\ alias[b] = None
      BY <1>2, <2>5
    <3> QED BY <1>2, <2>6, <3>1, PartsAreNumbered DEF resolve
  <2>9. Apart(folder[a].audio, {a})'
    <3>1. \A q \in ToSet(folder[a].audio) : q \in Parts
      BY <1>2, <1>3 DEF ToSet
    <3>2. \A q \in ToSet(folder[a].audio) : resolve(q)' = a
      BY <2>3, <2>8, <3>1 DEF Apart
    <3> QED BY <2>1, <2>3, <3>2 DEF Apart
  <2>10. ASSUME NEW m \in row', m # b, m # a PROVE Apart(folder[m].audio, {m})'
    <3>1. Apart(folder[m].audio, {m}) /\ m \in Parts
      BY <1>3, <2>1, <2>5, <2>10
    <3>2. \A q \in ToSet(folder[m].audio) : q \in Parts
      BY <1>3, <3>1 DEF ToSet
    <3>3. \A q \in ToSet(folder[m].audio) : resolve(q)' = m
      BY <2>8, <2>10, <3>1, <3>2 DEF Apart
    <3> QED BY <2>1, <3>1, <3>3 DEF Apart
  <2>11. \A u \in LibraryThreads \ {t} : doing'[u].at = "rest"
    BY <1>2
  <2>12. SecondAt(b, Led)'
    BY <2>2 DEF SecondAt, Led
  <2> QED BY <2>2, <2>7, <2>9, <2>10, <2>11, <2>12 DEF Once
<1>16. CASE Redoes(t)
  <2>1. doing[t].at = "redo" /\ UNCHANGED <<row, folder, alias>> /\ To(t, "remove")
    BY <1>2, <1>16 DEF Redoes
  <2>2. doing'[t].at = "remove" /\ doing'[t].first = a /\ doing'[t].second = b
    BY <1>8, <2>1 DEF MergeAt
  <2>5. ASSUME NEW m \in row, m # b PROVE alias[m] = None /\ Apart(folder[m].audio, {m})
    <3>1. ~SecondAt(m, Led) /\ ~FirstAt(m, Joined)
      BY <1>2, <2>1, <2>5 DEF SecondAt, FirstAt, Led, Joined
    <3> QED BY <2>5, <3>1 DEF Once
  <2>6. ASSUME NEW m \in row', m # b PROVE alias'[m] = None /\ Apart(folder[m].audio, {m})'
    BY <2>1, <2>5, <2>6 DEF Apart, resolve
  <2>7. \A u \in LibraryThreads \ {t} : doing'[u].at = "rest"
    BY <1>2
  <2>8. SecondAt(b, Led)'
    BY <2>2 DEF SecondAt, Led
  <2> QED BY <2>2, <2>6, <2>7, <2>8 DEF Once
<1>17. CASE Removes(t)
  <2>1. doing[t].at = "remove" /\ UNCHANGED alias /\ Is(t, Idle) /\ row' = row \ {b}
    BY <1>17 DEF Removes, purge
  <2>2. doing'[t] = Idle
    BY <1>3, <2>1, IsOwn, IdleIsDoing
  <2>3. \A p \in Parts \ {b} : folder'[p] = folder[p]
    <3>1. CASE purge(b)
      BY <1>2, <1>3, <3>1 DEF purge
    <3>2. CASE folder' = [folder EXCEPT ![b].marker = TRUE]
      BY <1>2, <1>3, <3>2, MarkerSet
    <3> QED BY <1>17, <3>1, <3>2 DEF Removes
  <2>5. ASSUME NEW m \in row, m # b PROVE alias[m] = None /\ Apart(folder[m].audio, {m})
    <3>1. ~SecondAt(m, Led) /\ ~FirstAt(m, Joined)
      BY <1>2, <2>1, <2>5 DEF SecondAt, FirstAt, Led, Joined
    <3> QED BY <2>5, <3>1 DEF Once
  <2>6. ASSUME NEW m \in row' PROVE alias'[m] = None /\ Apart(folder[m].audio, {m})'
    <3>1. m \in row /\ m # b /\ folder'[m] = folder[m]
      BY <1>3, <2>1, <2>3, <2>6
    <3> QED BY <2>1, <2>5, <3>1 DEF Apart, resolve
  <2>7. Quiet'
    BY <2>6 DEF Quiet
  <2> QED BY <1>6, <2>2, <2>7, QuietIsOnce
<1>18. CASE MergeFails(t)
  <2>1. /\ doing[t].at = "second" /\ UNCHANGED <<row, folder, alias>> /\ Is(t, Idle)
    BY <1>18, MergeFailsDoes
  <2>2. doing'[t] = Idle
    BY <1>3, <2>1, IsOwn, IdleIsDoing
  <2>3. Quiet
    BY <1>7, <2>1 DEF Joined, Led
  <2>4. Quiet'
    BY <2>1, <2>3 DEF Quiet, Apart, resolve
  <2> QED BY <1>6, <2>2, <2>4, QuietIsOnce
<1> QED BY <1>11, <1>12, <1>13, <1>14, <1>15, <1>16, <1>17, <1>18 DEF MergeStep

(***************************************************************************)
(* Work.                                                                   *)
(***************************************************************************)
WorkQuiet == \A m \in row : folder[m].audio # <<>> => Kept(m, folder[m], InLine)

Handy == doing[TheWorker].first \in Parts /\ folder[doing[TheWorker].first].audio # <<>> => InHand

LEMMA WorkIsQuiet ==
    ASSUME Work, flaws = {}, NoMerge
    PROVE  WorkQuiet /\ Handy
BY DEF Work, WorkQuiet, Handy, NoMerge, FirstAt, SecondAt

LEMMA QuietIsWork ==
    ASSUME flaws' = {} => WorkQuiet' /\ Handy', \A t \in LibraryThreads : doing'[t].at \notin MergeAt
    PROVE  Work'
BY DEF Work, WorkQuiet, Handy

\* Who is at none of a stage's steps has nothing in hand.
LEMMA EmptyHanded ==
    ASSUME doing'[TheWorker].at \notin {"stage", "complete", "next"}
    PROVE  Handy'
BY DEF Handy, InHand

\* A recording whose jobs and files stay is kept as it was.
LEMMA KeptStays ==
    ASSUME NEW m, NEW states, Kept(m, folder[m], states), job'[m] = job[m],
           folder'[m].audio = folder[m].audio, folder'[m].segments = folder[m].segments,
           folder'[m].transcript = folder[m].transcript, removed \subseteq removed',
           Between(m) => Between(m)'
    PROVE  Kept(m, folder[m], states)'
BY DEF Kept

LEMMA StagesAre == Stages = {"transcribe", "assemble"}
BY DEF Stages

LEMMA WorkTakesJob ==
    ASSUME Base, Work, MergesAlone, TakesJob
    PROVE  Work'
<1>1. /\ Base' /\ NoMerge /\ doing[TheWorker].at = "rest"
      /\ UNCHANGED <<row, folder, alias, Memory>>
      /\ \A u \in LibraryThreads \ {TheWorker} : doing'[u] = doing[u]
      /\ doing'[TheWorker].at = "stage"
  BY TakesJobDoes
<1>2. PICK p \in row, s \in Stages :
         /\ job[p][s] = "pending" /\ job' = [job EXCEPT ![p][s] = "running"]
         /\ doing'[TheWorker].first = p /\ doing'[TheWorker].stage = s
         /\ doing'[TheWorker].before = folder[p]
  BY TakesJobDoes
<1>3. \A t \in LibraryThreads : doing'[t].at \notin MergeAt
  BY <1>1 DEF NoMerge, MergeAt
<1>4. SUFFICES ASSUME flaws = {} PROVE WorkQuiet' /\ Handy'
  BY <1>1, <1>3, QuietIsWork DEF Memory
<1>5. WorkQuiet /\ Handy
  BY <1>1, <1>4, WorkIsQuiet
<1>6. \A m \in Parts : ~Between(m)
  BY <1>1 DEF Between
<1>7. row \subseteq Parts /\ job \in [Parts -> [Stages -> JobStates]]
  BY DEF Base, LibraryTypeOK
<1>8. \A m \in Parts, r \in Stages :
         job'[m][r] = IF m = p /\ r = s THEN "running" ELSE job[m][r]
  BY <1>2, <1>7
<1>9. WorkQuiet'
  <2> SUFFICES ASSUME NEW m \in row, folder[m].audio # <<>>
               PROVE  Kept(m, folder[m], InLine)'
    BY <1>1 DEF WorkQuiet
  <2>1. Kept(m, folder[m], InLine)
    BY <1>5 DEF WorkQuiet
  <2>2. m \in Parts /\ removed' = removed
    BY <1>1, <1>7 DEF Memory
  <2>3. \A r \in Stages : /\ job'[m][r] \in InLine <=> job[m][r] \in InLine
                          /\ job'[m][r] = "cancelled" <=> job[m][r] = "cancelled"
                          /\ job'[m][r] = "done" <=> job[m][r] = "done"
    BY <1>2, <1>8, <2>2 DEF InLine
  <2> QED BY <1>1, <1>6, <2>1, <2>2, <2>3, StagesAre DEF Kept
<1>10. Handy'
  <2> SUFFICES ASSUME folder[p].audio # <<>>, s = "assemble" PROVE folder[p].segments = folder[p].audio
    BY <1>1, <1>2, StagesAre DEF Handy, InHand
  <2>1. Kept(p, folder[p], InLine)
    BY <1>5 DEF WorkQuiet
  <2> QED BY <1>2, <2>1 DEF Kept, InLine
<1> QED BY <1>9, <1>10

LEMMA WorkStageEndsBadly ==
    ASSUME Base, Work, MergesAlone, StageEndsBadly
    PROVE  Work'
<1>0. PICK p : p = doing[TheWorker].first
  OBVIOUS
<1>1. /\ Base' /\ NoMerge /\ UNCHANGED <<alias, removed, flaws>>
      /\ \A u \in LibraryThreads \ {TheWorker} : doing'[u] = doing[u]
      /\ doing[TheWorker].at = "stage" /\ p \in Parts
      /\ doing'[TheWorker] = Idle
      /\ \/ p \in deleting /\ purge(p) /\ deleting' = deleting \ {p}
         \/ /\ Input = <<>> /\ job' = [job EXCEPT ![p][doing[TheWorker].stage] = "failed"]
            /\ UNCHANGED <<row, folder, deleting>>
  BY <1>0, StageEndsBadlyDoes
<1>2. doing'[TheWorker].at = "rest"
  BY <1>1, IdleIsDoing
<1>3. \A t \in LibraryThreads : doing'[t].at \notin MergeAt
  BY <1>1, <1>2 DEF NoMerge, MergeAt
<1>4. SUFFICES ASSUME flaws = {} PROVE WorkQuiet' /\ Handy'
  BY <1>1, <1>3, QuietIsWork
<1>5. WorkQuiet /\ Handy
  BY <1>1, <1>4, WorkIsQuiet
<1>6. \A m \in Parts : ~Between(m)
  BY <1>1 DEF Between
<1>7. row \subseteq Parts /\ job \in [Parts -> [Stages -> JobStates]] /\ folder \in [Parts -> Folder]
  BY DEF Base, LibraryTypeOK
<1>8. row' \subseteq row /\ \A m \in Parts \ {p} : folder'[m] = folder[m] /\ job'[m] = job[m]
  BY <1>1, <1>7 DEF purge
<1>9. p \in row' => folder'[p].audio = <<>>
  <2>1. CASE purge(p)
    BY <2>1 DEF purge
  <2>2. CASE Input = <<>> /\ UNCHANGED folder
    BY <1>0, <1>1, <1>5, <2>2, Pieces DEF Handy, InHand, Input, Base
  <2> QED BY <1>1, <2>1, <2>2
<1>10. WorkQuiet'
  <2> SUFFICES ASSUME NEW m \in row', folder'[m].audio # <<>>
               PROVE  Kept(m, folder[m], InLine)'
    BY DEF WorkQuiet
  <2>1. m # p /\ m \in Parts /\ m \in row
    BY <1>7, <1>8, <1>9
  <2>2. Kept(m, folder[m], InLine) /\ ~Between(m)
    BY <1>5, <1>6, <1>8, <2>1 DEF WorkQuiet
  <2> QED BY <1>1, <1>8, <2>1, <2>2, KeptStays
<1> QED BY <1>2, <1>10, EmptyHanded

LEMMA WorkStageEndsWell ==
    ASSUME Base, Work, MergesAlone, StageEndsWell
    PROVE  Work'
<1>0. PICK p : p = doing[TheWorker].first
  OBVIOUS
<1>1. /\ Base' /\ NoMerge /\ UNCHANGED <<row, job, alias, Memory>>
      /\ \A u \in LibraryThreads \ {TheWorker} : doing'[u] = doing[u]
      /\ doing[TheWorker].at = "stage" /\ p \in Parts
      /\ doing'[TheWorker].at = "complete" /\ doing'[TheWorker].first = p
      /\ doing'[TheWorker].stage = doing[TheWorker].stage
      /\ Input # <<>>
      /\ folder'[p].audio = folder[p].audio
      /\ doing[TheWorker].stage = "transcribe" =>
            folder'[p].segments = Input /\ folder'[p].transcript = folder[p].transcript
      /\ doing[TheWorker].stage = "assemble" =>
            folder'[p].transcript = Input /\ folder'[p].segments = folder[p].segments
      /\ \A q \in Parts \ {p} : folder'[q] = folder[q]
  BY <1>0, StageEndsWellDoes
<1>3. \A t \in LibraryThreads : doing'[t].at \notin MergeAt
  BY <1>1 DEF NoMerge, MergeAt
<1>4. SUFFICES ASSUME flaws = {} PROVE WorkQuiet' /\ Handy'
  BY <1>1, <1>3, QuietIsWork DEF Memory
<1>5. WorkQuiet /\ Handy
  BY <1>1, <1>4, WorkIsQuiet
<1>6. \A m \in Parts : ~Between(m)
  BY <1>1 DEF Between
<1>7. row \subseteq Parts /\ doing[TheWorker].stage \in {"transcribe", "assemble"}
  BY Pieces DEF Base, LibraryTypeOK
<1>8. folder[p].audio # <<>> => Input = folder[p].audio
  BY <1>0, <1>1, <1>5, <1>7 DEF Handy, InHand, Input
<1>9. WorkQuiet'
  <2> SUFFICES ASSUME NEW m \in row, folder'[m].audio # <<>>
               PROVE  Kept(m, folder[m], InLine)'
    BY <1>1 DEF WorkQuiet
  <2>1. m \in Parts /\ folder'[m].audio = folder[m].audio /\ removed' = removed
    BY <1>1, <1>7 DEF Memory
  <2>2. Kept(m, folder[m], InLine) /\ ~Between(m)
    BY <1>5, <1>6, <2>1 DEF WorkQuiet
  <2>3. CASE m # p
    BY <1>1, <2>1, <2>2, <2>3, KeptStays
  <2>4. CASE m = p
    BY <1>1, <1>7, <1>8, <2>1, <2>2, <2>4 DEF Kept
  <2> QED BY <2>3, <2>4
<1>10. Handy'
  BY <1>1, <1>7, <1>8 DEF Handy, InHand
<1> QED BY <1>9, <1>10

LEMMA WorkCompletes ==
    ASSUME Base, Work, MergesAlone, Completes
    PROVE  Work'
<1>0. PICK p, s : p = doing[TheWorker].first /\ s = doing[TheWorker].stage
  OBVIOUS
<1>1. /\ Base' /\ NoMerge /\ UNCHANGED <<row, folder, alias, Memory>>
      /\ \A u \in LibraryThreads \ {TheWorker} : doing'[u] = doing[u]
      /\ doing[TheWorker].at = "complete" /\ p \in Parts
      /\ \/ p \notin row /\ job' = job /\ doing'[TheWorker] = Idle
         \/ /\ job' = [job EXCEPT ![p][s] = "done"]
            /\ doing'[TheWorker].at = "next" /\ doing'[TheWorker].first = p
            /\ doing'[TheWorker].stage = s
  BY <1>0, CompletesDoes
<1>3. \A t \in LibraryThreads : doing'[t].at \notin MergeAt
  BY <1>1, IdleIsDoing DEF NoMerge, MergeAt
<1>4. SUFFICES ASSUME flaws = {} PROVE WorkQuiet' /\ Handy'
  BY <1>1, <1>3, QuietIsWork DEF Memory
<1>5. WorkQuiet /\ Handy
  BY <1>1, <1>4, WorkIsQuiet
<1>6. \A m \in Parts : ~Between(m)
  BY <1>1 DEF Between
<1>7. row \subseteq Parts /\ s \in {"transcribe", "assemble"} /\ job \in [Parts -> [Stages -> JobStates]]
      /\ removed' = removed
  BY <1>0, <1>1, Pieces DEF Base, LibraryTypeOK, Memory
<1>8. \A m \in Parts \ {p} : job'[m] = job[m]
  BY <1>1, <1>7
<1>9. WorkQuiet'
  <2> SUFFICES ASSUME NEW m \in row, folder[m].audio # <<>>
               PROVE  Kept(m, folder[m], InLine)'
    BY <1>1 DEF WorkQuiet
  <2>2. Kept(m, folder[m], InLine) /\ ~Between(m) /\ m \in Parts
    BY <1>5, <1>6, <1>7 DEF WorkQuiet
  <2>3. CASE m # p
    BY <1>1, <1>7, <1>8, <2>2, <2>3, KeptStays
  <2>4. CASE m = p /\ s = "transcribe"
    <3>1. doing'[TheWorker].at = "next" /\ doing'[TheWorker].first = p
          /\ doing'[TheWorker].stage = s
      BY <1>1, <2>4
    <3>2. Between(m)'
      BY <2>4, <3>1 DEF Between
    <3>3. job'[m]["assemble"] = job[m]["assemble"]
      BY <1>1, <1>7, <2>2, <2>4, StagesAre
    <3> QED BY <1>1, <2>2, <3>2, <3>3 DEF Kept
  <2>5. CASE m = p /\ s = "assemble"
    <3>1. job'[m]["assemble"] = "done"
      BY <1>1, <1>7, <2>2, <2>5, StagesAre
    <3>2. folder[m].transcript = folder[m].audio
      BY <1>0, <1>1, <1>5, <2>5, <2>2 DEF Handy, InHand
    <3> QED BY <1>1, <3>1, <3>2 DEF Kept, InLine
  <2> QED BY <1>7, <2>3, <2>4, <2>5
<1>10. Handy'
  <2>1. CASE doing'[TheWorker] = Idle
    BY <2>1, EmptyHanded, IdleIsDoing
  <2>2. CASE doing'[TheWorker] # Idle
    BY <1>0, <1>1, <1>5, <2>2 DEF Handy, InHand
  <2> QED BY <2>1, <2>2
<1> QED BY <1>9, <1>10

LEMMA WorkEnqueuesNext ==
    ASSUME Base, Work, MergesAlone, EnqueuesNext
    PROVE  Work'
<1>0. PICK p, s : p = doing[TheWorker].first /\ s = doing[TheWorker].stage
  OBVIOUS
<1>1. /\ Base' /\ NoMerge /\ UNCHANGED <<row, folder, alias, Memory>>
      /\ \A u \in LibraryThreads \ {TheWorker} : doing'[u] = doing[u]
      /\ doing[TheWorker].at = "next" /\ p \in Parts
      /\ \/ p \notin row /\ job' = job /\ doing'[TheWorker] = Idle
         \/ /\ IF s = "transcribe" /\ job[p]["assemble"] # "running"
               THEN job' = [job EXCEPT ![p]["assemble"] = "pending"] ELSE job' = job
            /\ doing'[TheWorker].at = "pending"
  BY <1>0, EnqueuesNextDoes
<1>2. doing'[TheWorker].at \in {"rest", "pending"}
  BY <1>1, IdleIsDoing
<1>3. \A t \in LibraryThreads : doing'[t].at \notin MergeAt
  BY <1>1, <1>2 DEF NoMerge, MergeAt
<1>4. SUFFICES ASSUME flaws = {} PROVE WorkQuiet' /\ Handy'
  BY <1>1, <1>3, QuietIsWork DEF Memory
<1>5. WorkQuiet /\ Handy
  BY <1>1, <1>4, WorkIsQuiet
<1>7. row \subseteq Parts /\ job \in [Parts -> [Stages -> JobStates]] /\ removed' = removed
  BY <1>1 DEF Base, LibraryTypeOK, Memory
<1>8. \A m \in Parts \ {p} : job'[m] = job[m] /\ ~Between(m)
  BY <1>0, <1>1, <1>7 DEF Between
<1>9. WorkQuiet'
  <2> SUFFICES ASSUME NEW m \in row, folder[m].audio # <<>>
               PROVE  Kept(m, folder[m], InLine)'
    BY <1>1 DEF WorkQuiet
  <2>2. Kept(m, folder[m], InLine) /\ m \in Parts
    BY <1>5, <1>7 DEF WorkQuiet
  <2>3. CASE m # p
    BY <1>1, <1>7, <1>8, <2>2, <2>3, KeptStays
  <2>4. CASE m = p /\ s = "transcribe" /\ job[p]["assemble"] # "running"
    <3>1. job'[m]["assemble"] = "pending"
      BY <1>1, <1>7, <2>2, <2>4, StagesAre
    <3>2. folder[m].segments = folder[m].audio
      BY <1>0, <1>1, <1>5, <2>2, <2>4 DEF Handy, InHand
    <3>3. \E r \in Stages : job'[m][r] \in InLine
      BY <3>1, StagesAre DEF InLine
    <3> QED BY <1>1, <3>1, <3>2, <3>3 DEF Kept
  <2>5. CASE m = p /\ ~(s = "transcribe" /\ job[p]["assemble"] # "running")
    <3>1. job' = job
      BY <1>1, <2>5
    <3>2. ~Between(m) \/ \E r \in Stages : job'[m][r] \in InLine
      BY <1>0, <2>5, <3>1, StagesAre DEF Between, InLine
    <3> QED BY <1>1, <1>7, <2>2, <3>1, <3>2 DEF Kept
  <2> QED BY <2>3, <2>4, <2>5
<1> QED BY <1>2, <1>9, EmptyHanded

LEMMA WorkRetryPressed ==
    ASSUME Base, Work, MergesAlone, NEW t \in Pressers, RetryPressed(t)
    PROVE  Work'
<1>1. Base' /\ NoMerge /\ UNCHANGED <<row, folder, alias, deleting, doing, removed, flaws>>
  BY RetryPressedDoes
<1>2. PICK p \in row : job' = [job EXCEPT ![p]["transcribe"] = "pending"]
  BY RetryPressedDoes
<1>3. \A u \in LibraryThreads : doing'[u].at \notin MergeAt
  BY <1>1 DEF NoMerge
<1>4. SUFFICES ASSUME flaws = {} PROVE WorkQuiet' /\ Handy'
  BY <1>1, <1>3, QuietIsWork
<1>5. WorkQuiet /\ Handy
  BY <1>1, <1>4, WorkIsQuiet
<1>7. row \subseteq Parts /\ job \in [Parts -> [Stages -> JobStates]]
  BY DEF Base, LibraryTypeOK
<1>9. WorkQuiet'
  <2> SUFFICES ASSUME NEW m \in row, folder[m].audio # <<>>
               PROVE  Kept(m, folder[m], InLine)'
    BY <1>1 DEF WorkQuiet
  <2>2. Kept(m, folder[m], InLine) /\ m \in Parts
    BY <1>5, <1>7 DEF WorkQuiet
  <2>3. CASE m # p
    BY <1>1, <1>2, <1>7, <2>2, <2>3, KeptStays DEF Between
  <2>4. CASE m = p
    <3>1. job'[m]["transcribe"] = "pending" /\ job'[m]["assemble"] = job[m]["assemble"]
      BY <1>2, <1>7, <2>2, <2>4, StagesAre
    <3>3. \E r \in Stages : job'[m][r] \in InLine
      BY <3>1, StagesAre DEF InLine
    <3> QED BY <1>1, <2>2, <3>1, <3>3 DEF Kept
  <2> QED BY <2>3, <2>4
<1>10. Handy'
  BY <1>1, <1>5 DEF Handy, InHand
<1> QED BY <1>9, <1>10

LEMMA WorkDeletePressed ==
    ASSUME Base, Work, MergesAlone, NEW t \in Pressers, DeletePressed(t)
    PROVE  Work'
<1>1. Base' /\ NoMerge /\ UNCHANGED <<alias, doing, flaws>>
  BY DeletePressedDoes
<1>2. PICK p \in row :
         /\ removed' = removed \union Held(p)
         /\ \/ /\ Busy(p) /\ deleting' = deleting \union {p} /\ row' = row
               /\ folder' = [folder EXCEPT ![p].marker = TRUE]
               /\ job' = [job EXCEPT ![p] = OnlyRunning(p)]
            \/ deleting' = deleting /\ purge(p)
            \/ deleting' = deleting /\ job' = [job EXCEPT ![p] = NoJobs] /\ UNCHANGED <<row, folder>>
  BY DeletePressedDoes
<1>3. \A u \in LibraryThreads : doing'[u].at \notin MergeAt
  BY <1>1 DEF NoMerge
<1>4. SUFFICES ASSUME flaws = {} PROVE WorkQuiet' /\ Handy'
  BY <1>1, <1>3, QuietIsWork
<1>5. WorkQuiet /\ Handy
  BY <1>1, <1>4, WorkIsQuiet
<1>6. row \subseteq Parts /\ job \in [Parts -> [Stages -> JobStates]] /\ folder \in [Parts -> Folder]
      /\ p \in Parts
  BY DEF Base, LibraryTypeOK
<1>7. p \in removed'
  BY <1>2, <1>6 DEF Held
<1>8. /\ row' \subseteq row /\ \A m \in Parts \ {p} : folder'[m] = folder[m] /\ job'[m] = job[m]
      /\ \/ folder'[p] = NoFolder /\ p \notin row'
         \/ /\ folder'[p].audio = folder[p].audio /\ folder'[p].segments = folder[p].segments
            /\ folder'[p].transcript = folder[p].transcript
            /\ job'[p] = NoJobs \/ (Busy(p) /\ job'[p] = OnlyRunning(p))
  <2>1. CASE /\ Busy(p) /\ row' = row /\ folder' = [folder EXCEPT ![p].marker = TRUE]
             /\ job' = [job EXCEPT ![p] = OnlyRunning(p)]
    BY <1>6, <2>1, MarkerSet
  <2>2. CASE purge(p)
    BY <1>6, <2>2 DEF purge
  <2>3. CASE job' = [job EXCEPT ![p] = NoJobs] /\ UNCHANGED <<row, folder>>
    <3>1. row' = row /\ folder' = folder
      BY <2>3
    <3>2. job'[p] = NoJobs /\ \A m \in Parts \ {p} : job'[m] = job[m]
      BY <1>6, <2>3
    <3> QED BY <3>1, <3>2
  <2>4. \/ /\ Busy(p) /\ row' = row /\ folder' = [folder EXCEPT ![p].marker = TRUE]
           /\ job' = [job EXCEPT ![p] = OnlyRunning(p)]
        \/ purge(p)
        \/ job' = [job EXCEPT ![p] = NoJobs] /\ UNCHANGED <<row, folder>>
    BY <1>2
  <2> QED BY ONLY <2>1, <2>2, <2>3, <2>4
<1>9. WorkQuiet'
  <2> SUFFICES ASSUME NEW m \in row', folder'[m].audio # <<>>
               PROVE  Kept(m, folder[m], InLine)'
    BY DEF WorkQuiet
  <2>1. m \in Parts /\ m \in row /\ folder'[m].audio = folder[m].audio
    BY <1>6, <1>8
  <2>2. Kept(m, folder[m], InLine)
    BY <1>5, <2>1 DEF WorkQuiet
  <2>3. CASE m # p
    BY <1>1, <1>2, <1>8, <2>1, <2>2, <2>3, KeptStays DEF Between
  <2>4. CASE m = p /\ job'[p] = NoJobs
    BY <1>7, <2>4, StagesAre DEF Kept, NoJobs, InLine
  <2>5. CASE m = p /\ Busy(p) /\ job'[p] = OnlyRunning(p)
    <3>1. \E s \in Stages : job'[m][s] \in InLine
      BY <2>5 DEF Busy, OnlyRunning, InLine
    <3>2. job'[m]["assemble"] \in {"none", job[m]["assemble"]} /\ job'[m]["assemble"] # "cancelled"
      BY <2>5, StagesAre DEF OnlyRunning
    <3> QED BY <1>8, <2>2, <2>5, <3>1, <3>2 DEF Kept, InLine
  <2> QED BY <1>8, <2>3, <2>4, <2>5
<1>10. Handy'
  <2> SUFFICES ASSUME doing[TheWorker].first \in Parts, folder'[doing[TheWorker].first].audio # <<>>
               PROVE  InHand'
    BY <1>1 DEF Handy
  <2>1. PICK q : q = doing[TheWorker].first
    OBVIOUS
  <2>2. /\ folder'[q].audio = folder[q].audio /\ folder'[q].segments = folder[q].segments
        /\ folder'[q].transcript = folder[q].transcript
    BY <1>8, <2>1, IdleIsDoing
  <2> QED BY <1>1, <1>5, <2>1, <2>2 DEF Handy, InHand
<1> QED BY <1>9, <1>10

LEMMA WorkSweepBegins ==
    ASSUME Base, Work, MergesAlone, NEW t \in LibraryThreads, SweepBegins(t)
    PROVE  Work'
<1>1. /\ Base' /\ NoMerge /\ UNCHANGED <<row, folder, job, alias, deleting, flaws>>
      /\ \A u \in LibraryThreads \ {t} : doing'[u] = doing[u]
      /\ doing[t].at = "rest" /\ doing'[t].at = "sweep" /\ removed \subseteq removed'
  BY SweepBeginsDoes
<1>3. \A u \in LibraryThreads : doing'[u].at \notin MergeAt
  BY <1>1 DEF NoMerge, MergeAt
<1>4. SUFFICES ASSUME flaws = {} PROVE WorkQuiet' /\ Handy'
  BY <1>1, <1>3, QuietIsWork
<1>5. WorkQuiet /\ Handy /\ TheWorker \in LibraryThreads
  BY <1>1, <1>4, WorkIsQuiet DEF LibraryThreads
<1>6. \A m \in Parts : Between(m) => Between(m)'
  BY <1>1, <1>5 DEF Between
<1>9. WorkQuiet'
  <2> SUFFICES ASSUME NEW m \in row, folder[m].audio # <<>>
               PROVE  Kept(m, folder[m], InLine)'
    BY <1>1 DEF WorkQuiet
  <2>1. Kept(m, folder[m], InLine) /\ m \in Parts
    BY <1>5 DEF WorkQuiet, Base, LibraryTypeOK
  <2> QED BY <1>1, <1>6, <2>1, KeptStays
<1>10. Handy'
  BY <1>1, <1>5 DEF Handy, InHand
<1> QED BY <1>9, <1>10

LEMMA WorkSweeps ==
    ASSUME Base, Work, MergesAlone, NEW t \in LibraryThreads, Sweeps(t)
    PROVE  Work'
<1>1. /\ Base' /\ NoMerge /\ UNCHANGED <<alias, removed>> /\ flaws \subseteq flaws'
      /\ \A u \in LibraryThreads \ {t} : doing'[u] = doing[u]
      /\ doing[t].at = "sweep" /\ doing'[t].at \in {"rest", "sweep"}
  BY SweepsDoes, IdleIsDoing
<1>2. \/ UNCHANGED <<row, folder, job>>
      \/ \E p \in row : purge(p)
      \/ \E p \in row : folder' = [folder EXCEPT ![p].audio = <<>>] /\ UNCHANGED <<row, job>>
  BY SweepsDoes
<1>3. \A u \in LibraryThreads : doing'[u].at \notin MergeAt
  BY <1>1 DEF NoMerge, MergeAt
<1>4. SUFFICES ASSUME flaws = {} PROVE WorkQuiet' /\ Handy'
  BY <1>1, <1>3, QuietIsWork
<1>5. WorkQuiet /\ Handy /\ TheWorker \in LibraryThreads
  BY <1>1, <1>4, WorkIsQuiet DEF LibraryThreads
<1>6. \A m \in Parts : Between(m) => Between(m)'
  BY <1>1, <1>5 DEF Between
<1>7. row \subseteq Parts /\ job \in [Parts -> [Stages -> JobStates]] /\ folder \in [Parts -> Folder]
  BY DEF Base, LibraryTypeOK
<1>8. /\ row' \subseteq row
      /\ \A m \in Parts : folder'[m] = folder[m] \/ folder'[m].audio = <<>>
      /\ \A m \in row' : job'[m] = job[m]
  <2>1. CASE UNCHANGED <<row, folder, job>>
    BY <2>1
  <2>2. CASE \E p \in row : purge(p)
    BY <1>7, <2>2, IdleIsDoing DEF purge
  <2>3. CASE \E p \in row : folder' = [folder EXCEPT ![p].audio = <<>>] /\ UNCHANGED <<row, job>>
    <3>1. PICK p \in row : folder' = [folder EXCEPT ![p].audio = <<>>] /\ UNCHANGED <<row, job>>
      BY <2>3
    <3>2. <<>> \in Seq(Parts) /\ p \in Parts
      BY <1>7
    <3>3. folder'[p].audio = <<>> /\ \A q \in Parts \ {p} : folder'[q] = folder[q]
      BY <1>7, <3>1, <3>2, AudioSet
    <3> QED BY <3>1, <3>3
  <2> QED BY <1>2, <2>1, <2>2, <2>3
<1>9. WorkQuiet'
  <2> SUFFICES ASSUME NEW m \in row', folder'[m].audio # <<>>
               PROVE  Kept(m, folder[m], InLine)'
    BY DEF WorkQuiet
  <2>1. m \in Parts /\ m \in row /\ folder'[m] = folder[m] /\ job'[m] = job[m] /\ removed' = removed
    BY <1>1, <1>7, <1>8
  <2>2. Kept(m, folder[m], InLine)
    BY <1>5, <2>1 DEF WorkQuiet
  <2> QED BY <1>6, <2>1, <2>2, KeptStays
<1>10. Handy'
  <2>1. CASE t = TheWorker
    BY <1>1, <2>1, EmptyHanded
  <2>2. CASE t # TheWorker
    BY <1>1, <1>5, <1>8, <2>2 DEF Handy, InHand
  <2> QED BY <2>1, <2>2
<1> QED BY <1>9, <1>10

LEMMA WorkDies ==
    ASSUME Base, Work, Dies
    PROVE  Work'
<1>1. /\ Base' /\ UNCHANGED removed
      /\ \A t \in LibraryThreads : doing'[t] = Idle
      /\ row' \subseteq row
      /\ \A p \in row' : folder'[p] = folder[p] /\ job'[p] = Resumed(p)
      /\ flaws' = IF \E t \in LibraryThreads : doing[t].second # None \/ doing[t].at = "next"
                  THEN flaws \union {"cut"} ELSE flaws
  BY DiesDoes
<1>2. TheWorker \in LibraryThreads
  BY DEF LibraryThreads
<1>3. \A t \in LibraryThreads : doing'[t].at = "rest"
  BY <1>1, IdleIsDoing
<1>4. SUFFICES ASSUME flaws' = {} PROVE WorkQuiet' /\ Handy'
  BY <1>3, QuietIsWork DEF MergeAt
<1>5. flaws = {} /\ \A t \in LibraryThreads : doing[t].second = None /\ doing[t].at # "next"
  BY <1>1, <1>4
<1>6. NoMerge
  BY <1>5, PartsAreNumbered DEF NoMerge, Base, Threads, LibraryTypeOK
<1>7. WorkQuiet
  BY <1>5, <1>6, WorkIsQuiet
<1>8. WorkQuiet'
  <2> SUFFICES ASSUME NEW m \in row', folder'[m].audio # <<>>
               PROVE  Kept(m, folder[m], InLine)'
    BY DEF WorkQuiet
  <2>1. m \in Parts /\ m \in row /\ folder'[m] = folder[m]
    BY <1>1 DEF Base, LibraryTypeOK
  <2>2. Kept(m, folder[m], InLine) /\ ~Between(m)
    BY <1>2, <1>5, <1>7, <2>1 DEF WorkQuiet, Between
  <2>3. \A s \in Stages : job'[m][s] = IF job[m][s] = "running" THEN "pending" ELSE job[m][s]
    <3>1. job \in [Parts -> [Stages -> JobStates]] /\ "pending" \in JobStates
      BY DEF Base, LibraryTypeOK, JobStates
    <3>2. \A s \in Stages : Moved(job, m, "running", "pending")[m][s] =
             IF job[m][s] = "running" THEN "pending" ELSE job[m][s]
      BY <2>1, <3>1, MovedTypes
    <3> QED BY <1>1, <3>2 DEF Resumed
  <2>4. \A s \in Stages : /\ job'[m][s] \in InLine <=> job[m][s] \in InLine
                          /\ job'[m][s] = "cancelled" <=> job[m][s] = "cancelled"
                          /\ job'[m][s] = "done" <=> job[m][s] = "done"
    BY <2>3 DEF InLine
  <2> QED BY <1>1, <2>1, <2>2, <2>4, StagesAre DEF Kept
<1>9. Handy'
  BY <1>2, <1>3, EmptyHanded
<1> QED BY <1>8, <1>9

LEMMA WithdrawIs ==
    ASSUME Base, NEW a \in Parts, ~Busy(a)
    PROVE  /\ \A s \in Stages : withdraw(job, a)[a][s] =
                 IF job[a][s] = "pending" THEN "cancelled" ELSE job[a][s]
           /\ \A s \in Stages : withdraw(job, a)[a][s] \notin InLine
           /\ \A p \in Parts \ {a} : withdraw(job, a)[p] = job[p]
<1>1. job \in [Parts -> [Stages -> JobStates]] /\ "cancelled" \in JobStates
  BY DEF Base, LibraryTypeOK, JobStates
<1>2. /\ \A s \in Stages : withdraw(job, a)[a][s] =
            IF job[a][s] = "pending" THEN "cancelled" ELSE job[a][s]
      /\ \A p \in Parts \ {a} : withdraw(job, a)[p] = job[p]
  BY <1>1, MovedTypes DEF withdraw
<1> QED BY <1>2 DEF Busy, InLine

\* What was kept while its jobs waited is kept while they are withdrawn.
LEMMA KeptWithdrawn ==
    ASSUME Base, NEW a \in Parts, Kept(a, folder[a], InLine), folder[a].audio # <<>>, ~Busy(a),
           ~Between(a), job'[a] = withdraw(job, a)[a],
           folder'[a] = folder[a], removed' = removed
    PROVE  Kept(a, folder[a], Withdrawn)'
<1>1. \A s \in Stages : /\ job'[a][s] = IF job[a][s] = "pending" THEN "cancelled" ELSE job[a][s]
                        /\ job'[a][s] \notin InLine
  BY WithdrawIs
<1>2. job'[a]["assemble"] = "cancelled" => folder[a].segments # <<>>
  BY <1>1, StagesAre DEF Kept, InLine
<1>3. ASSUME NEW s \in Stages, job[a][s] \in InLine PROVE job'[a][s] \in Withdrawn
  BY <1>1, <1>3 DEF InLine, Withdrawn
<1>4. job[a]["assemble"] # "done" => job'[a]["assemble"] # "done"
  BY <1>1, StagesAre
<1>5. job'[a]["assemble"] \notin InLine
  BY <1>1, StagesAre
<1> QED BY <1>2, <1>3, <1>4, <1>5 DEF Kept

LEMMA WorkAsks ==
    ASSUME Base, Work, MergesAlone, NEW t \in LibraryThreads, Asks(t)
    PROVE  Work'
<1>1. /\ doing[t].at \in {"rest", "pending"}
      /\ \A u \in LibraryThreads \ {t} : doing'[u] = doing[u]
      /\ \/ job' = job /\ (doing'[t] = doing[t] \/ doing'[t] = Idle)
         \/ \E a, b \in row : Begins(t, a, b)
      /\ UNCHANGED <<row, folder, alias, deleting, removed, flaws>>
  BY DEF Asks
<1>2. NoMerge /\ TheWorker \in LibraryThreads
  BY <1>1, NoMergeBeside DEF Base, NoMerge, MergeAt, LibraryThreads
<1> SUFFICES ASSUME flaws = {}, flaws' = {} PROVE Work'
  BY <1>1 DEF Work
<1>3. WorkQuiet /\ Handy
  BY <1>2, WorkIsQuiet
<1>4. CASE job' = job /\ (doing'[t] = doing[t] \/ doing'[t] = Idle)
  <2>1. \A u \in LibraryThreads : doing'[u].at \notin MergeAt
    BY <1>1, <1>2, <1>4, IdleIsDoing DEF NoMerge, MergeAt
  <2>2. \A m \in Parts : Between(m) => Between(m)'
    BY <1>1, <1>2 DEF Between
  <2>3. WorkQuiet'
    <3> SUFFICES ASSUME NEW m \in row, folder[m].audio # <<>>
                 PROVE  Kept(m, folder[m], InLine)'
      BY <1>1 DEF WorkQuiet
    <3>1. Kept(m, folder[m], InLine) /\ m \in Parts
      BY <1>3 DEF WorkQuiet, Base, LibraryTypeOK
    <3> QED BY <1>1, <1>4, <2>2, <3>1, KeptStays
  <2>4. Handy'
    <3>1. CASE t = TheWorker
      BY <1>1, <1>4, <3>1, EmptyHanded, IdleIsDoing
    <3>2. CASE t # TheWorker
      BY <1>1, <1>2, <1>3, <3>2 DEF Handy, InHand
    <3> QED BY <3>1, <3>2
  <2> QED BY <2>1, <2>3, <2>4, QuietIsWork
<1>5. CASE \E a, b \in row : Begins(t, a, b)
  <2>1. PICK a \in row, b \in row : Begins(t, a, b)
    BY <1>5
  <2>2. /\ a # b /\ folder[a].audio # <<>> /\ folder[b].audio # <<>> /\ ~Busy(a)
        /\ job' = withdraw(job, a)
        /\ doing'[t].at = "second" /\ doing'[t].first = a /\ doing'[t].second = b
    BY <2>1 DEF Begins
  <2>3. a \in Parts /\ b \in Parts /\ b # None /\ row \subseteq Parts
    BY PartsAreNumbered DEF Base, LibraryTypeOK
  <2>4. \A u \in LibraryThreads \ {t} : doing'[u].at = "rest" /\ doing[u].at = "rest"
    BY <1>1, <2>2, <2>3 DEF MergesAlone, MergeAlone
  <2>5. \A m \in Parts : ~Between(m)
    BY <1>1, <1>2, <2>4 DEF Between
  <2>6. Handy'
    BY <2>2, <2>4, EmptyHanded, <1>2
  <2>7. ASSUME NEW m \in row, m # a, folder[m].audio # <<>>
        PROVE  Kept(m, folder[m], InLine)'
    <3>1. Kept(m, folder[m], InLine) /\ m \in Parts
      BY <1>3, <2>3, <2>7 DEF WorkQuiet
    <3>2. job'[m] = job[m]
      BY <2>2, <2>3, <2>7, <3>1, WithdrawIs
    <3> QED BY <1>1, <2>5, <3>1, <3>2, KeptStays
  <2>8. Kept(a, folder[a], Withdrawn)' /\ ~Queued(a)'
    <3>1. Kept(a, folder[a], InLine)
      BY <1>3, <2>2 DEF WorkQuiet
    <3>2. Kept(a, folder[a], Withdrawn)'
      BY <1>1, <2>2, <2>3, <2>5, <3>1, KeptWithdrawn
    <3>3. ~Queued(a)'
      BY <2>2, <2>3, WithdrawIs DEF Queued, InLine
    <3> QED BY <3>2, <3>3
  <2>9. AtMerge(t)'
    BY <1>1, <2>2, <2>8 DEF AtMerge
  <2>10. FirstAt(a, MergeAt \ {"remove"})'
    BY <2>2 DEF FirstAt, MergeAt
  <2>11. ASSUME NEW m \in row', folder'[m].audio # <<>>, ~FirstAt(m, MergeAt \ {"remove"})'
         PROVE  Kept(m, folder[m], InLine)'
    BY <1>1, <2>7, <2>10, <2>11
  <2>12. \A u \in LibraryThreads : doing'[u].at \in MergeAt => AtMerge(u)'
    BY <2>4, <2>9 DEF MergeAt
  <2> QED BY <2>6, <2>11, <2>12 DEF Work, Handy
<1> QED BY <1>1, <1>4, <1>5

\* What is given back its jobs waits as it did.
LEMMA KeptRestored ==
    ASSUME NEW a \in Parts, NEW f, Kept(a, f, Withdrawn), Whole(f), f.audio # <<>>, ~Between(a),
           \A s \in Stages : job'[a][s] = IF job[a][s] = "cancelled" THEN "pending" ELSE job[a][s],
           folder'[a] = f, removed' = removed
    PROVE  Kept(a, folder[a], InLine)'
<1>1. job'[a]["assemble"] \in InLine => f.segments = f.audio
  BY StagesAre DEF Kept, Whole, InLine
<1>2. job'[a]["assemble"] # "cancelled"
  BY StagesAre
<1>3. ASSUME NEW s \in Stages, job[a][s] \in Withdrawn PROVE job'[a][s] \in InLine
  BY <1>3 DEF InLine, Withdrawn
<1>4. job[a]["assemble"] # "done" => job'[a]["assemble"] # "done"
  BY StagesAre
<1> QED BY <1>1, <1>2, <1>3, <1>4 DEF Kept

LEMMA RestoreIs ==
    ASSUME NEW js \in [Parts -> [Stages -> JobStates]], NEW a \in Parts
    PROVE  /\ restore(js, a) \in [Parts -> [Stages -> JobStates]]
           /\ \A s \in Stages : restore(js, a)[a][s] =
                 IF js[a][s] = "cancelled" THEN "pending" ELSE js[a][s]
           /\ \A p \in Parts \ {a} : restore(js, a)[p] = js[p]
<1>1. "pending" \in JobStates
  BY DEF JobStates
<1> QED BY <1>1, MovedTypes DEF restore

LEMMA JoinedIsThere ==
    ASSUME NEW x \in Seq(Parts), NEW y \in Seq(Parts), x # <<>>
    PROVE  x \o y # <<>>
<1>1. Len(x) > 0 /\ Len(x \o y) = Len(x) + Len(y) /\ Len(y) \in Nat
  BY EmptySeq
<1> QED BY <1>1

LEMMA WorkMerge ==
    ASSUME Base, Work, MergesAlone, NEW t \in LibraryThreads, MergeStep(t)
    PROVE  Work'
<1>0. PICK a, b : a = doing[t].first /\ b = doing[t].second
  OBVIOUS
<1> USE <1>0
<1>1. /\ doing[t].at \in MergeAt
      /\ \A u \in LibraryThreads \ {t} : doing'[u] = doing[u]
      /\ \/ doing'[t] = Idle
         \/ /\ row' = row /\ doing'[t].at \in MergeAt
            /\ doing'[t].first = a /\ doing'[t].second = b
  BY BaseMerge
<1>2. /\ a \in row /\ b \in row /\ a # b /\ a \in Parts /\ b \in Parts
      /\ \A u \in LibraryThreads \ {t} : doing[u] = Idle /\ doing[u].at = "rest" /\ doing'[u].at = "rest"
  BY <1>1, NothingBesideMerge, IdleIsDoing DEF Base
<1>3. /\ \A p \in Parts : folder[p].audio \in Seq(Parts) /\ folder[p].segments \in Seq(Parts)
      /\ row \subseteq Parts /\ folder \in [Parts -> Folder] /\ doing[t] \in Doing
      /\ job \in [Parts -> [Stages -> JobStates]] /\ doing \in [LibraryThreads -> Doing]
  BY Pieces DEF Base, LibraryTypeOK
<1>4. removed' = removed /\ flaws \subseteq flaws'
  BY MergeFailsDoes
  DEF MergeStep, WithdrawsSecond, Appends, Joins, Undoes, Aliases, Redoes, Removes, Memory, Flawed
<1> SUFFICES ASSUME flaws = {}, flaws' = {}
             PROVE  Work'
  BY <1>4 DEF Work
<1>5. AtMerge(t)
  BY <1>1 DEF Work
<1>6. ASSUME NEW m \in row, m # a, m # b, folder[m].audio # <<>>
      PROVE  Kept(m, folder[m], InLine)
  <2>1. ~FirstAt(m, MergeAt \ {"remove"}) /\ ~SecondAt(m, MergeAt \ {"second"})
    BY <1>2, <1>6 DEF FirstAt, SecondAt, MergeAt
  <2> QED BY <1>6, <2>1 DEF Work
<1>7. /\ \A m \in Parts : ~Between(m)
      /\ Handy'
  <2>1. TheWorker \in LibraryThreads
    BY DEF LibraryThreads
  <2>2. doing[TheWorker].at \notin {"stage", "complete", "next"}
        /\ doing'[TheWorker].at \notin {"stage", "complete", "next"}
    BY <1>1, <1>2, <2>1, IdleIsDoing DEF MergeAt
  <2> QED BY <2>2, EmptyHanded DEF Between
<1>8. ASSUME doing'[t] = Idle,
             \A m \in row' : folder'[m].audio # <<>> => Kept(m, folder[m], InLine)'
      PROVE  Work'
  <2>1. \A u \in LibraryThreads : doing'[u].at \notin MergeAt
    BY <1>2, <1>8, IdleIsDoing DEF MergeAt
  <2> QED BY <1>7, <1>8, <2>1, QuietIsWork DEF WorkQuiet
<1>9. ASSUME doing'[t].at \in MergeAt \ {"second"}, doing'[t].first = a, doing'[t].second = b, AtMerge(t)',
             doing'[t].at = "remove" => Kept(a, folder[a], InLine)',
             \A m \in row' \ {a, b} : folder'[m].audio # <<>> => Kept(m, folder[m], InLine)'
      PROVE  Work'
  <2>1. SecondAt(b, MergeAt \ {"second"})'
    BY <1>9 DEF SecondAt
  <2>2. doing'[t].at # "remove" => FirstAt(a, MergeAt \ {"remove"})'
    BY <1>9 DEF FirstAt
  <2>3. ASSUME NEW m \in row', folder'[m].audio # <<>>, ~FirstAt(m, MergeAt \ {"remove"})',
               ~SecondAt(m, MergeAt \ {"second"})'
        PROVE  Kept(m, folder[m], InLine)'
    BY <1>9, <2>1, <2>2, <2>3
  <2>4. \A u \in LibraryThreads : doing'[u].at \in MergeAt => AtMerge(u)'
    BY <1>2, <1>9 DEF MergeAt
  <2> QED BY <1>7, <2>3, <2>4 DEF Work, Handy
<1>10. ASSUME NEW at \in MergeAt, To(t, at)
       PROVE  /\ doing'[t].at = at /\ doing'[t].before = doing[t].before
              /\ doing'[t].first = a /\ doing'[t].second = b /\ doing'[t].both = doing[t].both
  BY <1>3, <1>10, ToOwn DEF Ats, MergeAt
<1>11. ASSUME NEW m \in row' \ {a, b}, m \in row, folder'[m] = folder[m], job'[m] = job[m],
              folder'[m].audio # <<>>
       PROVE  Kept(m, folder[m], InLine)'
  <2>1. Kept(m, folder[m], InLine) /\ m \in Parts
    BY <1>3, <1>6, <1>11
  <2> QED BY <1>4, <1>7, <1>11, <2>1, KeptStays
<1>21. CASE WithdrawsSecond(t)
  <2>1. /\ doing[t].at = "second" /\ UNCHANGED <<row, folder>>
        /\ \/ Busy(b) /\ job' = restore(job, a) /\ Is(t, Idle)
           \/ /\ ~Busy(b) /\ job' = withdraw(job, b)
              /\ Is(t, [doing[t] EXCEPT !.at = "append", !.before = folder[a],
                                        !.both = transcribed(a) /\ transcribed(b)])
        /\ \A p \in {a, b} : transcribed(p) => folder[p].segments = folder[p].audio
    BY <1>21 DEF WithdrawsSecond, Refuses, Flawed
  <2>2. /\ folder[b].audio # <<>> /\ folder[a].audio # <<>> /\ ~Queued(a)
        /\ Kept(a, folder[a], Withdrawn) /\ Whole(folder[a]) /\ Whole(folder[b])
    BY <1>5, <2>1 DEF AtMerge, Whole, transcribed
  <2>3. Kept(b, folder[b], InLine)
    <3>1. ~FirstAt(b, MergeAt \ {"remove"}) /\ ~SecondAt(b, MergeAt \ {"second"})
      BY <1>2, <2>1 DEF FirstAt, SecondAt, MergeAt
    <3> QED BY <1>2, <2>2, <3>1 DEF Work
  <2>4. CASE job' = restore(job, a) /\ Is(t, Idle)
    <3>1. doing'[t] = Idle
      BY <1>3, <2>4, IsOwn, IdleIsDoing
    <3>2. /\ \A s \in Stages : job'[a][s] = IF job[a][s] = "cancelled" THEN "pending" ELSE job[a][s]
          /\ \A p \in Parts \ {a} : job'[p] = job[p]
      BY <1>2, <1>3, <2>4, RestoreIs
    <3>3. Kept(a, folder[a], InLine)'
      BY <1>2, <1>4, <1>7, <2>1, <2>2, <3>2, KeptRestored
    <3>4. Kept(b, folder[b], InLine)'
      BY <1>2, <1>4, <1>7, <2>1, <2>3, <3>2, KeptStays
    <3>5. ASSUME NEW m \in row', folder'[m].audio # <<>>
          PROVE  Kept(m, folder[m], InLine)'
      BY <1>3, <1>11, <2>1, <3>2, <3>3, <3>4, <3>5
    <3> QED BY <1>8, <3>1, <3>5
  <2>5. CASE /\ ~Busy(b) /\ job' = withdraw(job, b)
             /\ Is(t, [doing[t] EXCEPT !.at = "append", !.before = folder[a],
                                       !.both = transcribed(a) /\ transcribed(b)])
    <3>1. /\ doing'[t].at = "append" /\ doing'[t].before = folder[a]
          /\ doing'[t].both = (transcribed(a) /\ transcribed(b))
          /\ doing'[t].first = a /\ doing'[t].second = b
      BY <1>3, <2>5 DEF Is, Doing
    <3>2. /\ \A s \in Stages : job'[b][s] \notin InLine
          /\ \A p \in Parts \ {b} : job'[p] = job[p]
      BY <1>2, <2>5, WithdrawIs
    <3>3. Kept(a, folder[a], Withdrawn)'
      BY <1>2, <1>4, <1>7, <2>1, <2>2, <3>2, KeptStays
    <3>4. Kept(b, folder[b], Withdrawn)'
      BY <1>2, <1>4, <1>7, <2>1, <2>2, <2>3, <2>5, KeptWithdrawn
    <3>5. ~Queued(a)' /\ ~Queued(b)'
      BY <1>2, <2>2, <3>2 DEF Queued, InLine
    <3>6. AtMerge(t)'
      BY <2>1, <2>2, <3>1, <3>3, <3>4, <3>5 DEF AtMerge, Whole, transcribed
    <3>7. \A m \in row' \ {a, b} : folder'[m].audio # <<>> => Kept(m, folder[m], InLine)'
      BY <1>3, <1>11, <2>1, <3>2
    <3> QED BY <1>9, <3>1, <3>6, <3>7 DEF MergeAt
  <2> QED BY <2>1, <2>4, <2>5
<1>22. CASE Appends(t)
  <2>1. /\ doing[t].at = "append" /\ UNCHANGED <<row, job>>
        /\ folder' = [folder EXCEPT ![a].audio = @ \o folder[b].audio]
        /\ To(t, "undo") \/ To(t, "join")
    BY <1>22 DEF Appends
  <2>2. /\ doing'[t].at \in {"undo", "join"} /\ doing'[t].before = doing[t].before
        /\ doing'[t].first = a /\ doing'[t].second = b /\ doing'[t].both = doing[t].both
    BY <1>10, <2>1 DEF MergeAt
  <2>3. /\ folder'[a].audio = folder[a].audio \o folder[b].audio
        /\ folder'[a].segments = folder[a].segments
        /\ \A p \in Parts \ {a} : folder'[p] = folder[p]
    <3>1. PICK s \in Seq(Parts) : s = folder[b].audio
      BY <1>2, <1>3
    <3>2. folder' = [folder EXCEPT ![a].audio = @ \o s]
      BY <2>1, <3>1
    <3>3. a \in Parts /\ folder \in [Parts -> Folder]
      BY <1>2, <1>3
    <3> HIDE <1>0
    <3>4. /\ folder'[a].audio = folder[a].audio \o s /\ folder'[a].segments = folder[a].segments
          /\ \A p \in Parts \ {a} : folder'[p] = folder[p]
      BY ONLY <3>2, <3>3, AudioGrows
    <3> QED BY <3>1, <3>4
  <2>4. /\ folder[b].audio # <<>> /\ folder[a].audio # <<>> /\ ~Queued(a) /\ ~Queued(b)
        /\ Kept(a, folder[a], Withdrawn) /\ Kept(b, folder[b], Withdrawn)
        /\ Whole(folder[a]) /\ Whole(folder[b]) /\ doing[t].before = folder[a]
        /\ doing[t].both = (transcribed(a) /\ transcribed(b))
    BY <1>5, <2>1 DEF AtMerge
  <2>5. folder'[a].audio # <<>> /\ folder'[b] = folder[b]
    <3>1. folder[a].audio \in Seq(Parts) /\ folder[b].audio \in Seq(Parts)
      BY <1>2, <1>3
    <3>2. folder[a].audio \o folder[b].audio # <<>>
      BY <2>4, <3>1, JoinedIsThere
    <3> QED BY <1>2, <2>3, <3>2
  <2>6. Kept(a, folder[a], Withdrawn) => Kept(a, doing[t].before, Withdrawn)'
    BY <1>4, <1>7, <1>2, <2>1, <2>2, <2>4 DEF Kept
  <2>7. Kept(b, folder[b], Withdrawn)'
    BY <1>2, <1>4, <1>7, <2>1, <2>4, <2>5, KeptStays
  <2>8. ~Queued(a)' /\ ~Queued(b)'
    BY <2>1, <2>4 DEF Queued
  <2>9. doing[t].both => folder'[a].audio = folder'[a].segments \o folder'[b].segments
    BY <2>3, <2>4, <2>5 DEF Whole, transcribed
  <2>10. AtMerge(t)'
    <3>1. CASE doing'[t].at = "undo"
      BY <2>2, <2>4, <2>5, <2>6, <2>7, <2>8, <3>1 DEF AtMerge
    <3>2. CASE doing'[t].at = "join"
      <4>1. job'[a]["assemble"] = "cancelled" => folder'[a].segments # <<>>
        BY <2>1, <2>3, <2>4 DEF Kept
      <4> QED BY <2>2, <2>3, <2>4, <2>5, <2>8, <2>9, <3>2, <4>1 DEF AtMerge
    <3> QED BY <2>2, <3>1, <3>2
  <2>11. \A m \in row' \ {a, b} : folder'[m].audio # <<>> => Kept(m, folder[m], InLine)'
    BY <1>3, <1>11, <2>1, <2>3
  <2> QED BY <1>9, <2>2, <2>10, <2>11 DEF MergeAt
<1>23. CASE Joins(t)
  <2>1. /\ doing[t].at = "join" /\ UNCHANGED <<row, job>> /\ To(t, "alias")
        /\ folder' = IF doing[t].both
                     THEN [folder EXCEPT ![a].segments = @ \o folder[b].segments] ELSE folder
    BY <1>23 DEF Joins
  <2>2. /\ doing'[t].at = "alias" /\ doing'[t].first = a /\ doing'[t].second = b
        /\ doing'[t].both = doing[t].both
    BY <1>10, <2>1 DEF MergeAt
  <2>3. /\ folder[b].audio # <<>> /\ folder[a].audio # <<>> /\ ~Queued(a) /\ ~Queued(b)
        /\ doing[t].both => folder[a].audio = folder[a].segments \o folder[b].segments
        /\ job[a]["assemble"] = "cancelled" => folder[a].segments # <<>>
    BY <1>5, <2>1 DEF AtMerge
  <2>4. /\ folder'[a].audio = folder[a].audio
        /\ folder'[a].segments = IF doing[t].both THEN folder[a].segments \o folder[b].segments
                                 ELSE folder[a].segments
        /\ \A p \in Parts \ {a} : folder'[p] = folder[p]
    <3>1. PICK s \in Seq(Parts) : s = folder[b].segments
      BY <1>2, <1>3
    <3>2. CASE doing[t].both
      <4>1. folder' = [folder EXCEPT ![a].segments = @ \o s]
        BY <2>1, <3>1, <3>2
      <4>2. a \in Parts /\ folder \in [Parts -> Folder]
        BY <1>2, <1>3
      <4>3. /\ folder'[a].segments = folder[a].segments \o s /\ folder'[a].audio = folder[a].audio
            /\ \A p \in Parts \ {a} : folder'[p] = folder[p]
        <5> HIDE <1>0
        <5> QED BY ONLY <4>1, <4>2, SegmentsGrow
      <4> QED BY <3>1, <3>2, <4>3
    <3>3. CASE ~doing[t].both
      BY <2>1, <3>3
    <3> QED BY <3>2, <3>3
  <2>5. folder'[b] = folder[b]
    BY <1>2, <2>4
  <2>6. ~Queued(a)' /\ ~Queued(b)'
    BY <2>1, <2>3 DEF Queued
  <2>7. AtMerge(t)'
    BY <2>1, <2>2, <2>3, <2>4, <2>5, <2>6 DEF AtMerge
  <2>11. \A m \in row' \ {a, b} : folder'[m].audio # <<>> => Kept(m, folder[m], InLine)'
    BY <1>3, <1>11, <2>1, <2>4
  <2> QED BY <1>9, <2>2, <2>7, <2>11 DEF MergeAt
<1>24. CASE Undoes(t)
  <2>1. /\ doing[t].at = "undo" /\ UNCHANGED row /\ Is(t, Idle)
        /\ folder' = [folder EXCEPT ![a] = doing[t].before]
        /\ job' = restore(restore(job, a), b)
    BY <1>24 DEF Undoes, Refuses
  <2>2. doing'[t] = Idle
    BY <1>3, <2>1, IsOwn, IdleIsDoing
  <2>3. /\ folder[b].audio # <<>> /\ doing[t].before.audio # <<>>
        /\ Kept(a, doing[t].before, Withdrawn) /\ Kept(b, folder[b], Withdrawn)
        /\ Whole(doing[t].before) /\ Whole(folder[b])
    BY <1>5, <2>1 DEF AtMerge
  <2>4. folder'[a] = doing[t].before /\ \A p \in Parts \ {a} : folder'[p] = folder[p]
    BY <1>2, <1>3, <2>1
  <2>5. /\ \A p \in {a, b}, s \in Stages :
              job'[p][s] = IF job[p][s] = "cancelled" THEN "pending" ELSE job[p][s]
        /\ \A p \in Parts \ {a, b} : job'[p] = job[p]
    <3>1. /\ restore(job, a) \in [Parts -> [Stages -> JobStates]]
          /\ \A s \in Stages : restore(job, a)[a][s] =
                IF job[a][s] = "cancelled" THEN "pending" ELSE job[a][s]
          /\ \A p \in Parts \ {a} : restore(job, a)[p] = job[p]
      BY <1>2, <1>3, RestoreIs
    <3>2. /\ \A s \in Stages : restore(restore(job, a), b)[b][s] =
                IF restore(job, a)[b][s] = "cancelled" THEN "pending" ELSE restore(job, a)[b][s]
          /\ \A p \in Parts \ {b} : restore(restore(job, a), b)[p] = restore(job, a)[p]
      BY <1>2, <3>1, RestoreIs
    <3> QED BY <1>2, <2>1, <3>1, <3>2
  <2>6. Kept(a, folder[a], InLine)' /\ Kept(b, folder[b], InLine)'
    BY <1>2, <1>4, <1>7, <2>3, <2>4, <2>5, KeptRestored
  <2>7. ASSUME NEW m \in row', folder'[m].audio # <<>>
        PROVE  Kept(m, folder[m], InLine)'
    BY <1>3, <1>11, <2>1, <2>4, <2>5, <2>6, <2>7
  <2> QED BY <1>8, <2>2, <2>7
<1>25. CASE Aliases(t)
  <2>1. doing[t].at = "alias" /\ UNCHANGED <<row, folder, job>> /\ To(t, "redo")
    BY <1>2, <1>25 DEF Aliases
  <2>2. /\ doing'[t].at = "redo" /\ doing'[t].first = a /\ doing'[t].second = b
        /\ doing'[t].both = doing[t].both
    BY <1>10, <2>1 DEF MergeAt
  <2>3. AtMerge(t)'
    BY <1>5, <2>1, <2>2 DEF AtMerge, Queued
  <2>4. \A m \in row' \ {a, b} : folder'[m].audio # <<>> => Kept(m, folder[m], InLine)'
    BY <1>3, <1>11, <2>1
  <2> QED BY <1>9, <2>2, <2>3, <2>4 DEF MergeAt
<1>26. CASE Redoes(t)
  <2>1. /\ doing[t].at = "redo" /\ UNCHANGED <<row, folder>> /\ To(t, "remove")
        /\ job' = [job EXCEPT ![a][IF doing[t].both THEN "assemble" ELSE "transcribe"] = "pending"]
    BY <1>2, <1>26 DEF Redoes, Again
  <2>2. /\ doing'[t].at = "remove" /\ doing'[t].first = a /\ doing'[t].second = b
    BY <1>10, <2>1 DEF MergeAt
  <2>3. /\ folder[b].audio # <<>> /\ folder[a].audio # <<>> /\ ~Queued(a) /\ ~Queued(b)
        /\ doing[t].both => folder[a].segments = folder[a].audio
        /\ job[a]["assemble"] = "cancelled" => folder[a].segments # <<>>
    BY <1>5, <2>1 DEF AtMerge
  <2>4. \A p \in Parts \ {a} : job'[p] = job[p]
    BY <1>2, <1>3, <2>1
  <2>5. Kept(a, folder[a], InLine)'
    <3>1. CASE doing[t].both
      <4>1. job'[a]["assemble"] = "pending"
        BY <1>2, <1>3, <2>1, <3>1, StagesAre
      <4>2. \E s \in Stages : job'[a][s] \in InLine
        BY <4>1, StagesAre DEF InLine
      <4> QED BY <2>1, <2>3, <3>1, <4>1, <4>2 DEF Kept
    <3>2. CASE ~doing[t].both
      <4>1. job'[a]["transcribe"] = "pending" /\ job'[a]["assemble"] = job[a]["assemble"]
        BY <1>2, <1>3, <2>1, <3>2, StagesAre
      <4>2. \E s \in Stages : job'[a][s] \in InLine
        BY <4>1, StagesAre DEF InLine
      <4>3. job[a]["assemble"] \notin InLine
        BY <2>3, StagesAre DEF Queued, InLine
      <4> QED BY <2>1, <2>3, <4>1, <4>2, <4>3 DEF Kept
    <3> QED BY <3>1, <3>2
  <2>6. ~Queued(b)'
    BY <1>2, <2>3, <2>4 DEF Queued
  <2>7. AtMerge(t)'
    BY <2>1, <2>2, <2>3, <2>6 DEF AtMerge
  <2>8. \A m \in row' \ {a, b} : folder'[m].audio # <<>> => Kept(m, folder[m], InLine)'
    BY <1>3, <1>11, <2>1, <2>4
  <2> QED BY <1>9, <2>2, <2>5, <2>7, <2>8 DEF MergeAt
<1>27. CASE Removes(t)
  <2>1. doing[t].at = "remove" /\ Is(t, Idle) /\ row' = row \ {b}
    BY <1>27 DEF Removes, purge
  <2>2. doing'[t] = Idle
    BY <1>3, <2>1, IsOwn, IdleIsDoing
  <2>3. \A p \in Parts \ {b} : folder'[p] = folder[p] /\ job'[p] = job[p]
    <3>1. CASE purge(b)
      BY <1>2, <1>3, <3>1 DEF purge
    <3>2. CASE folder' = [folder EXCEPT ![b].marker = TRUE] /\ job' = [job EXCEPT ![b] = NoJobs]
      BY <1>2, <1>3, <3>2, MarkerSet
    <3> QED BY <1>27, <3>1, <3>2 DEF Removes
  <2>4. Kept(a, folder[a], InLine)
    <3>1. ~FirstAt(a, MergeAt \ {"remove"}) /\ ~SecondAt(a, MergeAt \ {"second"})
      BY <1>2, <2>1 DEF FirstAt, SecondAt, MergeAt
    <3>2. folder[a].audio # <<>>
      BY <1>5, <2>1 DEF AtMerge
    <3> QED BY <1>2, <3>1, <3>2 DEF Work
  <2>5. Kept(a, folder[a], InLine)'
    BY <1>2, <1>4, <1>7, <2>3, <2>4, KeptStays
  <2>7. ASSUME NEW m \in row', folder'[m].audio # <<>>
        PROVE  Kept(m, folder[m], InLine)'
    BY <1>3, <1>11, <2>1, <2>3, <2>5, <2>7
  <2> QED BY <1>8, <2>2, <2>7
<1>28. CASE MergeFails(t)
  BY <1>28, MergeFailsDoes
<1> QED BY <1>21, <1>22, <1>23, <1>24, <1>25, <1>26, <1>27, <1>28 DEF MergeStep

(***************************************************************************)
(* Every step keeps them.                                                  *)
(***************************************************************************)
\* Who is at no merge has no second recording.
LEMMA NoSecond ==
    ASSUME Base, \A u \in LibraryThreads : doing[u].at \notin MergeAt
    PROVE  NoMerge
BY DEF NoMerge, Base, Threads

LEMMA NoneOpen ==
    ASSUME NoMerge, NEW t \in LibraryThreads,
           \A u \in LibraryThreads \ {t} : doing'[u] = doing[u], doing'[t].at \notin Open
    PROVE  \A u \in LibraryThreads : doing'[u].at \notin Open
BY DEF NoMerge, Open, Joined, Led, MergeAt

LEMMA PurgeSilences ==
    ASSUME Base, NEW p \in Parts, purge(p)
    PROVE  row' \subseteq row /\ \A m \in row' : folder'[m].audio \in {folder[m].audio, <<>>}
<1>1. folder \in [Parts -> Folder] /\ row \subseteq Parts
  BY DEF Base, LibraryTypeOK
<1> QED BY <1>1 DEF purge

LEMMA OnceAsks ==
    ASSUME Base, Once, MergesAlone, NEW t \in LibraryThreads, Asks(t)
    PROVE  Once'
<1>1. /\ \A u \in LibraryThreads \ {t} : doing'[u] = doing[u]
      /\ doing[t].at \in {"rest", "pending"} /\ UNCHANGED <<row, folder, alias, flaws>>
      /\ \/ doing'[t] = doing[t] \/ doing'[t] = Idle \/ doing'[t].at = "second"
  BY DEF Asks, Begins
<1>2. NoMerge
  BY <1>1, BesideNoMerge, NoSecond DEF MergeAt
<1>3. doing'[t].at \notin Open
  BY <1>1, IdleIsDoing DEF Open, Joined, Led
<1> QED BY <1>1, <1>2, <1>3, NoneOpen, OnceStay

LEMMA OnceTurns ==
    ASSUME Base, Once, MergesAlone,
           \/ TakesJob \/ StageEndsBadly \/ StageEndsWell \/ Completes \/ EnqueuesNext
    PROVE  Once'
<1> DEFINE p == doing[TheWorker].first
<1> SUFFICES /\ NoMerge /\ alias' = alias /\ flaws' = flaws /\ row' \subseteq row
             /\ \A m \in row' : folder'[m].audio \in {folder[m].audio, <<>>}
             /\ \A u \in LibraryThreads \ {TheWorker} : doing'[u] = doing[u]
             /\ doing'[TheWorker].at \notin Open
  <2>1. TheWorker \in LibraryThreads
    BY DEF LibraryThreads
  <2> QED BY <2>1, NoneOpen, OnceStay
<1>1. CASE TakesJob
  BY <1>1, TakesJobDoes DEF Memory, Open, Joined, Led
<1>2. CASE StageEndsBadly
  <2>1. NoMerge /\ UNCHANGED <<alias, flaws>> /\ doing'[TheWorker].at = "rest" /\ p \in Parts
        /\ \A u \in LibraryThreads \ {TheWorker} : doing'[u] = doing[u]
    BY <1>2, StageEndsBadlyDoes, IdleIsDoing
  <2>2. purge(p) \/ UNCHANGED <<row, folder>>
    BY <1>2, StageEndsBadlyDoes
  <2> QED BY <2>1, <2>2, PurgeSilences DEF Open, Joined, Led
<1>3. CASE StageEndsWell
  <2>1. /\ NoMerge /\ UNCHANGED <<row, alias, flaws>> /\ doing'[TheWorker].at = "complete" /\ p \in Parts
        /\ \A u \in LibraryThreads \ {TheWorker} : doing'[u] = doing[u]
        /\ folder'[p].audio = folder[p].audio
        /\ \A m \in Parts \ {p} : folder'[m] = folder[m]
    BY <1>3, StageEndsWellDoes DEF Memory
  <2>2. row \subseteq Parts
    BY DEF Base, LibraryTypeOK
  <2> QED BY <2>1, <2>2 DEF Open, Joined, Led
<1>4. CASE Completes
  BY <1>4, CompletesDoes, IdleIsDoing DEF Memory, Open, Joined, Led
<1>5. CASE EnqueuesNext
  BY <1>5, EnqueuesNextDoes, IdleIsDoing DEF Memory, Open, Joined, Led
<1> QED BY <1>1, <1>2, <1>3, <1>4, <1>5

LEMMA OncePressed ==
    ASSUME Base, Once, MergesAlone, NEW t \in Pressers, RetryPressed(t) \/ DeletePressed(t)
    PROVE  Once'
<1>1. CASE RetryPressed(t)
  BY <1>1, RetryPressedDoes, OnceStay DEF NoMerge, Open, Joined, Led, MergeAt
<1>2. CASE DeletePressed(t)
  <2>1. NoMerge /\ UNCHANGED <<alias, doing, flaws>>
    BY <1>2, DeletePressedDoes
  <2>2. PICK m \in row : \/ row' = row /\ folder' = [folder EXCEPT ![m].marker = TRUE]
                         \/ purge(m) \/ UNCHANGED <<row, folder>>
    BY <1>2, DeletePressedDoes
  <2>3. folder \in [Parts -> Folder] /\ row \subseteq Parts
    BY DEF Base, LibraryTypeOK
  <2>4. row' \subseteq row /\ \A p \in row' : folder'[p].audio \in {folder[p].audio, <<>>}
    <3>1. CASE row' = row /\ folder' = [folder EXCEPT ![m].marker = TRUE]
      <4>1. \A p \in Parts : folder'[p].audio = folder[p].audio
        BY <2>3, <3>1 DEF Folder
      <4> QED BY <2>3, <3>1, <4>1
    <3>2. CASE purge(m)
      BY <2>3, <3>2, PurgeSilences
    <3> QED BY <2>2, <3>1, <3>2
  <2> QED BY <2>1, <2>4, OnceStay DEF NoMerge, Open, Joined, Led, MergeAt
<1> QED BY <1>1, <1>2

LEMMA OnceSweeps ==
    ASSUME Base, Once, MergesAlone, NEW t \in LibraryThreads, SweepBegins(t) \/ Sweeps(t)
    PROVE  Once'
<1> SUFFICES /\ NoMerge /\ alias' = alias /\ flaws \subseteq flaws' /\ row' \subseteq row
             /\ \A m \in row' : folder'[m].audio \in {folder[m].audio, <<>>}
             /\ \A u \in LibraryThreads \ {t} : doing'[u] = doing[u]
             /\ doing'[t].at \notin Open
  BY NoneOpen, OnceStay
<1>1. CASE SweepBegins(t)
  BY <1>1, SweepBeginsDoes DEF Open, Joined, Led
<1>2. CASE Sweeps(t)
  <2>1. NoMerge /\ alias' = alias /\ flaws \subseteq flaws'
        /\ (\A u \in LibraryThreads \ {t} : doing'[u] = doing[u]) /\ doing'[t].at \in {"rest", "sweep"}
    BY <1>2, SweepsDoes, IdleIsDoing
  <2>2. \/ UNCHANGED <<row, folder>> \/ \E p \in row : purge(p)
        \/ \E p \in row : folder' = [folder EXCEPT ![p].audio = <<>>] /\ row' = row
    BY <1>2, SweepsDoes
  <2>3. folder \in [Parts -> Folder] /\ row \subseteq Parts
    BY DEF Base, LibraryTypeOK
  <2>4. row' \subseteq row /\ \A p \in row' : folder'[p].audio \in {folder[p].audio, <<>>}
    <3>1. CASE \E p \in row : folder' = [folder EXCEPT ![p].audio = <<>>] /\ row' = row
      <4>1. PICK p \in row : folder' = [folder EXCEPT ![p].audio = <<>>] /\ row' = row
        BY <3>1
      <4>2. \A m \in Parts : folder'[m].audio \in {folder[m].audio, <<>>}
        BY <2>3, <4>1 DEF Folder
      <4> QED BY <2>3, <4>1, <4>2
    <3>2. CASE \E p \in row : purge(p)
      BY <2>3, <3>2, PurgeSilences
    <3> QED BY <2>2, <3>1, <3>2
  <2> QED BY <2>1, <2>4 DEF Open, Joined, Led
<1> QED BY <1>1, <1>2

LEMMA OnceDies ==
    ASSUME Base, Once, Dies
    PROVE  Once'
<1>1. /\ alias' = alias /\ \A t \in LibraryThreads : doing'[t].at \notin Open
      /\ row' \subseteq row /\ \A p \in row' : folder'[p].audio = folder[p].audio
      /\ flaws' = IF \E t \in LibraryThreads : doing[t].second # None \/ doing[t].at = "next"
                  THEN flaws \union {"cut"} ELSE flaws
  BY DiesDoes, IdleIsDoing DEF Open, Joined, Led
<1>2. CASE \E t \in LibraryThreads : doing[t].second # None \/ doing[t].at = "next"
  BY <1>1, <1>2 DEF Once
<1>3. CASE ~\E t \in LibraryThreads : doing[t].second # None \/ doing[t].at = "next"
  <2>1. row \subseteq Parts /\ None \notin Parts
    BY PartsAreNumbered DEF Base, LibraryTypeOK
  <2>2. NoMerge
    BY <1>3, <2>1 DEF NoMerge, Base, Threads
  <2> QED BY <1>1, <1>3, <2>2, OnceStay
<1> QED BY <1>2, <1>3

LEMMA LibraryBegins ==
    ASSUME LibraryInit
    PROVE  LibraryIndInv
<1>1. PICK done \in SUBSET Parts :
       /\ folder = [p \in Parts |-> IF p \in done
              THEN [NoFolder EXCEPT !.audio = <<p>>, !.segments = <<p>>, !.transcript = <<p>>]
              ELSE [NoFolder EXCEPT !.audio = <<p>>]]
       /\ job = [p \in Parts |-> IF p \in done THEN [s \in Stages |-> "done"]
                                 ELSE [transcribe |-> "pending", assemble |-> "none"]]
  BY DEF LibraryInit
<1>2. /\ row = Parts /\ alias = [p \in Parts |-> None] /\ waits = [p \in Parts |-> None]
      /\ deleting = {} /\ doing = [t \in LibraryThreads |-> Idle] /\ quota \in Quotas
      /\ removed = {} /\ flaws = {}
  BY DEF LibraryInit
<1>3. \A p \in Parts : /\ folder[p].audio = <<p>>
                       /\ folder[p].segments = (IF p \in done THEN <<p>> ELSE <<>>)
                       /\ folder[p].transcript = (IF p \in done THEN <<p>> ELSE <<>>)
                       /\ folder[p] \in Folder
  <2> SUFFICES ASSUME NEW p \in Parts
               PROVE  /\ folder[p].audio = <<p>>
                      /\ folder[p].segments = (IF p \in done THEN <<p>> ELSE <<>>)
                      /\ folder[p].transcript = (IF p \in done THEN <<p>> ELSE <<>>)
                      /\ folder[p] \in Folder
    OBVIOUS
  <2>1. <<p>> \in Seq(Parts) /\ <<>> \in Seq(Parts)
    OBVIOUS
  <2>2. CASE p \in done
    <3>1. folder[p] = [audio |-> <<p>>, segments |-> <<p>>, transcript |-> <<p>>, marker |-> FALSE]
      BY <1>1, <2>2 DEF NoFolder
    <3> QED BY <2>1, <2>2, <3>1 DEF Folder
  <2>3. CASE p \notin done
    <3>1. folder[p] = [audio |-> <<p>>, segments |-> <<>>, transcript |-> <<>>, marker |-> FALSE]
      BY <1>1, <2>3 DEF NoFolder
    <3> QED BY <2>1, <2>3, <3>1 DEF Folder
  <2> QED BY <2>2, <2>3
<1>4. \A t \in LibraryThreads : /\ doing[t] = Idle /\ doing[t].at = "rest" /\ doing[t].first = None
                                /\ doing[t].second = None
  BY <1>2, IdleIsDoing
<1>5. LibraryTypeOK
  <2>1. \A p \in Parts : job[p] \in [Stages -> JobStates]
    <3>1. "done" \in JobStates /\ "pending" \in JobStates /\ "none" \in JobStates
      BY DEF JobStates
    <3>2. [s \in Stages |-> "done"] \in [Stages -> JobStates]
      BY <3>1
    <3>3. [transcribe |-> "pending", assemble |-> "none"] \in [Stages -> JobStates]
      BY <3>1, StagesAre
    <3> QED BY <1>1, <3>2, <3>3
  <2>2. job \in [Parts -> [Stages -> JobStates]] /\ folder \in [Parts -> Folder]
    BY <1>1, <1>3, <2>1
  <2>3. doing \in [LibraryThreads -> Doing] /\ quota \in [Happenings -> Nat]
    BY <1>2, IdleIsDoing, QuotasAssumption
  <2> QED BY <1>2, <2>2, <2>3 DEF LibraryTypeOK
<1>6. Threads
  BY <1>4 DEF Threads, WorkerAt, MergeAt
<1>7. \A p \in Parts : Apart(folder[p].audio, {p})
  <2>1. ASSUME NEW p \in Parts
        PROVE  Apart(<<p>>, {p})
    <3>1. IsInjective(<<p>>) /\ ToSet(<<p>>) = {p}
      BY DEF IsInjective, ToSet
    <3>2. resolve(p) = p
      BY <1>2 DEF resolve
    <3> QED BY <3>1, <3>2 DEF Apart
  <2> QED BY <1>3, <2>1
<1>8. Once
  BY <1>2, <1>4, <1>7 DEF Once
<1>9. Work
  <2>1. TheWorker \in LibraryThreads /\ None \notin Parts
    BY PartsAreNumbered DEF LibraryThreads
  <2>2. ASSUME NEW m \in Parts
        PROVE  Kept(m, folder[m], InLine)
    <3>1. CASE m \in done
      <4>1. \A s \in Stages : job[m][s] = "done"
        BY <1>1, <3>1
      <4> QED BY <1>3, <3>1, <4>1, StagesAre DEF Kept, InLine
    <3>2. CASE m \notin done
      <4>1. job[m]["transcribe"] = "pending" /\ job[m]["assemble"] = "none"
        BY <1>1, <3>2
      <4> QED BY <4>1, StagesAre DEF Kept, InLine
    <3> QED BY <3>1, <3>2
  <2> QED BY <1>2, <1>4, <2>1, <2>2 DEF Work, MergeAt
<1> QED BY <1>5, <1>6, <1>8, <1>9 DEF LibraryIndInv

LEMMA LibraryStaysSo ==
    ASSUME LibraryIndInv, UNCHANGED libraryVars
    PROVE  LibraryIndInv'
<1>1. /\ row' = row /\ folder' = folder /\ job' = job /\ alias' = alias /\ waits' = waits
      /\ deleting' = deleting /\ doing' = doing /\ quota' = quota /\ removed' = removed
      /\ flaws' = flaws
  BY DEF libraryVars
<1>2. LibraryTypeOK'
  BY <1>1 DEF LibraryIndInv, LibraryTypeOK
<1>3. Threads'
  BY <1>1 DEF LibraryIndInv, Threads
<1>4. Once'
  BY <1>1 DEF LibraryIndInv, Once, Apart, FirstAt, SecondAt, resolve
<1>5. Work'
  <2>1. ASSUME NEW m, NEW states
        PROVE  Kept(m, folder[m], states)' <=> Kept(m, folder[m], states)
    BY <1>1 DEF Kept, Between
  <2>2. \A m, ats : FirstAt(m, ats)' = FirstAt(m, ats) /\ SecondAt(m, ats)' = SecondAt(m, ats)
    BY <1>1 DEF FirstAt, SecondAt
  <2>3. InHand' <=> InHand
    BY <1>1 DEF InHand
  <2>4. ASSUME NEW t \in LibraryThreads
        PROVE  AtMerge(t)' <=> AtMerge(t)
    <3>1. \A p : Queued(p)' = Queued(p) /\ transcribed(p)' = transcribed(p)
      BY <1>1 DEF Queued, transcribed
    <3>2. ASSUME NEW m, NEW f, NEW states
          PROVE  Kept(m, f, states)' <=> Kept(m, f, states)
      BY <1>1 DEF Kept, Between
    <3> QED BY <1>1, <3>1, <3>2 DEF AtMerge, Kept, Between, Queued, transcribed
  <2> QED BY <1>1, <2>1, <2>2, <2>3, <2>4 DEF LibraryIndInv, Work
<1> QED BY <1>2, <1>3, <1>4, <1>5 DEF LibraryIndInv

LEMMA LibraryStep ==
    ASSUME LibraryIndInv, MergesAlone, LibraryNext
    PROVE  LibraryIndInv'
<1>1. Base /\ Once /\ Work
  BY DEF LibraryIndInv, Base
<1> SUFFICES Base' /\ Once' /\ Work'
  BY DEF LibraryIndInv, Base
<1>2. TheWorker \in LibraryThreads /\ \A t \in Pressers : t \in LibraryThreads
  BY DEF LibraryThreads
<1>3. ASSUME NEW t \in LibraryThreads, Asks(t)
      PROVE  Base' /\ Once' /\ Work'
  BY <1>1, <1>3, BaseAsks, OnceAsks, WorkAsks
<1>4. ASSUME NEW t \in Pressers, Pressed(t)
      PROVE  Base' /\ Once' /\ Work'
  <2>1. CASE MergePressed(t) \/ Assigned(t)
    BY <1>1, <1>2, <1>3, <2>1, MergePressedAsks, AssignedAsks DEF Base
  <2>2. CASE RetryPressed(t)
    BY <1>1, <2>2, RetryPressedDoes, OncePressed, WorkRetryPressed
  <2>3. CASE DeletePressed(t)
    BY <1>1, <2>3, DeletePressedDoes, OncePressed, WorkDeletePressed
  <2> QED BY <1>4, <2>1, <2>2, <2>3 DEF Pressed
<1>5. ASSUME NEW t \in LibraryThreads, MergeStep(t)
      PROVE  Base' /\ Once' /\ Work'
  BY <1>1, <1>5, BaseMerge, OnceMerge, WorkMerge
<1>6. ASSUME NEW t \in LibraryThreads, SweepBegins(t) \/ Sweeps(t)
      PROVE  Base' /\ Once' /\ Work'
  BY <1>1, <1>6, SweepBeginsDoes, SweepsDoes, OnceSweeps, WorkSweepBegins, WorkSweeps
<1>7. CASE StageStep
  <2>1. CASE MergesPending
    BY <1>1, <1>2, <1>3, <2>1, MergesPendingAsks DEF Base
  <2>2. CASE TakesJob
    BY <1>1, <2>2, TakesJobDoes, OnceTurns, WorkTakesJob
  <2>3. CASE StageEndsBadly
    BY <1>1, <2>3, StageEndsBadlyDoes, OnceTurns, WorkStageEndsBadly
  <2>4. CASE StageEndsWell
    BY <1>1, <2>4, StageEndsWellDoes, OnceTurns, WorkStageEndsWell
  <2>5. CASE Completes
    BY <1>1, <2>5, CompletesDoes, OnceTurns, WorkCompletes
  <2>6. CASE EnqueuesNext
    BY <1>1, <2>6, EnqueuesNextDoes, OnceTurns, WorkEnqueuesNext
  <2> QED BY <1>7, <2>1, <2>2, <2>3, <2>4, <2>5, <2>6 DEF StageStep
<1>8. CASE Dies
  BY <1>1, <1>8, DiesDoes, OnceDies, WorkDies
<1> QED BY <1>4, <1>5, <1>6, <1>7, <1>8 DEF LibraryNext

\* Where no merge has company, the library keeps all this.
LEMMA LibraryIsKept == LibrarySpec /\ [][MergesAlone]_libraryVars => []LibraryIndInv
<1>1. LibraryInit => LibraryIndInv
  BY LibraryBegins
<1>2. LibraryIndInv /\ [LibraryNext]_libraryVars /\ [MergesAlone]_libraryVars => LibraryIndInv'
  BY LibraryStep, LibraryStaysSo
<1> QED BY <1>1, <1>2, PTL DEF LibrarySpec

\* When nothing is under way.
LEMMA WholeAtRest ==
    ASSUME LibraryIndInv
    PROVE  HeardOnce /\ TranscriptIsWhole /\ MergeLeavesWork
<1>1. ASSUME Resting
      PROVE  /\ \A t \in LibraryThreads : doing[t].at = "rest"
             /\ \A m : ~SecondAt(m, MergeAt \ {"second"}) /\ ~SecondAt(m, Led)
                       /\ ~FirstAt(m, MergeAt \ {"remove"}) /\ ~FirstAt(m, Joined) /\ ~Between(m)
  <2>1. TheWorker \in LibraryThreads
    BY DEF LibraryThreads
  <2> QED BY <1>1, <2>1 DEF Resting, FirstAt, SecondAt, Between, MergeAt, Led, Joined
<1>2. HeardOnce
  BY <1>1 DEF LibraryIndInv, HeardOnce, Once, Apart
<1>3. ASSUME NEW p \in row, Resting, flaws = {}, folder[p].audio # <<>>
      PROVE  Kept(p, folder[p], InLine)
  BY <1>1, <1>3 DEF LibraryIndInv, Work
<1>4. TranscriptIsWhole
  BY <1>1, <1>3 DEF TranscriptIsWhole, Kept, Queued, InLine
<1>5. MergeLeavesWork
  BY <1>1, <1>3 DEF MergeLeavesWork, Kept, Queued, InLine
<1> QED BY <1>2, <1>4, <1>5

\* No sound is in a file twice while merges are alone: a merge that failed has undone its
\* append before it is tried again (merge.py), unless the process died in it.
THEOREM NoPartTwice == LibrarySpec /\ [][MergesAlone]_libraryVars => []HeardOnce
BY LibraryIsKept, WholeAtRest, PTL

\* A transcript is of all the sound its recording has, or a job is to make it so, while
\* merges are alone and nothing was cut short or stale before.
THEOREM WholeTranscripts == LibrarySpec /\ [][MergesAlone]_libraryVars => []TranscriptIsWhole
BY LibraryIsKept, WholeAtRest, PTL

\* A recording that is not transcribed waits to be, under the same conditions: withdraw and
\* restore lose no job, and a merge of two that were transcribed leaves one to assemble.
THEOREM WorkIsLeft == LibrarySpec /\ [][MergesAlone]_libraryVars => []MergeLeavesWork
BY LibraryIsKept, WholeAtRest, PTL

(***************************************************************************)
(* Found.                                                                  *)
(***************************************************************************)
LEMMA LeadIsHeld ==
    ASSUME NEW m
    PROVE  Lead(m) \subseteq Held(m) \ removed
BY DEF Lead, Held, resolve

\* As long as no id leads elsewhere, fewer lead there.
LEMMA FewerLead ==
    ASSUME alias' = alias, removed \subseteq removed', NEW m
    PROVE  Lead(m)' \subseteq Lead(m) /\ Held(m)' = Held(m) /\ Lead(m)' \subseteq Held(m) \ removed'
BY DEF Lead, Held, resolve

LEMMA DoomedStays ==
    ASSUME Doomed, alias' = alias, removed \subseteq removed', row' \subseteq row,
           \A m \in row' : /\ folder'[m].marker => folder[m].marker \/ Held(m) \subseteq removed'
                           /\ m \in deleting' => folder'[m].marker,
           \A t \in LibraryThreads :
              /\ doing'[t].at # "sweep" => doing'[t].todo = {}
              /\ \/ doing'[t].todo \subseteq doing[t].todo
                 \/ \A m \in row' : <<m, "purge">> \in doing'[t].todo => Held(m) \subseteq removed'
    PROVE  Doomed'
BY FewerLead DEF Doomed

\* What goes was deleted with all that leads to it.
LEMMA RowsStay ==
    ASSUME Found, alias' = alias, removed \subseteq removed',
           \A m \in row \ row' : Held(m) \subseteq removed'
    PROVE  (\A p \in Parts \ removed : resolve(p) \in row)'
<1>1. ASSUME NEW p \in Parts \ removed'
      PROVE  resolve(p) \in row'
  <2>1. p \in Held(resolve(p))
    BY DEF Held, resolve
  <2>2. resolve(p) \in row
    BY DEF Found
  <2> QED BY <2>1, <2>2
<1>2. \A p : resolve(p)' = resolve(p)
  BY DEF resolve
<1> QED BY <1>1, <1>2

LEMMA HearsStays ==
    ASSUME NEW m, Hears(m), alias' = alias, removed \subseteq removed',
           folder'[m].audio = folder[m].audio, folder'[m].segments = folder[m].segments,
           folder'[m].transcript = folder[m].transcript,
           job'[m]["assemble"] \in InLine => job[m]["assemble"] \in InLine /\ (Planned(m)' => Planned(m))
    PROVE  Hears(m)'
<1>1. Lead(m)' \subseteq Lead(m)
  BY FewerLead
<1>2. /\ folder'[m].audio = <<>> => Lead(m)' \subseteq ToSet(folder'[m].transcript)
      /\ folder'[m].audio # <<>> => {m} \union Lead(m)' \subseteq ToSet(folder'[m].audio)
  BY <1>1 DEF Hears
<1>3. (folder'[m].audio = <<>> \/ Planned(m)') /\ job'[m]["assemble"] \in InLine
        => Lead(m)' \subseteq ToSet(folder'[m].segments)
  BY <1>1 DEF Hears
<1> QED BY <1>2, <1>3 DEF Hears

\* What the worker has in hand stays so beside what others do.
LEMMA InHandStays ==
    ASSUME FoundInHand, alias' = alias, removed \subseteq removed', row' \subseteq row,
           doing'[TheWorker] = doing[TheWorker],
           LET m == doing[TheWorker].first IN
             doing[TheWorker].at \in {"stage", "complete", "next"} /\ m \in row' =>
               /\ folder'[m].segments = folder[m].segments
               /\ job'[m] = job[m] \/ Held(m) \subseteq removed'
               /\ folder'[m].audio = <<>> \/ Planned(m)' =>
                     \/ folder[m].audio = <<>> \/ Planned(m) \/ doing[TheWorker].stage = "transcribe"
                     \/ doing[TheWorker].at # "stage" \/ Held(m) \subseteq removed'
    PROVE  FoundInHand'
<1> PICK d : d = doing[TheWorker]
  OBVIOUS
<1> PICK m : m = d.first
  OBVIOUS
<1>1. d = doing'[TheWorker]
  OBVIOUS
<1> SUFFICES ASSUME d.at \in {"stage", "complete", "next"}, m \in row'
             PROVE
      /\ d.at \in {"stage", "complete"} => job'[m][d.stage] \in InLine \/ Held(m)' \subseteq removed'
      /\ d.at = "stage" /\ d.stage = "transcribe" =>
            d.before.audio = <<>> \/ Lead(m)' \subseteq ToSet(d.before.audio)
      /\ d.at = "stage" /\ d.stage = "assemble" /\ (folder'[m].audio = <<>> \/ Planned(m)') =>
            Lead(m)' \subseteq ToSet(d.before.segments)
      /\ d.at \in {"complete", "next"} /\ d.stage = "transcribe" =>
            Lead(m)' \subseteq ToSet(folder'[m].segments)
  BY <1>1 DEF FoundInHand
<1>2. Lead(m)' \subseteq Lead(m) /\ Held(m)' = Held(m)
  BY FewerLead
<1>3. Lead(m)' \subseteq Held(m) \ removed'
  BY FewerLead
<1>4. /\ folder'[m].segments = folder[m].segments
      /\ job'[m] = job[m] \/ Held(m) \subseteq removed'
      /\ folder'[m].audio = <<>> \/ Planned(m)' =>
            \/ folder[m].audio = <<>> \/ Planned(m) \/ d.stage = "transcribe"
            \/ d.at # "stage" \/ Held(m) \subseteq removed'
  OBVIOUS
<1>5. /\ d.at \in {"stage", "complete"} => job[m][d.stage] \in InLine \/ Held(m) \subseteq removed
      /\ d.at = "stage" /\ d.stage = "transcribe" =>
            d.before.audio = <<>> \/ Lead(m) \subseteq ToSet(d.before.audio)
      /\ d.at = "stage" /\ d.stage = "assemble" /\ (folder[m].audio = <<>> \/ Planned(m)) =>
            Lead(m) \subseteq ToSet(d.before.segments)
      /\ d.at \in {"complete", "next"} /\ d.stage = "transcribe" =>
            Lead(m) \subseteq ToSet(folder[m].segments)
  BY DEF FoundInHand
<1>6. d.at \in {"stage", "complete"} => job'[m][d.stage] \in InLine \/ Held(m)' \subseteq removed'
  BY <1>2, <1>4, <1>5
<1>7. d.at = "stage" /\ d.stage = "assemble" /\ (folder'[m].audio = <<>> \/ Planned(m)') =>
            Lead(m)' \subseteq ToSet(d.before.segments)
  BY <1>2, <1>3, <1>4, <1>5
<1> QED BY <1>2, <1>4, <1>5, <1>6, <1>7

\* Who is at no merge says nothing of one.
LEMMA NoneAtMerge ==
    ASSUME \A t \in LibraryThreads : doing'[t].at \notin MergeAt
    PROVE  FoundAtMerge'
BY DEF FoundAtMerge, MergeAt, Led

LEMMA NowhereHeld ==
    ASSUME doing'[TheWorker].at \notin {"stage", "complete", "next"}
    PROVE  FoundInHand'
BY DEF FoundInHand

\* A turn that touches nothing of the files and no id keeps what they hold.
LEMMA FoundAsks ==
    ASSUME FoundInv, MergesAlone, NEW t \in LibraryThreads, Asks(t)
    PROVE  FoundInv'
<1>1. Base /\ Doomed /\ Found /\ FoundInHand /\ FoundAtMerge
  BY DEF FoundInv, Base
<1>2. /\ doing[t].at \in {"rest", "pending"} /\ UNCHANGED <<row, folder, alias, deleting, removed, flaws>>
      /\ \A u \in LibraryThreads \ {t} : doing'[u] = doing[u]
      /\ \/ job' = job /\ (doing'[t] = doing[t] \/ doing'[t] = Idle)
         \/ \E a, b \in row : Begins(t, a, b)
  BY DEF Asks
<1>3. Base'
  BY <1>1, BaseAsks
<1>4. \A u \in LibraryThreads \ {t} : doing[u].second = None /\ doing[u].at \notin MergeAt
  BY <1>1, <1>2, BesideNoMerge
<1>5. doing'[t].todo = {} /\ doing[t].todo = {} /\ doing[t].at \notin MergeAt
  <2>1. doing[t].todo = {}
    BY <1>1, <1>2 DEF Doomed
  <2> QED BY <1>2, <2>1, IdleIsDoing DEF Begins, MergeAt
<1>6. Doomed'
  <2>1. \A u \in LibraryThreads : doing'[u].todo \subseteq doing[u].todo
                                  /\ (doing'[u].at # "sweep" => doing'[u].todo = {})
    BY <1>1, <1>2, <1>5 DEF Doomed
  <2>2. \A m \in row : m \in deleting => folder[m].marker
    BY <1>1 DEF Doomed
  <2> QED BY <1>1, <1>2, <2>1, <2>2, DoomedStays
<1>7. \A m : Planned(m)' => Planned(m)
  BY <1>2, <1>5 DEF Planned
<1>8. \A m \in row : job'[m]["assemble"] \in InLine => job[m]["assemble"] \in InLine
  <2>1. CASE job' = job
    BY <2>1
  <2>2. CASE \E a, b \in row : Begins(t, a, b)
    <3>1. PICK a \in row, b \in row : Begins(t, a, b)
      BY <2>2
    <3>2. a \in Parts /\ row \subseteq Parts
      BY <1>1 DEF Base, LibraryTypeOK
    <3> QED BY <1>1, <3>1, <3>2, WithdrawIs, StagesAre DEF Begins
  <2> QED BY <1>2, <2>1, <2>2
<1>9. Found'
  <2>1. (\A p \in Parts \ removed : resolve(p) \in row)'
    BY <1>1, <1>2, RowsStay
  <2>2. ASSUME NEW m \in row
        PROVE  Hears(m)'
    BY <1>1, <1>2, <1>7, <1>8, HearsStays DEF Found
  <2> QED BY <1>2, <2>1, <2>2 DEF Found
<1>10. FoundInHand'
  <2>1. CASE t = TheWorker
    <3>1. doing'[TheWorker].at \notin {"stage", "complete", "next"}
      BY <1>2, <2>1, IdleIsDoing DEF Begins
    <3> QED BY <3>1, NowhereHeld
  <2>2. CASE t # TheWorker
    <3>1. TheWorker \in LibraryThreads
      BY DEF LibraryThreads
    <3>2. doing'[TheWorker] = doing[TheWorker]
      BY <1>2, <2>2, <3>1
    <3>3. CASE job' = job
      BY <1>1, <1>2, <1>7, <3>2, <3>3, InHandStays
    <3>4. CASE \E a, b \in row : Begins(t, a, b)
      <4>1. doing'[t].at = "second" /\ doing'[t].second \in row
        BY <3>4 DEF Begins
      <4>2. doing'[t].second # None
        BY <1>1, <4>1, PartsAreNumbered DEF Base, LibraryTypeOK
      <4>3. doing'[TheWorker].at = "rest"
        BY <2>2, <3>1, <4>2 DEF MergesAlone, MergeAlone
      <4> QED BY <4>3, NowhereHeld
    <3> QED BY <1>2, <3>3, <3>4
  <2> QED BY <2>1, <2>2
<1>11. FoundAtMerge'
  <2>1. CASE doing'[t].at \notin MergeAt
    <3>1. \A u \in LibraryThreads : doing'[u].at \notin MergeAt
      BY <1>2, <1>4, <2>1
    <3> QED BY <3>1, NoneAtMerge
  <2>2. CASE doing'[t].at \in MergeAt
    <3>1. PICK a \in row, b \in row : Begins(t, a, b)
      BY <1>2, <1>5, <2>2, IdleIsDoing DEF MergeAt
    <3>2. /\ doing'[t].at = "second" /\ doing'[t].first = a /\ doing'[t].second = b
          /\ folder'[a].audio # <<>> /\ folder'[b].audio # <<>>
      BY <1>2, <3>1 DEF Begins
    <3>3. \A u \in LibraryThreads \ {t} : doing'[u].at \notin MergeAt
      BY <1>2, <1>4
    <3> QED BY <3>2, <3>3 DEF FoundAtMerge, MergeAt, Led
  <2> QED BY <2>1, <2>2
<1> QED BY <1>3, <1>6, <1>9, <1>10, <1>11 DEF FoundInv, Base

LEMMA PurgeLeaves ==
    ASSUME Base, NEW p \in Parts, purge(p)
    PROVE  /\ row' = row \ {p} /\ row \subseteq Parts
           /\ \A m \in row' : folder'[m] = folder[m] /\ job'[m] = job[m]
<1>1. folder \in [Parts -> Folder] /\ row \subseteq Parts /\ job \in [Parts -> [Stages -> JobStates]]
  BY DEF Base, LibraryTypeOK
<1> QED BY <1>1 DEF purge

\* What is purged was deleted, with all that leads to it.
LEMMA PurgeFinds ==
    ASSUME Base, Found, NEW p \in Parts, purge(p), alias' = alias, removed \subseteq removed',
           p \in row => Held(p) \subseteq removed', \A m \in row' : Planned(m)' => Planned(m)
    PROVE  Found'
<1>1. row' = row \ {p} /\ \A m \in row' : folder'[m] = folder[m] /\ job'[m] = job[m]
  BY PurgeLeaves
<1>2. (\A q \in Parts \ removed : resolve(q) \in row)'
  BY <1>1, RowsStay
<1>3. ASSUME NEW m \in row'
      PROVE  Hears(m)'
  BY <1>1, HearsStays DEF Found
<1> QED BY <1>2, <1>3 DEF Found

\* The worker turns from one job to what comes after it, or to nothing.
LEMMA TurnsPlanNothing ==
    ASSUME Doomed, NEW t \in LibraryThreads, \A u \in LibraryThreads \ {t} : doing'[u] = doing[u],
           doing'[t].todo = {}
    PROVE  /\ \A m : Planned(m)' => Planned(m)
           /\ \A u \in LibraryThreads : /\ doing'[u].at # "sweep" => doing'[u].todo = {}
                                        /\ doing'[u].todo \subseteq doing[u].todo
BY DEF Doomed, Planned

LEMMA FoundTakesJob ==
    ASSUME FoundInv, MergesAlone, TakesJob
    PROVE  FoundInv'
<1>1. Base /\ Doomed /\ Found /\ FoundInHand /\ FoundAtMerge /\ TheWorker \in LibraryThreads
  BY DEF FoundInv, Base, LibraryThreads
<1>2. /\ Base' /\ NoMerge /\ UNCHANGED <<row, folder, alias, deleting, removed>>
      /\ \A u \in LibraryThreads \ {TheWorker} : doing'[u] = doing[u]
      /\ doing'[TheWorker].at = "stage" /\ doing'[TheWorker].todo = {}
  BY <1>1, TakesJobDoes DEF Memory
<1>3. PICK p \in row, s \in Stages :
         /\ job[p][s] = "pending" /\ job' = [job EXCEPT ![p][s] = "running"]
         /\ doing'[TheWorker].first = p /\ doing'[TheWorker].stage = s
         /\ doing'[TheWorker].before = folder[p]
  BY <1>1, TakesJobDoes
<1>4. job \in [Parts -> [Stages -> JobStates]] /\ row \subseteq Parts
  BY <1>1 DEF Base, LibraryTypeOK
<1>5. /\ \A m \in Parts : job'[m]["assemble"] \in InLine => job[m]["assemble"] \in InLine
      /\ job'[p][s] = "running"
  BY <1>3, <1>4, StagesAre DEF InLine
<1>6. \A m : Planned(m)' => Planned(m)
  BY <1>1, <1>2, TurnsPlanNothing
<1>7. Doomed'
  <2>1. \A m \in row : m \in deleting => folder[m].marker
    BY <1>1 DEF Doomed
  <2> QED BY <1>1, <1>2, <2>1, TurnsPlanNothing, DoomedStays
<1>8. Found'
  <2>1. (\A q \in Parts \ removed : resolve(q) \in row)'
    BY <1>1, <1>2, RowsStay
  <2>2. ASSUME NEW m \in row
        PROVE  Hears(m)'
    BY <1>1, <1>2, <1>4, <1>5, <1>6, HearsStays DEF Found
  <2> QED BY <1>2, <2>1, <2>2 DEF Found
<1>9. FoundInHand'
  <2>1. Lead(p)' \subseteq Lead(p)
    BY <1>2, FewerLead
  <2>2. Hears(p)
    BY <1>1 DEF Found
  <2>3. s = "assemble" => job[p]["assemble"] \in InLine
    BY <1>3 DEF InLine
  <2>4. job'[p][s] \in InLine
    BY <1>5 DEF InLine
  <2>5. s = "transcribe" => folder[p].audio = <<>> \/ Lead(p)' \subseteq ToSet(folder[p].audio)
    BY <2>1, <2>2 DEF Hears
  <2>6. s = "assemble" /\ (folder'[p].audio = <<>> \/ Planned(p)') => Lead(p)' \subseteq ToSet(folder[p].segments)
    BY <1>2, <1>6, <2>1, <2>2, <2>3 DEF Hears
  <2> QED BY <1>2, <1>3, <2>4, <2>5, <2>6 DEF FoundInHand
<1>10. FoundAtMerge'
  BY <1>2, NoneAtMerge DEF NoMerge, MergeAt
<1> QED BY <1>2, <1>7, <1>8, <1>9, <1>10 DEF FoundInv, Base

LEMMA FoundStageEndsBadly ==
    ASSUME FoundInv, MergesAlone, StageEndsBadly
    PROVE  FoundInv'
<1> PICK p : p = doing[TheWorker].first
  OBVIOUS
<1>1. Base /\ Doomed /\ Found /\ TheWorker \in LibraryThreads
  BY DEF FoundInv, Base, LibraryThreads
<1>2. /\ Base' /\ NoMerge /\ UNCHANGED <<alias, removed>>
      /\ \A u \in LibraryThreads \ {TheWorker} : doing'[u] = doing[u]
      /\ doing'[TheWorker].at = "rest" /\ doing'[TheWorker].todo = {} /\ p \in Parts
  BY <1>1, StageEndsBadlyDoes, IdleIsDoing
<1>3. \/ p \in deleting /\ purge(p) /\ deleting' = deleting \ {p}
      \/ /\ job' = [job EXCEPT ![p][doing[TheWorker].stage] = "failed"]
         /\ UNCHANGED <<row, folder, deleting>>
  BY <1>1, StageEndsBadlyDoes
<1>4. \A m : Planned(m)' => Planned(m)
  BY <1>1, <1>2, TurnsPlanNothing
<1>5. FoundAtMerge' /\ FoundInHand'
  BY <1>2, NoneAtMerge, NowhereHeld DEF NoMerge, MergeAt
<1>6. CASE p \in deleting /\ purge(p) /\ deleting' = deleting \ {p}
  <2>1. p \in row => Held(p) \subseteq removed
    BY <1>1, <1>6 DEF Doomed
  <2>2. Found'
    BY <1>1, <1>2, <1>4, <1>6, <2>1, PurgeFinds
  <2>3. row' = row \ {p} /\ \A m \in row' : folder'[m] = folder[m]
    BY <1>1, <1>2, <1>6, PurgeLeaves
  <2>4. \A m \in row' : m \in deleting' => folder'[m].marker
    BY <1>1, <1>6, <2>3 DEF Doomed
  <2>5. Doomed'
    BY <1>1, <1>2, <2>3, <2>4, TurnsPlanNothing, DoomedStays
  <2> QED BY <1>2, <1>5, <2>2, <2>5 DEF FoundInv, Base
<1>7. CASE /\ job' = [job EXCEPT ![p][doing[TheWorker].stage] = "failed"]
           /\ UNCHANGED <<row, folder, deleting>>
  <2>1. job \in [Parts -> [Stages -> JobStates]] /\ row \subseteq Parts /\ doing[TheWorker].stage \in Stages
    BY <1>1, Pieces DEF Base, LibraryTypeOK
  <2>2. \A m \in Parts : job'[m]["assemble"] \in InLine => job[m]["assemble"] \in InLine
    BY <1>7, <2>1, StagesAre DEF InLine
  <2>3. \A m \in row : m \in deleting => folder[m].marker
    BY <1>1 DEF Doomed
  <2>4. Doomed'
    BY <1>1, <1>2, <1>7, <2>3, TurnsPlanNothing, DoomedStays
  <2>5. (\A q \in Parts \ removed : resolve(q) \in row)'
    BY <1>1, <1>2, <1>7, RowsStay
  <2>6. ASSUME NEW m \in row
        PROVE  Hears(m)'
    BY <1>1, <1>2, <1>4, <1>7, <2>1, <2>2, HearsStays DEF Found
  <2>7. Found'
    BY <1>7, <2>5, <2>6 DEF Found
  <2> QED BY <1>2, <1>5, <2>4, <2>7 DEF FoundInv, Base
<1> QED BY <1>3, <1>6, <1>7

LEMMA FoundStageEndsWell ==
    ASSUME FoundInv, MergesAlone, StageEndsWell
    PROVE  FoundInv'
<1> PICK p : p = doing[TheWorker].first
  OBVIOUS
<1> PICK s : s = doing[TheWorker].stage
  OBVIOUS
<1>1. Base /\ Doomed /\ Found /\ FoundInHand /\ TheWorker \in LibraryThreads
  BY DEF FoundInv, Base, LibraryThreads
<1>2. /\ Base' /\ NoMerge /\ UNCHANGED <<row, job, alias, deleting, removed>>
      /\ \A u \in LibraryThreads \ {TheWorker} : doing'[u] = doing[u]
      /\ doing[TheWorker].at = "stage" /\ p \in Parts /\ s \in Stages
      /\ doing'[TheWorker].at = "complete" /\ doing'[TheWorker].first = p
      /\ doing'[TheWorker].stage = s /\ doing'[TheWorker].todo = doing[TheWorker].todo
  BY <1>1, StageEndsWellDoes, Pieces DEF Memory, Base
<1>3. /\ Input # <<>>
      /\ folder'[p].audio = folder[p].audio /\ folder'[p].marker = folder[p].marker
      /\ s = "transcribe" => folder'[p].segments = Input /\ folder'[p].transcript = folder[p].transcript
      /\ s = "assemble" => folder'[p].transcript = Input /\ folder'[p].segments = folder[p].segments
      /\ \A m \in Parts \ {p} : folder'[m] = folder[m]
  BY <1>1, StageEndsWellDoes
<1>4. row \subseteq Parts
  BY <1>1 DEF Base, LibraryTypeOK
<1>5. doing'[TheWorker].todo = {}
  BY <1>1, <1>2 DEF Doomed
<1>6. \A m : Planned(m)' => Planned(m)
  BY <1>1, <1>2, <1>5, TurnsPlanNothing
<1>7. Doomed'
  <2>1. \A m \in row : m \in deleting => folder[m].marker
    BY <1>1 DEF Doomed
  <2>2. \A m \in row : folder'[m].marker = folder[m].marker
    BY <1>3, <1>4
  <2> QED BY <1>1, <1>2, <1>5, <2>1, <2>2, TurnsPlanNothing, DoomedStays
<1>8. \A m : Lead(m)' \subseteq Lead(m) /\ Held(m)' = Held(m)
  BY <1>2, FewerLead
<1>9. p \in row =>
        /\ job[p][s] \in InLine \/ Held(p) \subseteq removed
        /\ s = "transcribe" => Lead(p) \subseteq ToSet(Input)
        /\ s = "assemble" /\ (folder[p].audio = <<>> \/ Planned(p)) => Lead(p) \subseteq ToSet(Input)
  BY <1>1, <1>2, <1>3 DEF FoundInHand, Input
<1>10. Found'
  <2>1. (\A q \in Parts \ removed : resolve(q) \in row)'
    BY <1>1, <1>2, RowsStay
  <2>2. ASSUME NEW m \in row, m # p
        PROVE  Hears(m)'
    BY <1>1, <1>2, <1>3, <1>4, <1>6, <2>2, HearsStays DEF Found
  <2>3. ASSUME p \in row
        PROVE  Hears(p)'
    <3>1. Hears(p)
      BY <1>1, <2>3 DEF Found
    <3>2. CASE s = "transcribe"
      <4>1. Lead(p)' \subseteq ToSet(folder'[p].segments)
        BY <1>3, <1>8, <1>9, <2>3, <3>2
      <4>2. /\ folder'[p].audio = <<>> => Lead(p)' \subseteq ToSet(folder'[p].transcript)
            /\ folder'[p].audio # <<>> => {p} \union Lead(p)' \subseteq ToSet(folder'[p].audio)
        BY <1>3, <1>8, <3>1, <3>2 DEF Hears
      <4> QED BY <4>1, <4>2 DEF Hears
    <3>3. CASE s = "assemble"
      <4>1. folder'[p].audio = <<>> => Lead(p)' \subseteq ToSet(folder'[p].transcript)
        BY <1>3, <1>8, <1>9, <2>3, <3>3
      <4>2. folder'[p].audio # <<>> => {p} \union Lead(p)' \subseteq ToSet(folder'[p].audio)
        BY <1>3, <1>8, <3>1 DEF Hears
      <4>3. (folder'[p].audio = <<>> \/ Planned(p)') /\ job'[p]["assemble"] \in InLine
              => Lead(p)' \subseteq ToSet(folder'[p].segments)
        BY <1>2, <1>3, <1>6, <1>8, <3>1, <3>3 DEF Hears
      <4> QED BY <4>1, <4>2, <4>3 DEF Hears
    <3> QED BY <1>2, <3>2, <3>3, StagesAre
  <2> QED BY <1>2, <2>1, <2>2, <2>3 DEF Found
<1>11. FoundInHand'
  <2>1. p \in row => job'[p][s] \in InLine \/ Held(p)' \subseteq removed'
    BY <1>2, <1>8, <1>9
  <2>2. p \in row /\ s = "transcribe" => Lead(p)' \subseteq ToSet(folder'[p].segments)
    BY <1>3, <1>8, <1>9
  <2> QED BY <1>2, <2>1, <2>2 DEF FoundInHand
<1>12. FoundAtMerge'
  BY <1>2, NoneAtMerge DEF NoMerge, MergeAt
<1> QED BY <1>2, <1>7, <1>10, <1>11, <1>12 DEF FoundInv, Base

\* Only jobs change, and only so that no more is to be assembled than was.
LEMMA JobsChange ==
    ASSUME FoundInv, Base', NoMerge, NEW t \in LibraryThreads,
           UNCHANGED <<row, folder, alias, deleting, removed>>,
           \A u \in LibraryThreads \ {t} : doing'[u] = doing[u], doing'[t].todo = {},
           \A m \in row : job'[m]["assemble"] \in InLine =>
              job[m]["assemble"] \in InLine \/ Lead(m) \subseteq ToSet(folder[m].segments),
           doing'[t].at \notin MergeAt
    PROVE  Doomed' /\ Found' /\ FoundAtMerge'
<1>1. Base /\ Doomed /\ Found
  BY DEF FoundInv, Base
<1>2. \A m : Planned(m)' => Planned(m)
  BY <1>1, TurnsPlanNothing
<1>3. Doomed'
  <2>1. \A m \in row : m \in deleting => folder[m].marker
    BY <1>1 DEF Doomed
  <2> QED BY <1>1, <2>1, TurnsPlanNothing, DoomedStays
<1>4. Found'
  <2>1. (\A q \in Parts \ removed : resolve(q) \in row)'
    BY <1>1, RowsStay
  <2>2. ASSUME NEW m \in row
        PROVE  Hears(m)'
    <3>1. CASE job'[m]["assemble"] \in InLine => job[m]["assemble"] \in InLine
      BY <1>1, <1>2, <3>1, HearsStays DEF Found
    <3>2. CASE Lead(m) \subseteq ToSet(folder[m].segments)
      BY <1>1, <3>2, FewerLead DEF Found, Hears
    <3> QED BY <3>1, <3>2
  <2> QED BY <2>1, <2>2 DEF Found
<1>5. FoundAtMerge'
  BY NoneAtMerge DEF NoMerge
<1> QED BY <1>3, <1>4, <1>5

LEMMA FoundCompletes ==
    ASSUME FoundInv, MergesAlone, Completes
    PROVE  FoundInv'
<1> PICK p : p = doing[TheWorker].first
  OBVIOUS
<1> PICK s : s = doing[TheWorker].stage
  OBVIOUS
<1>1. Base /\ Doomed /\ Found /\ FoundInHand /\ TheWorker \in LibraryThreads
  BY DEF FoundInv, Base, LibraryThreads
<1>2. /\ Base' /\ NoMerge /\ UNCHANGED <<row, folder, alias, deleting, removed>>
      /\ \A u \in LibraryThreads \ {TheWorker} : doing'[u] = doing[u]
      /\ doing[TheWorker].at = "complete" /\ p \in Parts /\ s \in Stages
      /\ \/ p \notin row /\ job' = job /\ doing'[TheWorker] = Idle
         \/ /\ job' = [job EXCEPT ![p][s] = "done"]
            /\ doing'[TheWorker].at = "next" /\ doing'[TheWorker].first = p
            /\ doing'[TheWorker].stage = s
            /\ doing'[TheWorker].todo = doing[TheWorker].todo
  BY <1>1, CompletesDoes, Pieces DEF Memory, Base
<1>3. doing'[TheWorker].todo = {} /\ doing'[TheWorker].at \notin MergeAt
  BY <1>1, <1>2, IdleIsDoing DEF Doomed, MergeAt
<1>4. \A m \in row : job'[m]["assemble"] \in InLine => job[m]["assemble"] \in InLine
  <2>1. job \in [Parts -> [Stages -> JobStates]] /\ row \subseteq Parts
    BY <1>1 DEF Base, LibraryTypeOK
  <2> QED BY <1>2, <2>1, StagesAre DEF InLine
<1>5. Doomed' /\ Found' /\ FoundAtMerge'
  BY <1>1, <1>2, <1>3, <1>4, JobsChange
<1>6. FoundInHand'
  <2>1. p \in row /\ s = "transcribe" => Lead(p)' \subseteq ToSet(folder'[p].segments)
    BY <1>1, <1>2, FewerLead DEF FoundInHand
  <2> QED BY <1>2, <2>1, IdleIsDoing DEF FoundInHand
<1> QED BY <1>2, <1>5, <1>6 DEF FoundInv, Base

LEMMA FoundEnqueuesNext ==
    ASSUME FoundInv, MergesAlone, EnqueuesNext
    PROVE  FoundInv'
<1> PICK p : p = doing[TheWorker].first
  OBVIOUS
<1> PICK s : s = doing[TheWorker].stage
  OBVIOUS
<1>1. Base /\ Doomed /\ Found /\ FoundInHand /\ TheWorker \in LibraryThreads
  BY DEF FoundInv, Base, LibraryThreads
<1>2. /\ Base' /\ NoMerge /\ UNCHANGED <<row, folder, alias, deleting, removed>>
      /\ \A u \in LibraryThreads \ {TheWorker} : doing'[u] = doing[u]
      /\ doing[TheWorker].at = "next" /\ p \in Parts
      /\ \/ p \notin row /\ job' = job /\ doing'[TheWorker] = Idle
         \/ /\ IF s = "transcribe" /\ job[p]["assemble"] # "running"
               THEN job' = [job EXCEPT ![p]["assemble"] = "pending"] ELSE job' = job
            /\ doing'[TheWorker].at = "pending" /\ doing'[TheWorker].todo = doing[TheWorker].todo
  BY <1>1, EnqueuesNextDoes DEF Memory
<1>3. doing'[TheWorker].todo = {} /\ doing'[TheWorker].at \in {"rest", "pending"}
  BY <1>1, <1>2, IdleIsDoing DEF Doomed
<1>4. p \in row /\ s = "transcribe" => Lead(p) \subseteq ToSet(folder[p].segments)
  BY <1>1, <1>2 DEF FoundInHand
<1>5. ASSUME NEW m \in row, job'[m]["assemble"] \in InLine
      PROVE  job[m]["assemble"] \in InLine \/ Lead(m) \subseteq ToSet(folder[m].segments)
  <2>1. job \in [Parts -> [Stages -> JobStates]] /\ row \subseteq Parts
    BY <1>1 DEF Base, LibraryTypeOK
  <2>2. job' = job \/ (s = "transcribe" /\ job' = [job EXCEPT ![p]["assemble"] = "pending"])
    BY <1>2
  <2>3. CASE m = p
    BY <1>2, <1>4, <1>5, <2>2, <2>3
  <2>4. CASE m # p
    <3>1. job'[m] = job[m]
      BY <2>1, <2>2, <2>4
    <3> QED BY <1>5, <3>1
  <2> QED BY <2>3, <2>4
<1>6. Doomed' /\ Found' /\ FoundAtMerge'
  <2>1. doing'[TheWorker].at \notin MergeAt
    BY <1>3 DEF MergeAt
  <2> QED BY <1>1, <1>2, <1>3, <1>5, <2>1, JobsChange
<1> QED BY <1>2, <1>3, <1>6, NowhereHeld DEF FoundInv, Base

LEMMA FoundRetryPressed ==
    ASSUME FoundInv, MergesAlone, NEW t \in Pressers, RetryPressed(t)
    PROVE  FoundInv'
<1>1. Base /\ Doomed /\ Found /\ FoundInHand /\ TheWorker \in LibraryThreads /\ t \in LibraryThreads
  BY DEF FoundInv, Base, LibraryThreads
<1>2. Base' /\ NoMerge /\ UNCHANGED <<row, folder, alias, deleting, doing, removed, flaws>>
  BY <1>1, RetryPressedDoes
<1>3. PICK p \in row : job' = [job EXCEPT ![p]["transcribe"] = "pending"]
  BY <1>1, RetryPressedDoes
<1>4. job \in [Parts -> [Stages -> JobStates]] /\ row \subseteq Parts
  BY <1>1 DEF Base, LibraryTypeOK
<1>5. /\ \A m \in row : job'[m]["assemble"] = job[m]["assemble"]
      /\ \A m \in row, s \in Stages : job[m][s] \in InLine => job'[m][s] \in InLine
  BY <1>3, <1>4, StagesAre DEF InLine
<1>6. doing[t].todo = {} /\ doing[t].at \notin MergeAt
  BY <1>1, <1>2 DEF Doomed, NoMerge, RetryPressed, Free
<1>7. Doomed' /\ Found' /\ FoundAtMerge'
  BY <1>1, <1>2, <1>5, <1>6, JobsChange
<1>8. FoundInHand'
  <2>1. \A m : Lead(m)' = Lead(m) /\ Held(m)' = Held(m) /\ Planned(m)' = Planned(m)
    BY <1>2 DEF Lead, Held, Planned, resolve
  <2>2. doing[TheWorker].stage \in Stages
    BY <1>1, Pieces DEF Base
  <2>3. PICK d : d = doing[TheWorker] /\ d = doing'[TheWorker]
    BY <1>2
  <2> QED BY <1>1, <1>2, <1>5, <2>1, <2>2, <2>3 DEF FoundInHand
<1> QED BY <1>2, <1>7, <1>8 DEF FoundInv, Base

LEMMA FoundDeletePressed ==
    ASSUME FoundInv, MergesAlone, NEW t \in Pressers, DeletePressed(t)
    PROVE  FoundInv'
<1>1. Base /\ Doomed /\ Found /\ FoundInHand /\ TheWorker \in LibraryThreads
  BY DEF FoundInv, Base, LibraryThreads
<1>2. Base' /\ NoMerge /\ UNCHANGED <<alias, doing, flaws>>
  BY <1>1, DeletePressedDoes
<1>3. PICK m \in row :
         /\ removed' = removed \union Held(m)
         /\ \/ /\ Busy(m) /\ deleting' = deleting \union {m} /\ row' = row
               /\ folder' = [folder EXCEPT ![m].marker = TRUE]
               /\ job' = [job EXCEPT ![m] = OnlyRunning(m)]
            \/ deleting' = deleting /\ purge(m)
            \/ deleting' = deleting /\ job' = [job EXCEPT ![m] = NoJobs] /\ UNCHANGED <<row, folder>>
  BY <1>1, DeletePressedDoes
<1>4. /\ folder \in [Parts -> Folder] /\ job \in [Parts -> [Stages -> JobStates]] /\ row \subseteq Parts
  BY <1>1 DEF Base, LibraryTypeOK
<1>5. Held(m) \subseteq removed' /\ removed \subseteq removed'
  BY <1>3
<1>6. /\ row' \subseteq row /\ row \ row' \subseteq {m}
      /\ \A p \in row' : /\ folder'[p].audio = folder[p].audio /\ folder'[p].segments = folder[p].segments
                         /\ folder'[p].transcript = folder[p].transcript
                         /\ folder'[p].marker => folder[p].marker \/ p = m
                         /\ folder[p].marker => folder'[p].marker
                         /\ p = m \/ job'[p] = job[p]
                         /\ p \in deleting' => p \in deleting \/ folder'[p].marker
  <2>1. CASE purge(m) /\ deleting' = deleting
    BY <1>1, <1>4, <2>1, PurgeLeaves
  <2>2. CASE /\ deleting' = deleting \union {m} /\ row' = row
             /\ folder' = [folder EXCEPT ![m].marker = TRUE]
             /\ job' = [job EXCEPT ![m] = OnlyRunning(m)]
    <3>1. folder'[m] = [folder[m] EXCEPT !.marker = TRUE] /\ folder[m] \in Folder
      BY <1>4, <2>2
    <3>2. /\ folder'[m].audio = folder[m].audio /\ folder'[m].segments = folder[m].segments
          /\ folder'[m].transcript = folder[m].transcript /\ folder'[m].marker
      BY <3>1 DEF Folder
    <3>3. \A p \in Parts \ {m} : folder'[p] = folder[p] /\ job'[p] = job[p]
      BY <1>4, <2>2
    <3> QED BY <1>4, <2>2, <3>2, <3>3
  <2>3. CASE deleting' = deleting /\ job' = [job EXCEPT ![m] = NoJobs] /\ UNCHANGED <<row, folder>>
    BY <1>4, <2>3
  <2> QED BY <1>3, <2>1, <2>2, <2>3
<1>7. Lead(m)' = {} /\ \A p : Lead(p)' \subseteq Lead(p)
  BY <1>2, <1>5, FewerLead
<1>8. \A p : Planned(p)' => Planned(p)
  BY <1>2 DEF Planned
<1>9. Doomed'
  <2>1. \A p \in row' : folder'[p].marker => folder[p].marker \/ Held(p) \subseteq removed'
    BY <1>5, <1>6
  <2>2. \A p \in row' : p \in deleting' => folder'[p].marker
    BY <1>1, <1>6 DEF Doomed
  <2>3. \A u \in LibraryThreads : doing'[u].todo \subseteq doing[u].todo /\ (doing'[u].at # "sweep" => doing'[u].todo = {})
    BY <1>1, <1>2 DEF Doomed
  <2> QED BY <1>1, <1>2, <1>5, <1>6, <2>1, <2>2, <2>3, DoomedStays
<1>10. Found'
  <2>1. (\A q \in Parts \ removed : resolve(q) \in row)'
    BY <1>1, <1>2, <1>5, <1>6, RowsStay
  <2>2. ASSUME NEW p \in row', p # m
        PROVE  Hears(p)'
    BY <1>1, <1>2, <1>5, <1>6, <1>8, <2>2, HearsStays DEF Found
  <2>3. ASSUME m \in row'
        PROVE  Hears(m)'
    <3>1. Hears(m)
      BY <1>1 DEF Found
    <3>2. folder'[m].audio # <<>> => {m} \union Lead(m)' \subseteq ToSet(folder'[m].audio)
      BY <1>6, <1>7, <2>3, <3>1 DEF Hears
    <3> QED BY <1>7, <3>2 DEF Hears
  <2> QED BY <2>1, <2>2, <2>3 DEF Found
<1>11. FoundInHand'
  <2> PICK n : n = doing[TheWorker].first
    OBVIOUS
  <2>1. n \in row' => /\ folder'[n].segments = folder[n].segments
                      /\ job'[n] = job[n] \/ Held(n) \subseteq removed'
                      /\ folder'[n].audio = <<>> \/ Planned(n)' => folder[n].audio = <<>> \/ Planned(n)
    BY <1>5, <1>6, <1>8
  <2> QED BY <1>1, <1>2, <1>5, <1>6, <2>1, InHandStays
<1>12. FoundAtMerge'
  BY <1>2, NoneAtMerge DEF NoMerge
<1> QED BY <1>2, <1>9, <1>10, <1>11, <1>12 DEF FoundInv, Base

LEMMA FoundSweepBegins ==
    ASSUME FoundInv, MergesAlone, NEW t \in LibraryThreads, SweepBegins(t)
    PROVE  FoundInv'
<1>1. Base /\ Doomed /\ Found /\ FoundInHand /\ TheWorker \in LibraryThreads
  BY DEF FoundInv, Base, LibraryThreads
<1>2. /\ Base' /\ NoMerge /\ UNCHANGED <<row, folder, job, alias, deleting, flaws>>
      /\ \A u \in LibraryThreads \ {t} : doing'[u] = doing[u]
      /\ doing[t].at = "rest" /\ doing'[t].at = "sweep"
  BY <1>1, SweepBeginsDoes
<1>3. \/ doing'[t].todo = {p \in row : Strips(p)} \X {"strip"} /\ removed' = removed
      \/ /\ doing'[t].todo = {p \in row : ~Queued(p)} \X {"purge"}
         /\ removed' = removed \union UNION {Held(p) : p \in {q \in row : ~Queued(q)}}
  BY <1>1, SweepBeginsDoes
<1>4. removed \subseteq removed'
  BY <1>3
<1>5. \A p \in row : /\ <<p, "purge">> \in doing'[t].todo => Held(p) \subseteq removed'
                     /\ <<p, "strip">> \in doing'[t].todo => ~Queued(p)
  BY <1>3 DEF Strips
<1>6. ASSUME NEW p \in row, Planned(p)', ~Planned(p)
      PROVE  ~Queued(p)
  BY <1>2, <1>5, <1>6 DEF Planned
<1>7. Doomed'
  <2>1. \A p \in row : p \in deleting => folder[p].marker
    BY <1>1 DEF Doomed
  <2>2. \A u \in LibraryThreads :
              /\ doing'[u].at # "sweep" => doing'[u].todo = {}
              /\ \/ doing'[u].todo \subseteq doing[u].todo
                 \/ \A m \in row' : <<m, "purge">> \in doing'[u].todo => Held(m) \subseteq removed'
    BY <1>1, <1>2, <1>5 DEF Doomed
  <2> QED BY <1>1, <1>2, <1>4, <2>1, <2>2, DoomedStays
<1>8. Found'
  <2>1. (\A q \in Parts \ removed : resolve(q) \in row)'
    BY <1>1, <1>2, <1>4, RowsStay
  <2>2. ASSUME NEW m \in row
        PROVE  Hears(m)'
    <3>1. job'[m]["assemble"] \in InLine => Queued(m)
      BY <1>2, StagesAre DEF InLine, Queued
    <3> QED BY <1>1, <1>2, <1>4, <1>6, <3>1, HearsStays DEF Found
  <2> QED BY <1>2, <2>1, <2>2 DEF Found
<1>9. FoundInHand'
  <2>1. CASE t = TheWorker
    BY <1>2, <2>1, NowhereHeld
  <2>2. CASE t # TheWorker
    <3> PICK n : n = doing[TheWorker].first
      OBVIOUS
    <3>1. doing[TheWorker].at = "stage" /\ n \in row /\ Planned(n)' => Planned(n) \/ Held(n) \subseteq removed'
      <4>1. doing[TheWorker].at = "stage" /\ n \in row =>
               job[n][doing[TheWorker].stage] \in InLine \/ Held(n) \subseteq removed
        BY <1>1 DEF FoundInHand
      <4>2. doing[TheWorker].stage \in Stages
        BY <1>1, Pieces DEF Base
      <4>3. job[n][doing[TheWorker].stage] \in InLine => Queued(n)
        BY <4>2 DEF Queued, InLine
      <4> QED BY <1>4, <1>6, <4>1, <4>3
    <3>2. doing'[TheWorker] = doing[TheWorker]
      BY <1>1, <1>2, <2>2
    <3> QED BY <1>1, <1>2, <1>4, <3>1, <3>2, InHandStays
  <2> QED BY <2>1, <2>2
<1>10. FoundAtMerge'
  BY <1>2, NoneAtMerge DEF NoMerge, MergeAt
<1> QED BY <1>2, <1>7, <1>8, <1>9, <1>10 DEF FoundInv, Base

LEMMA FoundSweeps ==
    ASSUME FoundInv, MergesAlone, "unheard" \notin flaws', NEW t \in LibraryThreads, Sweeps(t)
    PROVE  FoundInv'
<1>1. Base /\ Doomed /\ Found /\ FoundInHand /\ TheWorker \in LibraryThreads
  BY DEF FoundInv, Base, LibraryThreads
<1>2. /\ Base' /\ NoMerge /\ UNCHANGED <<alias, deleting, removed>>
      /\ \A u \in LibraryThreads \ {t} : doing'[u] = doing[u]
      /\ doing[t].at = "sweep" /\ doing'[t].at \in {"rest", "sweep"}
      /\ doing'[t].todo \subseteq doing[t].todo /\ (doing'[t].at # "sweep" => doing'[t].todo = {})
  BY <1>1, SweepsDoes, IdleIsDoing
<1>3. \/ UNCHANGED <<row, folder, job>>
      \/ \E p \in row : <<p, "purge">> \in doing[t].todo /\ purge(p)
      \/ \E p \in row : /\ <<p, "strip">> \in doing[t].todo
                        /\ folder' = [folder EXCEPT ![p].audio = <<>>]
                        /\ UNCHANGED <<row, job>> /\ ~GoesUnheard(p)
  BY <1>1, SweepsDoes
<1>4. /\ folder \in [Parts -> Folder] /\ row \subseteq Parts
  BY <1>1 DEF Base, LibraryTypeOK
<1>5. \A m : Planned(m)' => Planned(m)
  BY <1>2 DEF Planned
<1>6. \A u \in LibraryThreads : doing'[u].todo \subseteq doing[u].todo /\ (doing'[u].at # "sweep" => doing'[u].todo = {})
  BY <1>1, <1>2 DEF Doomed
<1>7. FoundAtMerge'
  BY <1>2, NoneAtMerge DEF NoMerge, MergeAt
<1>8. ASSUME row' \subseteq row, \A m \in row' : folder'[m].marker = folder[m].marker
      PROVE  Doomed'
  <2>1. \A m \in row' : m \in deleting' => folder'[m].marker
    BY <1>1, <1>2, <1>8 DEF Doomed
  <2> QED BY <1>1, <1>2, <1>6, <1>8, <2>1, DoomedStays
<1>9. ASSUME row' \subseteq row,
             \A m \in row' : /\ folder'[m].segments = folder[m].segments /\ job'[m] = job[m]
                             /\ folder'[m].audio = folder[m].audio \/ Planned(m)
      PROVE  FoundInHand'
  <2>1. CASE t = TheWorker
    BY <1>2, <2>1, NowhereHeld
  <2>2. CASE t # TheWorker
    <3> PICK n : n = doing[TheWorker].first
      OBVIOUS
    <3>1. n \in row' => /\ folder'[n].segments = folder[n].segments /\ job'[n] = job[n]
                        /\ folder'[n].audio = <<>> \/ Planned(n)' => folder[n].audio = <<>> \/ Planned(n)
      BY <1>5, <1>9
    <3>2. doing'[TheWorker] = doing[TheWorker]
      BY <1>1, <1>2, <2>2
    <3> QED BY <1>1, <1>2, <1>9, <3>1, <3>2, InHandStays
  <2> QED BY <2>1, <2>2
<1>10. CASE UNCHANGED <<row, folder, job>>
  <2>1. (\A q \in Parts \ removed : resolve(q) \in row)'
    BY <1>1, <1>2, <1>10, RowsStay
  <2>2. ASSUME NEW m \in row
        PROVE  Hears(m)'
    BY <1>1, <1>2, <1>5, <1>10, HearsStays DEF Found
  <2>3. Found'
    BY <1>10, <2>1, <2>2 DEF Found
  <2> QED BY <1>2, <1>7, <1>8, <1>9, <1>10, <2>3 DEF FoundInv, Base
<1>11. CASE \E p \in row : <<p, "purge">> \in doing[t].todo /\ purge(p)
  <2>1. PICK p \in row : <<p, "purge">> \in doing[t].todo /\ purge(p)
    BY <1>11
  <2>2. p \in Parts /\ Held(p) \subseteq removed
    BY <1>1, <1>4, <2>1 DEF Doomed
  <2>3. Found'
    BY <1>1, <1>2, <1>5, <2>1, <2>2, PurgeFinds
  <2>4. row' \subseteq row /\ \A m \in row' : folder'[m] = folder[m] /\ job'[m] = job[m]
    BY <1>1, <2>1, <2>2, PurgeLeaves
  <2> QED BY <1>2, <1>7, <1>8, <1>9, <2>3, <2>4 DEF FoundInv, Base
<1>12. CASE \E p \in row : /\ <<p, "strip">> \in doing[t].todo
                           /\ folder' = [folder EXCEPT ![p].audio = <<>>]
                           /\ UNCHANGED <<row, job>> /\ ~GoesUnheard(p)
  <2>1. PICK p \in row : /\ <<p, "strip">> \in doing[t].todo
                         /\ folder' = [folder EXCEPT ![p].audio = <<>>]
                         /\ UNCHANGED <<row, job>> /\ ~GoesUnheard(p)
    BY <1>12
  <2>2. /\ folder'[p].audio = <<>> /\ folder'[p].segments = folder[p].segments
        /\ folder'[p].transcript = folder[p].transcript /\ folder'[p].marker = folder[p].marker
        /\ \A m \in Parts \ {p} : folder'[m] = folder[m]
    <3>1. folder[p] \in Folder /\ folder'[p] = [folder[p] EXCEPT !.audio = <<>>]
      BY <1>4, <2>1
    <3>2. \A m \in Parts \ {p} : folder'[m] = folder[m]
      BY <1>4, <2>1
    <3> QED BY <3>1, <3>2 DEF Folder
  <2>3. Planned(p)
    BY <2>1 DEF Planned
  <2>4. Lead(p)' \subseteq Lead(p)
    BY <1>2, FewerLead
  <2>5. Hears(p)'
    <3>1. Hears(p)
      BY <1>1 DEF Found
    <3>2. \/ folder[p].audio = <<>> \/ folder[p].transcript = folder[p].audio
          \/ Held(p) \subseteq removed
      BY <2>1 DEF GoesUnheard
    <3>3. Lead(p)' \subseteq ToSet(folder'[p].transcript)
      <4>1. CASE Held(p) \subseteq removed
        BY <1>4, <2>4, <4>1, LeadIsHeld
      <4>2. CASE folder[p].audio = <<>> \/ folder[p].transcript = folder[p].audio
        BY <2>2, <2>4, <3>1, <4>2 DEF Hears
      <4> QED BY <3>2, <4>1, <4>2
    <3>4. job'[p]["assemble"] \in InLine => Lead(p)' \subseteq ToSet(folder'[p].segments)
      BY <2>1, <2>2, <2>3, <2>4, <3>1 DEF Hears
    <3> QED BY <2>2, <3>3, <3>4 DEF Hears
  <2>6. ASSUME NEW m \in row, m # p
        PROVE  Hears(m)'
    BY <1>1, <1>2, <1>4, <1>5, <2>1, <2>2, <2>6, HearsStays DEF Found
  <2>7. (\A q \in Parts \ removed : resolve(q) \in row)'
    BY <1>1, <1>2, <2>1, RowsStay
  <2>8. Found'
    BY <2>1, <2>5, <2>6, <2>7 DEF Found
  <2>9. \A m \in row : /\ folder'[m].segments = folder[m].segments /\ job'[m] = job[m]
                       /\ folder'[m].audio = folder[m].audio \/ Planned(m)
                       /\ folder'[m].marker = folder[m].marker
    BY <1>4, <2>1, <2>2, <2>3
  <2> QED BY <1>2, <1>7, <1>8, <1>9, <2>1, <2>8, <2>9 DEF FoundInv, Base
<1> QED BY <1>3, <1>10, <1>11, <1>12

LEMMA FoundDies ==
    ASSUME FoundInv, Dies
    PROVE  FoundInv'
<1>1. Base /\ Doomed /\ Found /\ FoundInHand /\ TheWorker \in LibraryThreads
  BY DEF FoundInv, Base, LibraryThreads
<1>2. /\ Base' /\ UNCHANGED <<alias, removed>> /\ deleting' = {}
      /\ \A t \in LibraryThreads : doing'[t].at = "rest" /\ doing'[t].todo = {}
      /\ row' = row \ {p \in Parts : folder[p].marker}
      /\ \A p \in row' : /\ ~folder[p].marker /\ folder'[p] = folder[p]
                         /\ job'[p] = Resumed(p)
  BY <1>1, DiesDoes, IdleIsDoing
<1>3. row \subseteq Parts /\ job \in [Parts -> [Stages -> JobStates]]
  BY <1>1 DEF Base, LibraryTypeOK
<1>4. \A p \in row' : job'[p]["assemble"] \in InLine => job[p]["assemble"] \in InLine
  <2> SUFFICES ASSUME NEW p \in row', job'[p]["assemble"] \in InLine
               PROVE  job[p]["assemble"] \in InLine
    OBVIOUS
  <2>1. p \in Parts /\ job'[p] = Resumed(p)
    BY <1>2, <1>3
  <2>2. Resumed(p) = [s \in Stages |-> IF job[p][s] = "running" THEN "pending" ELSE job[p][s]]
    BY <1>3, <2>1 DEF Resumed, Moved
  <2>3. Resumed(p)["assemble"] = IF job[p]["assemble"] = "running" THEN "pending" ELSE job[p]["assemble"]
    BY <2>2, StagesAre
  <2> QED BY <2>1, <2>3 DEF InLine
<1>5. \A m : ~Planned(m)'
  BY <1>2 DEF Planned
<1>6. \A m \in row \ row' : Held(m) \subseteq removed'
  BY <1>1, <1>2 DEF Doomed
<1>7. Doomed'
  BY <1>1, <1>2, DoomedStays
<1>8. Found'
  <2>1. (\A q \in Parts \ removed : resolve(q) \in row)'
    BY <1>1, <1>2, <1>6, RowsStay
  <2>2. ASSUME NEW m \in row'
        PROVE  Hears(m)'
    BY <1>1, <1>2, <1>4, <1>5, HearsStays DEF Found
  <2> QED BY <2>1, <2>2 DEF Found
<1>9. FoundInHand' /\ FoundAtMerge'
  BY <1>1, <1>2, NowhereHeld, NoneAtMerge DEF MergeAt
<1> QED BY <1>2, <1>7, <1>8, <1>9 DEF FoundInv, Base

LEMMA JoinedHolds ==
    ASSUME NEW x \in Seq(Parts), NEW y \in Seq(Parts)
    PROVE  ToSet(x) \subseteq ToSet(x \o y) /\ ToSet(y) \subseteq ToSet(x \o y)
<1>1. ASSUME NEW i \in DOMAIN x
      PROVE  x[i] \in ToSet(x \o y)
  <2>1. i \in DOMAIN (x \o y) /\ (x \o y)[i] = x[i]
    OBVIOUS
  <2> QED BY <2>1 DEF ToSet
<1>2. ASSUME NEW i \in DOMAIN y
      PROVE  y[i] \in ToSet(x \o y)
  <2>1. Len(x) + i \in DOMAIN (x \o y) /\ (x \o y)[Len(x) + i] = y[i]
    OBVIOUS
  <2> QED BY <2>1 DEF ToSet
<1> QED BY <1>1, <1>2 DEF ToSet

\* A merge of two that are kept loses nothing of either.
LEMMA FoundMerge ==
    ASSUME FoundInv, MergesAlone, MergesIntoKept, NEW t \in LibraryThreads, MergeStep(t)
    PROVE  FoundInv'
<1>0. PICK a, b : a = doing[t].first /\ b = doing[t].second
  OBVIOUS
<1> USE <1>0
<1>1. Base /\ Doomed /\ Found /\ FoundInHand /\ FoundAtMerge /\ TheWorker \in LibraryThreads
  BY DEF FoundInv, Base, LibraryThreads
<1>2. /\ Base' /\ doing[t].at \in MergeAt
      /\ \A u \in LibraryThreads \ {t} : doing'[u] = doing[u]
      /\ \/ doing'[t] = Idle
         \/ /\ row' = row /\ doing'[t].at \in MergeAt
            /\ doing'[t].first = a /\ doing'[t].second = b
  BY <1>1, BaseMerge
<1>3. /\ a \in row /\ b \in row /\ a # b /\ a \in Parts /\ b \in Parts /\ b # None
      /\ \A u \in LibraryThreads \ {t} : doing[u] = Idle /\ doing[u].at = "rest" /\ doing'[u].at = "rest"
                                         /\ doing[u].todo = {} /\ doing'[u].todo = {}
  BY <1>1, <1>2, NothingBesideMerge, IdleIsDoing DEF Base
<1>4. /\ \A p \in Parts : folder[p].audio \in Seq(Parts) /\ folder[p].segments \in Seq(Parts)
      /\ row \subseteq Parts /\ folder \in [Parts -> Folder] /\ doing[t] \in Doing
      /\ job \in [Parts -> [Stages -> JobStates]] /\ doing \in [LibraryThreads -> Doing]
  BY <1>1, Pieces DEF Base, LibraryTypeOK
<1>5. doing[t].todo = {}
  BY <1>1, <1>2 DEF Doomed, MergeAt
<1>6. ~folder[a].marker /\ a \notin deleting
  BY <1>1, <1>3 DEF MergesIntoKept, Doomed
<1>7. folder[a].audio # <<>> /\ folder[b].audio # <<>> /\ {a} \union Lead(a) \subseteq ToSet(folder[a].audio)
      /\ {b} \union Lead(b) \subseteq ToSet(folder[b].audio)
  BY <1>1, <1>2, <1>3 DEF FoundAtMerge, Found, Hears
<1>8. FoundInHand'
  <2>1. doing'[t].at \in MergeAt \union {"rest"}
    BY <1>2, IdleIsDoing
  <2>2. doing'[TheWorker].at \notin {"stage", "complete", "next"}
    BY <1>1, <1>3, <2>1 DEF MergeAt
  <2> QED BY <2>2, NowhereHeld
<1>9. ASSUME doing'[t] = Idle
      PROVE  FoundAtMerge' /\ doing'[t].todo = {}
  <2>1. \A u \in LibraryThreads : doing'[u].at \notin MergeAt
    BY <1>3, <1>9, IdleIsDoing DEF MergeAt
  <2> QED BY <1>9, <2>1, NoneAtMerge, IdleIsDoing
<1>10. ASSUME NEW at \in MergeAt, To(t, at)
       PROVE  /\ doing'[t].at = at /\ doing'[t].before = doing[t].before
              /\ doing'[t].first = a /\ doing'[t].second = b /\ doing'[t].todo = {}
  BY <1>4, <1>5, <1>10, ToOwn DEF Ats, MergeAt
<1>11. ASSUME doing'[t].todo = {}, UNCHANGED <<alias, removed, deleting>>, row' \subseteq row,
              \A m \in row' \ {a} : folder'[m] = folder[m], a \in row', ~folder'[a].marker
       PROVE  Doomed'
  <2>1. \A u \in LibraryThreads : doing'[u].todo = {}
    BY <1>3, <1>11
  <2>2. \A m \in row' : /\ folder'[m].marker => folder[m].marker
                        /\ m \in deleting' => folder'[m].marker
    BY <1>1, <1>6, <1>11 DEF Doomed
  <2> QED BY <1>1, <1>11, <2>1, <2>2, DoomedStays
<1>12. ASSUME doing'[t].todo = {}, UNCHANGED <<alias, removed>>, row' \subseteq row, a \in row',
              \A p \in Parts \ removed : resolve(p) \in row',
              \A m \in row' \ {a} : folder'[m] = folder[m],
              folder'[a].audio # <<>>, {a} \union Lead(a) \subseteq ToSet(folder'[a].audio),
              \A m \in Parts \ {a, b} : job'[m] = job[m]
       PROVE  Found'
  <2>1. \A m : ~Planned(m)'
    BY <1>3, <1>12 DEF Planned
  <2>2. \A m : Lead(m)' = Lead(m)
    BY <1>12 DEF Lead, resolve
  <2>3. ASSUME NEW m \in row'
        PROVE  Hears(m)'
    <3>1. CASE m = a
      BY <1>12, <2>1, <2>2, <3>1 DEF Hears
    <3>2. CASE m = b
      BY <1>3, <1>7, <1>12, <2>1, <2>2, <3>2 DEF Hears
    <3>3. CASE m \notin {a, b}
      <4>1. Hears(m) /\ folder'[m] = folder[m] /\ job'[m] = job[m]
        BY <1>1, <1>4, <1>12, <3>3 DEF Found
      <4> QED BY <1>12, <2>1, <4>1, HearsStays
    <3> QED BY <3>1, <3>2, <3>3
  <2>4. (\A p \in Parts \ removed : resolve(p) \in row)'
    BY <1>12 DEF resolve
  <2> QED BY <2>3, <2>4 DEF Found
<1>13. \A p \in Parts \ removed : resolve(p) \in row
  BY <1>1 DEF Found
<1>14. ASSUME NEW m \in Parts, \/ job' = restore(job, a) \/ job' = withdraw(job, b)
                               \/ job' = restore(restore(job, a), b),
              m \notin {a, b}
       PROVE  job'[m] = job[m]
  BY <1>4, <1>14 DEF restore, withdraw, Moved
<1>21. CASE WithdrawsSecond(t)
  <2>1. /\ UNCHANGED <<row, folder, alias, deleting, removed>>
        /\ \/ /\ job' = restore(job, a) /\ Is(t, Idle)
           \/ /\ job' = withdraw(job, b)
              /\ Is(t, [doing[t] EXCEPT !.at = "append", !.before = folder[a],
                                        !.both = transcribed(a) /\ transcribed(b)])
    BY <1>21 DEF WithdrawsSecond, Refuses
  <2>2. CASE Is(t, Idle)
    <3>1. doing'[t] = Idle
      BY <1>4, <2>2, IsOwn, IdleIsDoing
    <3>2. FoundAtMerge' /\ doing'[t].todo = {}
      BY <1>9, <3>1
    <3>3. \A m \in Parts \ {a, b} : job'[m] = job[m]
      BY <1>14, <2>1
    <3> QED BY <1>2, <1>3, <1>6, <1>7, <1>8, <1>11, <1>12, <1>13, <2>1, <3>2, <3>3 DEF FoundInv, Base
  <2>3. CASE Is(t, [doing[t] EXCEPT !.at = "append", !.before = folder[a],
                                    !.both = transcribed(a) /\ transcribed(b)])
    <3>1. /\ doing'[t].at = "append" /\ doing'[t].before = folder[a] /\ doing'[t].todo = {}
          /\ doing'[t].first = a /\ doing'[t].second = b
      BY <1>4, <1>5, <2>3 DEF Is, Doing
    <3>2. FoundAtMerge'
      BY <1>3, <1>7, <2>1, <3>1 DEF FoundAtMerge, MergeAt, Led
    <3>3. \A m \in Parts \ {a, b} : job'[m] = job[m]
      BY <1>14, <2>1
    <3> QED BY <1>2, <1>3, <1>6, <1>7, <1>8, <1>11, <1>12, <1>13, <2>1, <3>1, <3>2, <3>3 DEF FoundInv, Base
  <2> QED BY <2>1, <2>2, <2>3
<1>22. CASE Appends(t)
  <2>1. /\ doing[t].at = "append" /\ UNCHANGED <<row, job, alias, deleting, removed>>
        /\ folder' = [folder EXCEPT ![a].audio = @ \o folder[b].audio]
        /\ To(t, "undo") \/ To(t, "join")
    BY <1>22 DEF Appends
  <2>2. /\ doing'[t].at \in {"undo", "join"} /\ doing'[t].before = doing[t].before
        /\ doing'[t].first = a /\ doing'[t].second = b /\ doing'[t].todo = {}
    BY <1>10, <2>1 DEF MergeAt
  <2>3. /\ folder'[a].audio = folder[a].audio \o folder[b].audio /\ folder'[a].marker = folder[a].marker
        /\ \A m \in Parts \ {a} : folder'[m] = folder[m]
    <3>1. folder[a] \in Folder
      BY <1>3, <1>4
    <3>2. folder' = [folder EXCEPT ![a] = [folder[a] EXCEPT !.audio = folder[a].audio \o folder[b].audio]]
      BY <2>1
    <3>3. folder'[a] = [folder[a] EXCEPT !.audio = folder[a].audio \o folder[b].audio]
      BY <1>3, <1>4, <3>2
    <3>4. \A m \in Parts \ {a} : folder'[m] = folder[m]
      BY <1>4, <3>2
    <3> QED BY <3>1, <3>3, <3>4 DEF Folder
  <2>4. /\ folder'[a].audio # <<>>
        /\ ToSet(folder[a].audio) \subseteq ToSet(folder'[a].audio)
        /\ ToSet(folder[b].audio) \subseteq ToSet(folder'[a].audio)
    BY <1>3, <1>4, <1>7, <2>3, JoinedIsThere, JoinedHolds
  <2>5. doing[t].before = folder[a]
    BY <1>1, <2>1 DEF FoundAtMerge
  <2>6. FoundAtMerge'
    <3>1. Lead(a)' = Lead(a)
      BY <2>1 DEF Lead, resolve
    <3>2. \A u \in LibraryThreads \ {t} : doing'[u].at \notin MergeAt
      BY <1>3 DEF MergeAt
    <3>3. folder'[b].audio = folder[b].audio /\ folder'[b].audio # <<>>
      BY <1>3, <1>7, <2>3
    <3>4. /\ doing'[t].before.audio # <<>> /\ ~doing'[t].before.marker
          /\ {a} \union Lead(a)' \subseteq ToSet(doing'[t].before.audio)
      BY <1>6, <1>7, <2>2, <2>5, <3>1
    <3> QED BY <2>2, <2>4, <3>2, <3>3, <3>4 DEF FoundAtMerge, MergeAt, Led
  <2>7. Doomed'
    BY <1>3, <1>4, <1>6, <1>11, <2>1, <2>2, <2>3
  <2>8. Found'
    BY <1>3, <1>4, <1>7, <1>12, <1>13, <2>1, <2>2, <2>3, <2>4
  <2> QED BY <1>2, <1>8, <2>6, <2>7, <2>8 DEF FoundInv, Base
<1>23. CASE Joins(t)
  <2>1. /\ doing[t].at = "join" /\ UNCHANGED <<row, job, alias, deleting, removed>> /\ To(t, "alias")
        /\ folder' = IF doing[t].both
                     THEN [folder EXCEPT ![a].segments = @ \o folder[b].segments] ELSE folder
    BY <1>23 DEF Joins, Memory
  <2>2. /\ doing'[t].at = "alias"
        /\ doing'[t].first = a /\ doing'[t].second = b /\ doing'[t].todo = {}
    BY <1>10, <2>1 DEF MergeAt
  <2>3. /\ folder'[a].audio = folder[a].audio /\ folder'[a].marker = folder[a].marker
        /\ \A m \in Parts \ {a} : folder'[m] = folder[m]
    <3>1. CASE ~doing[t].both
      BY <2>1, <3>1
    <3>2. CASE doing[t].both
      <4>1. folder[a] \in Folder
        BY <1>3, <1>4
      <4>2. folder' = [folder EXCEPT ![a] = [folder[a] EXCEPT !.segments = folder[a].segments \o folder[b].segments]]
        BY <2>1, <3>2
      <4>3. folder'[a] = [folder[a] EXCEPT !.segments = folder[a].segments \o folder[b].segments]
        BY <1>3, <1>4, <4>2
      <4>4. \A m \in Parts \ {a} : folder'[m] = folder[m]
        BY <1>4, <4>2
      <4> QED BY <4>1, <4>3, <4>4 DEF Folder
    <3> QED BY <3>1, <3>2
  <2>4. ToSet(folder[b].audio) \subseteq ToSet(folder[a].audio)
    BY <1>1, <2>1 DEF FoundAtMerge
  <2>5. FoundAtMerge'
    BY <1>3, <1>7, <2>2, <2>3, <2>4 DEF FoundAtMerge, MergeAt, Led
  <2>6. Doomed'
    BY <1>3, <1>4, <1>6, <1>11, <2>1, <2>2, <2>3
  <2>7. Found'
    BY <1>3, <1>4, <1>7, <1>12, <1>13, <2>1, <2>2, <2>3
  <2> QED BY <1>2, <1>8, <2>5, <2>6, <2>7 DEF FoundInv, Base
<1>24. CASE Undoes(t)
  <2>1. /\ doing[t].at = "undo" /\ UNCHANGED <<row, alias, deleting, removed>>
        /\ folder' = [folder EXCEPT ![a] = doing[t].before]
        /\ job' = restore(restore(job, a), b) /\ Is(t, Idle)
    BY <1>24 DEF Undoes, Memory, Refuses
  <2>2. doing'[t] = Idle
    BY <1>4, <2>1, IsOwn, IdleIsDoing
  <2>3. FoundAtMerge' /\ doing'[t].todo = {}
    BY <1>9, <2>2
  <2>4. /\ folder'[a].audio # <<>> /\ ~folder'[a].marker
        /\ {a} \union Lead(a) \subseteq ToSet(folder'[a].audio)
        /\ \A m \in Parts \ {a} : folder'[m] = folder[m]
    <3>1. /\ doing[t].before.audio # <<>> /\ ~doing[t].before.marker
          /\ {a} \union Lead(a) \subseteq ToSet(doing[t].before.audio)
      BY <1>1, <2>1 DEF FoundAtMerge
    <3>2. folder'[a] = doing[t].before /\ \A m \in Parts \ {a} : folder'[m] = folder[m]
      BY <1>3, <1>4, <2>1
    <3> QED BY <3>1, <3>2
  <2>5. \A m \in Parts \ {a, b} : job'[m] = job[m]
    BY <1>14, <2>1
  <2>6. Doomed'
    BY <1>3, <1>4, <1>11, <2>1, <2>3, <2>4
  <2>7. Found'
    BY <1>3, <1>4, <1>12, <1>13, <2>1, <2>3, <2>4, <2>5
  <2> QED BY <1>2, <1>8, <2>3, <2>6, <2>7 DEF FoundInv, Base
<1>25. CASE /\ doing[t].at = "alias" /\ UNCHANGED <<row, folder, job, deleting, removed>>
            /\ add_alias(b, a)
            /\ To(t, "redo") \/ Is(t, Idle)
  <2>1. /\ doing[t].at = "alias" /\ UNCHANGED <<row, folder, job, deleting, removed>>
        /\ alias' = [p \in Parts |-> IF p = b \/ alias[p] = b THEN a ELSE alias[p]]
    BY <1>25 DEF add_alias
  <2>2. /\ doing'[t].todo = {}
        /\ doing'[t] = Idle \/ (/\ doing'[t].at = "redo"
                                /\ doing'[t].first = a /\ doing'[t].second = b)
    BY <1>4, <1>10, <1>25, IsOwn, IdleIsDoing DEF MergeAt
  <2>3. ToSet(folder[b].audio) \subseteq ToSet(folder[a].audio)
    BY <1>1, <2>1 DEF FoundAtMerge
  <2>4. \A p \in Parts : resolve(p)' = IF p = b \/ alias[p] = b THEN a ELSE resolve(p)
    <3>1. None \notin Parts
      BY PartsAreNumbered
    <3>2. \A p \in Parts : alias'[p] = IF p = b \/ alias[p] = b THEN a ELSE alias[p]
      BY <2>1
    <3> QED BY <1>3, <3>1, <3>2 DEF resolve
  <2>5. \A p \in Parts : resolve(p)' # b
    BY <1>3, <2>4 DEF resolve
  <2>6. /\ \A m : m # a => Lead(m)' \subseteq Lead(m)
        /\ Lead(a)' \subseteq Lead(a) \union Lead(b) \union {b}
    <3>1. \A p \in Parts : p = b \/ resolve(p) = b \/ resolve(p)' = resolve(p)
      BY <1>3, <2>4 DEF resolve
    <3> QED BY <2>1, <2>4, <3>1 DEF Lead, resolve
  <2>7. FoundAtMerge'
    <3>1. CASE doing'[t] # Idle
      BY <1>3, <1>7, <2>1, <2>2, <2>5, <3>1 DEF FoundAtMerge, MergeAt, Led, Joined
    <3> QED BY <1>9, <3>1
  <2>8. Doomed'
    <3>1. \A u \in LibraryThreads : doing'[u].todo = {}
      BY <1>3, <2>2
    <3>2. ASSUME NEW m \in row, m # a
          PROVE  Held(m)' \subseteq Held(m)
      BY <2>1, <3>2 DEF Held
    <3>3. \A m \in row : folder'[m].marker => Held(m)' \subseteq removed'
      BY <1>1, <1>6, <2>1, <3>2 DEF Doomed
    <3> QED BY <1>1, <2>1, <3>1, <3>3 DEF Doomed
  <2>9. Found'
    <3>1. \A m : ~Planned(m)'
      BY <1>3, <2>2 DEF Planned
    <3>2. \A p \in Parts \ removed : resolve(p)' \in row
      BY <1>3, <1>13, <2>4
    <3>3. ASSUME NEW m \in row, m # a
          PROVE  Hears(m)'
      <4>1. Hears(m) /\ Lead(m)' \subseteq Lead(m)
        BY <1>1, <2>6, <3>3 DEF Found
      <4> QED BY <2>1, <3>1, <4>1 DEF Hears
    <3>4. Hears(a)'
      <4>1. {a} \union Lead(a)' \subseteq ToSet(folder'[a].audio) /\ folder'[a].audio # <<>>
        BY <1>7, <2>1, <2>3, <2>6
      <4> QED BY <3>1, <4>1 DEF Hears
    <3> QED BY <2>1, <3>2, <3>3, <3>4 DEF Found
  <2> QED BY <1>2, <1>8, <2>7, <2>8, <2>9 DEF FoundInv, Base
<1>26. CASE Redoes(t)
  <2> PICK stage : stage = Again(t)
    OBVIOUS
  <2>1. /\ doing[t].at = "redo" /\ UNCHANGED <<row, folder, alias, deleting, removed>>
        /\ job' = [job EXCEPT ![a][stage] = "pending"] /\ To(t, "remove")
    BY <1>3, <1>26 DEF Redoes, Memory
  <2>2. /\ doing'[t].at = "remove"
        /\ doing'[t].first = a /\ doing'[t].second = b /\ doing'[t].todo = {}
    BY <1>10, <2>1 DEF MergeAt
  <2>3. FoundAtMerge'
    <3>1. \A p \in Parts : resolve(p) # b
      BY <1>1, <2>1 DEF FoundAtMerge, Led
    <3>2. \A p : resolve(p)' = resolve(p)
      BY <2>1 DEF resolve
    <3> QED BY <1>3, <1>7, <2>1, <2>2, <3>1, <3>2 DEF FoundAtMerge, MergeAt, Led
  <2>4. \A m \in Parts \ {a, b} : job'[m] = job[m]
    BY <1>4, <2>1
  <2>5. Doomed' /\ Found'
    BY <1>3, <1>6, <1>7, <1>11, <1>12, <1>13, <2>1, <2>2, <2>4
  <2> QED BY <1>2, <1>8, <2>3, <2>5 DEF FoundInv, Base
<1>27. CASE Removes(t)
  <2>1. /\ doing[t].at = "remove" /\ UNCHANGED <<alias, deleting, removed>> /\ Is(t, Idle)
        /\ row' = row \ {b} /\ job' = [job EXCEPT ![b] = NoJobs]
        /\ \/ folder' = [folder EXCEPT ![b] = NoFolder]
           \/ folder' = [folder EXCEPT ![b].marker = TRUE]
    BY <1>27 DEF Removes, purge
  <2>2. doing'[t] = Idle
    BY <1>4, <2>1, IsOwn, IdleIsDoing
  <2>3. FoundAtMerge' /\ doing'[t].todo = {}
    BY <1>9, <2>2
  <2>4. \A m \in Parts \ {b} : folder'[m] = folder[m] /\ job'[m] = job[m]
    BY <1>4, <2>1
  <2>5. \A p \in Parts \ removed : resolve(p) \in row'
    <3>1. \A p \in Parts : resolve(p) # b
      BY <1>1, <2>1 DEF FoundAtMerge, Led
    <3> QED BY <1>13, <2>1, <3>1
  <2>6. Doomed' /\ Found'
    BY <1>3, <1>4, <1>6, <1>7, <1>11, <1>12, <2>1, <2>3, <2>4, <2>5
  <2> QED BY <1>2, <1>8, <2>3, <2>6 DEF FoundInv, Base
<1>28. CASE Aliases(t)
  BY <1>3, <1>25, <1>28 DEF Aliases, Memory
<1>29. CASE MergeFails(t)
  <2>1. CASE doing[t].at = "alias" /\ add_alias(b, a) /\ job' = job
    BY <1>1, <1>25, <1>29, <2>1, MergeFailsDoes
  <2>2. CASE alias' = alias
    <3>1. doing'[t] = Idle
      BY <1>1, <1>4, <1>29, MergeFailsDoes, IsOwn, IdleIsDoing
    <3>2. FoundAtMerge' /\ doing'[t].todo = {}
      BY <1>9, <3>1
    <3>3. \A m \in Parts \ {a, b} : job'[m] = job[m]
      BY <1>1, <1>4, <1>14, <1>29, MergeFailsDoes
    <3>4. UNCHANGED <<row, folder, deleting, removed>>
      BY <1>1, <1>29, MergeFailsDoes
    <3>5. Doomed' /\ Found'
      BY <1>3, <1>6, <1>7, <1>11, <1>12, <1>13, <2>2, <3>2, <3>3, <3>4
    <3> QED BY <1>2, <1>8, <3>2, <3>5 DEF FoundInv, Base
  <2> QED BY <1>1, <1>29, <2>1, <2>2, MergeFailsDoes
<1> QED BY <1>21, <1>22, <1>23, <1>24, <1>26, <1>27, <1>28, <1>29 DEF MergeStep

LEMMA FoundBegins ==
    ASSUME LibraryInit
    PROVE  FoundInv
<1>1. LibraryTypeOK /\ Threads
  BY LibraryBegins DEF LibraryIndInv
<1>2. /\ row = Parts /\ alias = [p \in Parts |-> None] /\ deleting = {} /\ removed = {}
      /\ doing = [t \in LibraryThreads |-> Idle]
  BY DEF LibraryInit
<1>3. PICK done \in SUBSET Parts :
       /\ folder = [p \in Parts |-> IF p \in done
              THEN [NoFolder EXCEPT !.audio = <<p>>, !.segments = <<p>>, !.transcript = <<p>>]
              ELSE [NoFolder EXCEPT !.audio = <<p>>]]
  BY DEF LibraryInit
<1>4. \A p \in Parts : folder[p].audio = <<p>> /\ folder[p].marker = FALSE
  <2> SUFFICES ASSUME NEW p \in Parts
               PROVE  folder[p].audio = <<p>> /\ folder[p].marker = FALSE
    OBVIOUS
  <2>1. folder[p] = IF p \in done
              THEN [NoFolder EXCEPT !.audio = <<p>>, !.segments = <<p>>, !.transcript = <<p>>]
              ELSE [NoFolder EXCEPT !.audio = <<p>>]
    BY <1>3
  <2> QED BY <2>1 DEF NoFolder
<1>5. \A t \in LibraryThreads : doing[t].at = "rest" /\ doing[t].todo = {}
  BY <1>2, IdleIsDoing
<1>6. Doomed
  BY <1>2, <1>4, <1>5 DEF Doomed
<1>7. \A p \in Parts : resolve(p) = p
  BY <1>2 DEF resolve
<1>8. Found
  <2>1. ASSUME NEW m \in row
        PROVE  Hears(m)
    <3>1. Lead(m) \subseteq {m} /\ ToSet(<<m>>) = {m} /\ ~Planned(m)
      BY <1>2, <1>5, <1>7 DEF Lead, ToSet, Planned
    <3> QED BY <1>2, <1>4, <3>1 DEF Hears
  <2> QED BY <1>2, <1>7, <2>1 DEF Found
<1>9. TheWorker \in LibraryThreads
  BY DEF LibraryThreads
<1>10. FoundInHand /\ FoundAtMerge
  BY <1>5, <1>9 DEF FoundInHand, FoundAtMerge, MergeAt, Led
<1> QED BY <1>1, <1>6, <1>8, <1>10 DEF FoundInv

LEMMA FoundStaysSo ==
    ASSUME FoundInv, UNCHANGED libraryVars
    PROVE  FoundInv'
<1>1. /\ row' = row /\ folder' = folder /\ job' = job /\ alias' = alias /\ waits' = waits
      /\ deleting' = deleting /\ doing' = doing /\ quota' = quota /\ removed' = removed
      /\ flaws' = flaws
  BY DEF libraryVars
<1>2. LibraryTypeOK' /\ Threads'
  BY <1>1 DEF FoundInv, LibraryTypeOK, Threads
<1>3. \A m : /\ Lead(m)' = Lead(m) /\ Held(m)' = Held(m) /\ Planned(m)' = Planned(m)
             /\ resolve(m)' = resolve(m)
  BY <1>1 DEF Lead, Held, Planned, resolve
<1>4. Doomed'
  BY <1>1, <1>3 DEF FoundInv, Doomed
<1>5. Found'
  <2>1. ASSUME NEW m \in row
        PROVE  Hears(m)'
    BY <1>1, <1>3 DEF FoundInv, Found, Hears
  <2>2. \A p \in Parts \ removed : resolve(p)' \in row
    BY <1>3 DEF FoundInv, Found
  <2> QED BY <1>1, <2>1, <2>2 DEF Found
<1>6. FoundInHand'
  BY <1>1, <1>3 DEF FoundInv, FoundInHand
<1>7. FoundAtMerge'
  BY <1>1, <1>3 DEF FoundInv, FoundAtMerge
<1> QED BY <1>2, <1>4, <1>5, <1>6, <1>7 DEF FoundInv

\* What went wrong is not forgotten.
LEMMA FlawsStay ==
    ASSUME LibraryNext
    PROVE  flaws \subseteq flaws'
<1>1. ASSUME NEW t \in LibraryThreads, MergeStep(t)
      PROVE  flaws \subseteq flaws'
  BY <1>1 DEF MergeStep, WithdrawsSecond, Appends, Joins, Undoes, Aliases, Redoes, Removes, Memory,
     MergeFails, SnapshotFails, RestoreFails, MirrorFails, Flawed
<1>2. ASSUME NEW t \in LibraryThreads, SweepBegins(t) \/ Sweeps(t)
      PROVE  flaws \subseteq flaws'
  BY <1>2 DEF SweepBegins, Sweeps, Flawed
<1>3. ASSUME NEW t \in Pressers, Pressed(t)
      PROVE  flaws \subseteq flaws'
  BY <1>3 DEF Pressed, MergePressed, Assigned, RetryPressed, DeletePressed
<1>4. CASE StageStep
  BY <1>4 DEF StageStep, TakesJob, StageEndsBadly, StageEndsWell, Completes, EnqueuesNext,
     MergesPending, Memory
<1>5. CASE Dies
  BY <1>5 DEF Dies
<1> QED BY <1>1, <1>2, <1>3, <1>4, <1>5 DEF LibraryNext

LEMMA FoundStep ==
    ASSUME FoundInv, MergesAlone, MergesIntoKept, LibraryNext, "unheard" \notin flaws'
    PROVE  FoundInv'
<1>1. LibraryTypeOK /\ Threads
  BY DEF FoundInv
<1>2. TheWorker \in LibraryThreads /\ \A t \in Pressers : t \in LibraryThreads
  BY DEF LibraryThreads
<1>3. CASE \E t \in Pressers : Pressed(t)
  BY <1>1, <1>2, <1>3, MergePressedAsks, AssignedAsks, FoundAsks, FoundRetryPressed,
     FoundDeletePressed DEF Pressed
<1>4. CASE \E t \in LibraryThreads : MergeStep(t) \/ SweepBegins(t) \/ Sweeps(t)
  BY <1>4, FoundMerge, FoundSweepBegins, FoundSweeps
<1>5. CASE StageStep
  <2>1. CASE MergesPending
    BY <1>1, <1>2, <2>1, MergesPendingAsks, FoundAsks
  <2> QED BY <1>5, <2>1, FoundTakesJob, FoundStageEndsBadly, FoundStageEndsWell, FoundCompletes,
            FoundEnqueuesNext DEF StageStep
<1>6. CASE Dies
  BY <1>6, FoundDies
<1> QED BY <1>3, <1>4, <1>5, <1>6 DEF LibraryNext

\* As long as the policy takes no sound unheard.
FoundUnlessUnheard == "unheard" \notin flaws => FoundInv

LEMMA FoundAlways ==
    LibrarySpec /\ [][MergesAlone]_libraryVars /\ []MergesIntoKept => []FoundUnlessUnheard
<1>1. LibraryInit => FoundUnlessUnheard
  BY FoundBegins DEF FoundUnlessUnheard
<1>2. FoundUnlessUnheard /\ [LibraryNext]_libraryVars /\ [MergesAlone]_libraryVars /\ MergesIntoKept
        => FoundUnlessUnheard'
  <2> SUFFICES ASSUME FoundUnlessUnheard, [LibraryNext]_libraryVars, [MergesAlone]_libraryVars,
                      MergesIntoKept, "unheard" \notin flaws'
               PROVE  FoundInv'
    BY DEF FoundUnlessUnheard
  <2>1. CASE UNCHANGED libraryVars
    <3>1. "unheard" \notin flaws
      BY <2>1 DEF libraryVars
    <3> QED BY <2>1, <3>1, FoundStaysSo DEF FoundUnlessUnheard
  <2>2. CASE LibraryNext /\ MergesAlone
    <3>1. "unheard" \notin flaws
      BY <2>2, FlawsStay
    <3> QED BY <2>2, <3>1, FoundStep DEF FoundUnlessUnheard
  <2> QED BY <2>1, <2>2
<1> QED BY <1>1, <1>2, PTL DEF LibrarySpec

LEMMA FoundIsSound ==
    ASSUME FoundUnlessUnheard
    PROVE  IdFindsSound
<1> SUFFICES ASSUME NEW p \in Parts \ removed, FoundInv
             PROVE  /\ resolve(p) \in row
                    /\ p \in ToSet(folder[resolve(p)].audio) \union ToSet(folder[resolve(p)].transcript)
  BY DEF IdFindsSound, FoundUnlessUnheard
<1>1. resolve(p) \in row /\ Hears(resolve(p))
  BY DEF FoundInv, Found
<1>2. p \in Lead(resolve(p))
  BY DEF Lead
<1> QED BY <1>1, <1>2 DEF Hears

\* With the types and HeardOnce: all of LibraryInv.
LEMMA NothingIsLost ==
    LibrarySpec /\ [][MergesAlone]_libraryVars /\ []MergesIntoKept => []LibraryInv
<1>1. FoundUnlessUnheard /\ LibraryIndInv => LibraryInv
  BY FoundIsSound, WholeAtRest DEF LibraryInv, LibraryIndInv
<1> QED BY <1>1, FoundAlways, LibraryIsKept, PTL

(***************************************************************************)
(* Without overlaps merges are alone.                                      *)
(***************************************************************************)
Sole ==
    /\ quota["overlap"] = 0
    /\ \A t, u \in LibraryThreads : doing[t].at # "rest" /\ doing[u].at # "rest" => t = u

\* t goes on, or begins something.
Turns(t) ==
    /\ \A u \in LibraryThreads \ {t} : doing'[u] = doing[u]
    /\ doing[t].at # "rest" \/ Free(t)
    /\ doing[t].at \in MergeAt => doing'[t] # doing[t]

LEMMA IsElsewhere ==
    ASSUME NEW t \in LibraryThreads, NEW d, Is(t, d), doing \in [LibraryThreads -> Doing]
    PROVE  /\ \A u \in LibraryThreads \ {t} : doing'[u] = doing[u]
           /\ doing'[t] = d
BY DEF Is

LEMMA MergesElsewhere ==
    ASSUME NEW t \in LibraryThreads, NEW p, NEW q, NEW asked, NEW calling,
           Merges(t, p, q, asked, calling), doing \in [LibraryThreads -> Doing]
    PROVE  \A u \in LibraryThreads \ {t} : doing'[u] = doing[u]
BY IsElsewhere DEF Merges, Refuses

LEMMA PressedTurns ==
    ASSUME LibraryTypeOK, NEW t \in Pressers, Pressed(t)
    PROVE  Turns(t)
<1>1. doing \in [LibraryThreads -> Doing] /\ t \in LibraryThreads
  BY DEF LibraryTypeOK, LibraryThreads
<1>2. Free(t) /\ doing[t].at = "rest"
  BY DEF Pressed, MergePressed, Assigned, RetryPressed, DeletePressed, Free
<1>3. \A u \in LibraryThreads \ {t} : doing'[u] = doing[u]
  <2>1. CASE MergePressed(t)
    BY <1>1, <2>1, MergesElsewhere DEF MergePressed
  <2>2. CASE Assigned(t)
    BY <1>1, <2>2, MergesElsewhere DEF Assigned
  <2>3. CASE RetryPressed(t) \/ DeletePressed(t)
    BY <2>3 DEF RetryPressed, DeletePressed
  <2> QED BY <2>1, <2>2, <2>3 DEF Pressed
<1> QED BY <1>2, <1>3 DEF Turns, MergeAt

LEMMA MergeTurns ==
    ASSUME LibraryTypeOK, NEW t \in LibraryThreads, MergeStep(t)
    PROVE  Turns(t)
<1>1. doing \in [LibraryThreads -> Doing] /\ doing[t] \in Doing
  BY DEF LibraryTypeOK
<1>2. Idle.at = "rest"
  BY IdleIsDoing
<1>3. ASSUME NEW at, To(t, at)
      PROVE  (\A u \in LibraryThreads \ {t} : doing'[u] = doing[u]) /\ doing'[t].at = at
  <2>1. doing'[t] = [doing[t] EXCEPT !.at = at] /\ \A u \in LibraryThreads \ {t} : doing'[u] = doing[u]
    BY <1>1, <1>3, IsElsewhere DEF To
  <2> QED BY <1>1, <2>1 DEF Doing
<1>4. /\ \A u \in LibraryThreads \ {t} : doing'[u] = doing[u]
      /\ doing[t].at # "rest" /\ doing'[t].at # doing[t].at
  <2>1. CASE WithdrawsSecond(t)
    <3>1. doing[t].at = "second"
      BY <2>1 DEF WithdrawsSecond
    <3>2. CASE Is(t, Idle)
      BY <1>1, <1>2, <3>1, <3>2, IsElsewhere
    <3>3. CASE Is(t, [doing[t] EXCEPT !.at = "append", !.before = folder[doing[t].first],
                      !.both = transcribed(doing[t].first) /\ transcribed(doing[t].second)])
      <4>1. /\ doing'[t] = [doing[t] EXCEPT !.at = "append", !.before = folder[doing[t].first],
                            !.both = transcribed(doing[t].first) /\ transcribed(doing[t].second)]
            /\ \A u \in LibraryThreads \ {t} : doing'[u] = doing[u]
        BY <1>1, <3>3, IsElsewhere
      <4>2. doing'[t].at = "append"
        BY <1>1, <4>1 DEF Doing
      <4> QED BY <3>1, <4>1, <4>2
    <3> QED BY <2>1, <3>2, <3>3 DEF WithdrawsSecond, Refuses
  <2>2. CASE Appends(t)
    <3>1. doing[t].at = "append" /\ (To(t, "undo") \/ To(t, "join"))
      BY <2>2 DEF Appends
    <3> QED BY <1>3, <3>1
  <2>3. CASE Joins(t)
    BY <1>3, <2>3 DEF Joins
  <2>4. CASE Undoes(t)
    BY <1>1, <1>2, <2>4, IsElsewhere DEF Undoes, Refuses
  <2>5. CASE Aliases(t)
    BY <1>1, <1>2, <1>3, <2>5, IsElsewhere DEF Aliases
  <2>6. CASE Redoes(t)
    BY <1>1, <1>2, <1>3, <2>6, IsElsewhere DEF Redoes
  <2>7. CASE Removes(t)
    BY <1>1, <1>2, <2>7, IsElsewhere DEF Removes
  <2>8. CASE MergeFails(t)
    BY <1>1, <1>2, <2>8, IsElsewhere
    DEF MergeFails, Refuses, SnapshotFails, RestoreFails, MirrorFails
  <2> QED BY <2>1, <2>2, <2>3, <2>4, <2>5, <2>6, <2>7, <2>8 DEF MergeStep
<1> QED BY <1>4 DEF Turns

LEMMA SweepTurns ==
    ASSUME LibraryTypeOK, NEW t \in LibraryThreads, SweepBegins(t) \/ Sweeps(t)
    PROVE  Turns(t)
<1>1. doing \in [LibraryThreads -> Doing]
  BY DEF LibraryTypeOK
<1>2. CASE SweepBegins(t)
  <2>1. Free(t) /\ doing[t].at = "rest"
    BY <1>2 DEF SweepBegins, Free
  <2>2. \A u \in LibraryThreads \ {t} : doing'[u] = doing[u]
    BY <1>1, <1>2, IsElsewhere DEF SweepBegins
  <2> QED BY <2>1, <2>2 DEF Turns, MergeAt
<1>3. CASE Sweeps(t)
  <2>1. doing[t].at = "sweep" /\ \A u \in LibraryThreads \ {t} : doing'[u] = doing[u]
    BY <1>1, <1>3, IsElsewhere DEF Sweeps
  <2> QED BY <2>1 DEF Turns, MergeAt
<1> QED BY <1>2, <1>3

LEMMA StageTurns ==
    ASSUME LibraryTypeOK, StageStep
    PROVE  Turns(TheWorker) /\ TheWorker \in LibraryThreads
<1>1. doing \in [LibraryThreads -> Doing] /\ TheWorker \in LibraryThreads
  BY DEF LibraryTypeOK, LibraryThreads
<1>2. /\ doing[TheWorker].at \in WorkerAt \/ (Free(TheWorker) /\ doing[TheWorker].at = "rest")
      /\ \A u \in LibraryThreads \ {TheWorker} : doing'[u] = doing[u]
  <2>1. CASE TakesJob
    BY <1>1, <2>1, IsElsewhere DEF TakesJob, Free
  <2>2. CASE StageEndsBadly
    BY <1>1, <2>2, IsElsewhere DEF StageEndsBadly, WorkerAt
  <2>3. CASE StageEndsWell
    BY <1>1, <2>3, IsElsewhere DEF StageEndsWell, To, WorkerAt
  <2>4. CASE Completes
    BY <1>1, <2>4, IsElsewhere DEF Completes, To, WorkerAt
  <2>5. CASE EnqueuesNext
    BY <1>1, <2>5, IsElsewhere DEF EnqueuesNext, To, WorkerAt
  <2>6. CASE MergesPending
    BY <1>1, <2>6, IsElsewhere, MergesElsewhere DEF MergesPending, WorkerAt
  <2> QED BY <2>1, <2>2, <2>3, <2>4, <2>5, <2>6 DEF StageStep
<1> QED BY <1>1, <1>2 DEF Turns, MergeAt, WorkerAt

LEMMA NoMoreOverlaps ==
    ASSUME LibraryTypeOK, LibraryNext
    PROVE  quota'["overlap"] = quota["overlap"]
<1>1. quota \in [Happenings -> Nat]
  BY DEF LibraryTypeOK
<1>2. ASSUME NEW e, e # "overlap", Uses(e)
      PROVE  quota'["overlap"] = quota["overlap"]
  BY <1>1, <1>2 DEF Uses, Happenings
<1>3. CASE \E t \in Pressers : Pressed(t)
  BY <1>2, <1>3 DEF Pressed, MergePressed, Assigned, RetryPressed, DeletePressed
<1>4. ASSUME NEW t \in LibraryThreads, MergeStep(t)
      PROVE  quota'["overlap"] = quota["overlap"]
  BY <1>2, <1>4
  DEF MergeStep, WithdrawsSecond, Appends, Joins, Undoes, Aliases, Redoes, Removes, MergeFails, Memory
<1>5. ASSUME NEW t \in LibraryThreads, SweepBegins(t)
      PROVE  quota'["overlap"] = quota["overlap"]
  BY <1>2, <1>5 DEF SweepBegins
<1>6. ASSUME NEW t \in LibraryThreads, Sweeps(t)
      PROVE  quota'["overlap"] = quota["overlap"]
  BY <1>6 DEF Sweeps
<1>7. CASE StageStep
  BY <1>7 DEF StageStep, TakesJob, StageEndsBadly, StageEndsWell, Completes, EnqueuesNext, MergesPending, Memory
<1>8. CASE Dies
  BY <1>2, <1>8 DEF Dies
<1> QED BY <1>3, <1>4, <1>5, <1>6, <1>7, <1>8 DEF LibraryNext

LEMMA SoleStep ==
    ASSUME LibraryIndInv, Sole, LibraryNext
    PROVE  MergesAlone /\ Sole'
<1>1. LibraryTypeOK /\ Threads
  BY DEF LibraryIndInv
<1>2. quota'["overlap"] = 0
  BY <1>1, NoMoreOverlaps DEF Sole
<1>3. \A t \in LibraryThreads : doing[t].second # None => doing[t].at \in MergeAt /\ doing[t].at # "rest"
  BY <1>1 DEF Threads, MergeAt
<1>4. ASSUME NEW t \in LibraryThreads, Turns(t)
      PROVE  MergesAlone /\ Sole'
  <2>1. \A u \in LibraryThreads \ {t} : doing[u].at = "rest" /\ doing'[u] = doing[u]
    BY <1>4 DEF Turns, Free, Resting, Sole
  <2>2. \A u \in LibraryThreads \ {t} : doing[u].second = None
    BY <1>3, <2>1
  <2>3. MergesAlone
    BY <1>3, <1>4, <2>1, <2>2 DEF MergesAlone, MergeAlone, Turns
  <2>4. Sole'
    BY <1>2, <2>1 DEF Sole
  <2> QED BY <2>3, <2>4
<1>5. CASE Dies
  <2>1. \A t \in LibraryThreads : doing'[t].at = "rest" /\ doing'[t].second = None
    BY <1>5, IdleIsDoing DEF Dies
  <2> QED BY <1>2, <2>1 DEF MergesAlone, MergeAlone, Sole
<1>6. \A t \in Pressers : t \in LibraryThreads
  BY DEF LibraryThreads
<1> QED BY <1>1, <1>4, <1>5, <1>6, PressedTurns, MergeTurns, SweepTurns, StageTurns DEF LibraryNext

\* When handlers, the worker's stages and sweeps come one after the other, merges are alone.
THEOREM OneAfterTheOther ==
    (\A q \in Quotas : q["overlap"] = 0) => (LibrarySpec => [][MergesAlone]_libraryVars)
<1> SUFFICES ASSUME \A q \in Quotas : q["overlap"] = 0
             PROVE  LibrarySpec => [][MergesAlone]_libraryVars
  OBVIOUS
<1>1. LibraryInit => LibraryIndInv /\ Sole
  BY LibraryBegins, IdleIsDoing DEF LibraryInit, Sole
<1>2. LibraryIndInv /\ Sole /\ LibraryNext => MergesAlone /\ LibraryIndInv' /\ Sole'
  BY SoleStep, LibraryStep
<1>3. LibraryIndInv /\ Sole /\ UNCHANGED libraryVars => LibraryIndInv' /\ Sole'
  BY LibraryStaysSo DEF libraryVars, Sole
<1> QED BY <1>1, <1>2, <1>3, PTL DEF LibrarySpec

(***************************************************************************)
(* Without overlaps nobody merges into what is to be deleted.              *)
(***************************************************************************)
Calm ==
    /\ \A p \in Parts, s \in Stages : job[p][s] = "running" =>
          /\ doing[TheWorker].at \in {"stage", "complete"}
          /\ doing[TheWorker].first = p /\ doing[TheWorker].stage = s
    /\ \A p \in row : ~folder[p].marker
    /\ deleting = {}
    /\ doing[TheWorker].at \in {"stage", "complete"} => doing[TheWorker].first \in row

LEMMA CalmMergesIntoKept ==
    ASSUME Threads, Calm
    PROVE  MergesIntoKept
BY DEF MergesIntoKept, Threads, Calm

\* Nothing runs, and nothing is made to.
LEMMA CalmStays ==
    ASSUME Calm, LibraryTypeOK, doing'[TheWorker].at \notin {"stage", "complete"}, row' \subseteq row,
           \A p \in Parts, s \in Stages : job'[p][s] # "running",
           \A p \in row' : folder'[p].marker => folder[p].marker, deleting' = {}
    PROVE  Calm'
BY DEF Calm

LEMMA PurgeCalms ==
    ASSUME Base, NEW p \in Parts, purge(p), \A q \in Parts, s \in Stages : job[q][s] # "running"
    PROVE  /\ \A q \in Parts, s \in Stages : job'[q][s] # "running"
           /\ row' \subseteq row /\ \A q \in row' : folder'[q] = folder[q]
<1>1. row' = row \ {p} /\ \A q \in row' : folder'[q] = folder[q]
  BY PurgeLeaves
<1>2. \A q \in Parts, s \in Stages : job'[q][s] # "running"
  BY DEF purge, NoJobs, Base, LibraryTypeOK
<1> QED BY <1>1, <1>2

LEMMA MovedRuns ==
    ASSUME NEW js \in [Parts -> [Stages -> JobStates]], NEW p \in Parts, NEW old, NEW new,
           new # "running", \A q \in Parts, s \in Stages : js[q][s] # "running"
    PROVE  \A q \in Parts, s \in Stages : Moved(js, p, old, new)[q][s] # "running"
BY DEF Moved

\* While no stage is under way: nothing runs.
LEMMA CalmAside ==
    ASSUME LibraryIndInv, FoundInv, Sole, Calm, MergesAlone, doing[TheWorker].at \notin {"stage", "complete"},
           \/ \E t \in Pressers : Pressed(t)
           \/ \E t \in LibraryThreads : MergeStep(t) \/ SweepBegins(t) \/ Sweeps(t)
           \/ MergesPending \/ EnqueuesNext
    PROVE  Calm'
<1>1. Base /\ LibraryTypeOK /\ TheWorker \in LibraryThreads /\ \A t \in Pressers : t \in LibraryThreads
  BY DEF LibraryIndInv, Base, LibraryThreads
<1>2. job \in [Parts -> [Stages -> JobStates]] /\ row \subseteq Parts /\ folder \in [Parts -> Folder]
  BY <1>1 DEF LibraryTypeOK
<1>3. /\ \A p \in Parts, s \in Stages : job[p][s] # "running"
      /\ \A p \in Parts : ~Busy(p)
      /\ deleting = {}
  BY DEF Calm, Busy
<1>4. ASSUME NEW t \in LibraryThreads, Asks(t)
      PROVE  Calm'
  <2>1. UNCHANGED <<row, folder, deleting>> /\ \A u \in LibraryThreads \ {t} : doing'[u] = doing[u]
    BY <1>4 DEF Asks
  <2>2. \/ job' = job /\ (doing'[t] = doing[t] \/ doing'[t] = Idle)
        \/ \E a, b \in row : Begins(t, a, b)
    BY <1>4 DEF Asks
  <2>3. CASE job' = job /\ (doing'[t] = doing[t] \/ doing'[t] = Idle)
    <3>1. doing'[TheWorker].at \notin {"stage", "complete"}
      BY <1>1, <2>1, <2>3, IdleIsDoing
    <3> QED BY <1>1, <1>3, <2>1, <2>3, <3>1, CalmStays
  <2>4. CASE \E a, b \in row : Begins(t, a, b)
    <3>1. PICK a \in row, b \in row : job' = withdraw(job, a) /\ doing'[t].at = "second"
      BY <2>4 DEF Begins
    <3>2. doing'[TheWorker].at \notin {"stage", "complete"}
      BY <1>1, <2>1, <3>1
    <3>3. \A p \in Parts, s \in Stages : job'[p][s] # "running"
      <4>1. a \in Parts /\ job' = Moved(job, a, "pending", "cancelled")
        BY <1>2, <3>1 DEF withdraw
      <4>2. \A p \in Parts, s \in Stages :
               Moved(job, a, "pending", "cancelled")[p][s] # "running"
        BY <1>2, <1>3, <4>1, MovedRuns
      <4> QED BY <4>1, <4>2
    <3> QED BY <1>1, <1>3, <2>1, <3>2, <3>3, CalmStays
  <2> QED BY <2>2, <2>3, <2>4
<1>5. ASSUME NEW t \in Pressers, Pressed(t)
      PROVE  Calm'
  <2>1. CASE MergePressed(t) \/ Assigned(t)
    BY <1>1, <1>4, <2>1, MergePressedAsks, AssignedAsks
  <2>2. CASE RetryPressed(t)
    <3>1. UNCHANGED <<row, folder, deleting, doing>>
      BY <2>2 DEF RetryPressed
    <3>2. PICK p \in row : job' = [job EXCEPT ![p]["transcribe"] = "pending"]
      BY <1>1, <2>2, RetryPressedDoes
    <3>3. \A q \in Parts, s \in Stages : job'[q][s] # "running"
      BY <1>2, <1>3, <3>2
    <3> QED BY <1>1, <1>3, <3>1, <3>3, CalmStays
  <2>3. CASE DeletePressed(t)
    <3>1. doing' = doing
      BY <2>3 DEF DeletePressed
    <3>2. PICK m \in row :
             \/ deleting' = deleting /\ purge(m)
             \/ deleting' = deleting /\ job' = [job EXCEPT ![m] = NoJobs] /\ UNCHANGED <<row, folder>>
      BY <1>1, <1>2, <1>3, <2>3, DeletePressedDoes
    <3>3. CASE purge(m) /\ deleting' = deleting
      <4>1. m \in Parts
        BY <1>2
      <4>2. /\ \A q \in Parts, s \in Stages : job'[q][s] # "running"
            /\ row' \subseteq row /\ \A q \in row' : folder'[q] = folder[q]
        BY <1>1, <1>3, <3>3, <4>1, PurgeCalms
      <4> QED BY <1>1, <1>3, <3>1, <3>3, <4>2, CalmStays
    <3>4. CASE deleting' = deleting /\ job' = [job EXCEPT ![m] = NoJobs] /\ UNCHANGED <<row, folder>>
      <4>1. \A q \in Parts, s \in Stages : job'[q][s] # "running"
        BY <1>2, <1>3, <3>4 DEF NoJobs
      <4> QED BY <1>1, <1>3, <3>1, <3>4, <4>1, CalmStays
    <3> QED BY <3>2, <3>3, <3>4
  <2> QED BY <1>5, <2>1, <2>2, <2>3 DEF Pressed
<1>6. ASSUME NEW t \in LibraryThreads, MergeStep(t)
      PROVE  Calm'
  <2>0. PICK a, b : a = doing[t].first /\ b = doing[t].second
    OBVIOUS
  <2> USE <2>0
  <2>1. /\ Base' /\ doing[t].at \in MergeAt
        /\ \A u \in LibraryThreads \ {t} : doing'[u] = doing[u]
        /\ doing'[t] = Idle \/ doing'[t].at \in MergeAt
    BY <1>1, <1>6, BaseMerge
  <2>2. a \in row /\ b \in row /\ a \in Parts /\ b \in Parts
    BY <1>1, <1>2, <2>1 DEF Base, Threads
  <2>3. doing'[TheWorker].at \notin {"stage", "complete"}
    BY <1>1, <2>1, IdleIsDoing DEF MergeAt
  <2>4. deleting' = {}
    BY <1>3, <1>6
    DEF MergeStep, WithdrawsSecond, Appends, Joins, Undoes, Aliases, Redoes, Removes, MergeFails, Memory
  <2>5. row' \subseteq row
    BY <1>6
    DEF MergeStep, WithdrawsSecond, Appends, Joins, Undoes, Aliases, Redoes, Removes, MergeFails, purge
  <2>6. \A q \in Parts, s \in Stages : job'[q][s] # "running"
    <3>1. \/ job' = job \/ job' = restore(job, a) \/ job' = withdraw(job, b)
          \/ job' = restore(restore(job, a), b)
          \/ job' = [job EXCEPT ![a]["assemble"] = "pending"]
          \/ job' = [job EXCEPT ![a]["transcribe"] = "pending"]
          \/ job' = [job EXCEPT ![b] = NoJobs]
      <4>1. CASE WithdrawsSecond(t)
        BY <4>1 DEF WithdrawsSecond
      <4>2. CASE Appends(t) \/ Joins(t) \/ Aliases(t)
        BY <4>2 DEF Appends, Joins, Aliases
      <4>3. CASE Undoes(t)
        BY <4>3 DEF Undoes
      <4>4. CASE Redoes(t)
        BY <4>4 DEF Redoes, Again
      <4>5. CASE Removes(t)
        BY <4>5 DEF Removes, purge
      <4>6. CASE MergeFails(t)
        BY <1>1, <4>6, MergeFailsDoes
      <4> QED BY <1>6, <4>1, <4>2, <4>3, <4>4, <4>5, <4>6 DEF MergeStep
    <3>2. CASE job' = restore(job, a) \/ job' = withdraw(job, b)
      BY <1>2, <1>3, <2>2, <3>2, MovedRuns DEF restore, withdraw
    <3>3. CASE job' = restore(restore(job, a), b)
      <4>1. restore(job, a) \in [Parts -> [Stages -> JobStates]]
        BY <1>2, <2>2, RestoreIs
      <4>2. \A q \in Parts, s \in Stages : restore(job, a)[q][s] # "running"
        BY <1>2, <1>3, <2>2, MovedRuns DEF restore
      <4> QED BY <2>2, <3>3, <4>1, <4>2, MovedRuns DEF restore
    <3>4. CASE job' = [job EXCEPT ![b] = NoJobs]
      BY <1>2, <1>3, <3>4 DEF NoJobs
    <3> QED BY <1>2, <1>3, <3>1, <3>2, <3>3, <3>4
  <2>7. \A p \in row' : folder'[p].marker => folder[p].marker
    <3>1. CASE WithdrawsSecond(t) \/ Aliases(t) \/ Redoes(t)
      BY <3>1 DEF WithdrawsSecond, Aliases, Redoes
    <3>2. CASE Appends(t)
      <4>1. folder' = [folder EXCEPT ![a].audio = @ \o folder[b].audio]
        BY <3>2 DEF Appends
      <4>2. folder'[a].marker = folder[a].marker /\ \A p \in Parts \ {a} : folder'[p] = folder[p]
        BY <1>2, <2>2, <4>1 DEF Folder
      <4> QED BY <1>2, <2>5, <4>2
    <3>3. CASE Joins(t)
      <4>1. folder' = folder \/ folder' = [folder EXCEPT ![a].segments = @ \o folder[b].segments]
        BY <3>3 DEF Joins
      <4>2. CASE folder' = folder
        BY <4>2
      <4>3. CASE folder' = [folder EXCEPT ![a].segments = @ \o folder[b].segments]
        <5>1. folder'[a].marker = folder[a].marker
          BY <1>2, <2>2, <4>3 DEF Folder
        <5>2. \A p \in Parts \ {a} : folder'[p] = folder[p]
          BY <1>2, <2>2, <4>3
        <5> QED BY <1>2, <2>5, <5>1, <5>2
      <4> QED BY <4>1, <4>2, <4>3
    <3>4. CASE Undoes(t)
      <4>1. folder' = [folder EXCEPT ![a] = doing[t].before] /\ ~doing[t].before.marker
        BY <3>4 DEF Undoes, FoundInv, FoundAtMerge
      <4> QED BY <1>2, <2>2, <2>5, <4>1
    <3>5. CASE Removes(t)
      <4>1. row' = row \ {b} /\ \A p \in Parts \ {b} : folder'[p] = folder[p]
        BY <1>2, <3>5 DEF Removes, purge
      <4> QED BY <1>2, <4>1
    <3>6. CASE MergeFails(t)
      BY <1>1, <3>6, MergeFailsDoes
    <3> QED BY <1>6, <3>1, <3>2, <3>3, <3>4, <3>5, <3>6 DEF MergeStep
  <2> QED BY <1>1, <2>3, <2>4, <2>5, <2>6, <2>7, CalmStays
<1>7. ASSUME NEW t \in LibraryThreads, SweepBegins(t)
      PROVE  Calm'
  <2>1. /\ UNCHANGED <<row, folder, job, deleting>> /\ doing'[t].at = "sweep"
        /\ \A u \in LibraryThreads \ {t} : doing'[u] = doing[u]
    BY <1>1, <1>7, SweepBeginsDoes
  <2>2. doing'[TheWorker].at \notin {"stage", "complete"}
    BY <1>1, <2>1
  <2> QED BY <1>1, <1>3, <2>1, <2>2, CalmStays
<1>8. ASSUME NEW t \in LibraryThreads, Sweeps(t)
      PROVE  Calm'
  <2>1. /\ deleting' = {} /\ doing'[t].at \in {"rest", "sweep"}
        /\ \A u \in LibraryThreads \ {t} : doing'[u] = doing[u]
        /\ \/ UNCHANGED <<row, folder, job>>
           \/ \E p \in row : purge(p)
           \/ \E p \in row : folder' = [folder EXCEPT ![p].audio = <<>>] /\ UNCHANGED <<row, job>>
    BY <1>1, <1>3, <1>8, SweepsDoes, IdleIsDoing
  <2>2. doing'[TheWorker].at \notin {"stage", "complete"}
    BY <1>1, <2>1
  <2>3. CASE UNCHANGED <<row, folder, job>>
    BY <1>1, <1>3, <2>1, <2>2, <2>3, CalmStays
  <2>4. CASE \E p \in row : purge(p)
    <3>1. PICK p \in Parts : purge(p)
      BY <1>2, <2>4
    <3>2. /\ \A q \in Parts, s \in Stages : job'[q][s] # "running"
          /\ row' \subseteq row /\ \A q \in row' : folder'[q] = folder[q]
      BY <1>1, <1>3, <3>1, PurgeCalms
    <3> QED BY <1>1, <2>1, <2>2, <3>2, CalmStays
  <2>5. CASE \E p \in row : folder' = [folder EXCEPT ![p].audio = <<>>] /\ UNCHANGED <<row, job>>
    <3>1. PICK p \in row : folder' = [folder EXCEPT ![p].audio = <<>>] /\ UNCHANGED <<row, job>>
      BY <2>5
    <3>2. \A q \in Parts : folder'[q].marker = folder[q].marker
      BY <1>2, <3>1 DEF Folder
    <3> QED BY <1>1, <1>2, <1>3, <2>1, <2>2, <3>1, <3>2, CalmStays
  <2> QED BY <2>1, <2>3, <2>4, <2>5
<1>9. CASE MergesPending
  BY <1>1, <1>4, <1>9, MergesPendingAsks DEF Base
<1>10. CASE EnqueuesNext
  <2>1. /\ UNCHANGED <<row, folder, deleting>>
        /\ \/ job' = job /\ doing'[TheWorker] = Idle
           \/ /\ job' = job \/ job' = [job EXCEPT ![doing[TheWorker].first]["assemble"] = "pending"]
              /\ doing'[TheWorker].at = "pending"
    BY <1>1, <1>10, EnqueuesNextDoes DEF Memory
  <2>2. doing'[TheWorker].at \notin {"stage", "complete"}
    BY <2>1, IdleIsDoing
  <2>3. \A q \in Parts, s \in Stages : job'[q][s] # "running"
    BY <1>2, <1>3, <2>1
  <2> QED BY <1>1, <1>3, <2>1, <2>2, <2>3, CalmStays
<1> QED BY <1>5, <1>6, <1>7, <1>8, <1>9, <1>10

\* Steps of a stage.
LEMMA CalmStage ==
    ASSUME LibraryIndInv, Sole, Calm, MergesAlone,
           TakesJob \/ StageEndsBadly \/ StageEndsWell \/ Completes
    PROVE  Calm'
<1>1. Base /\ LibraryTypeOK /\ TheWorker \in LibraryThreads
  BY DEF LibraryIndInv, Base, LibraryThreads
<1>2. job \in [Parts -> [Stages -> JobStates]] /\ row \subseteq Parts /\ folder \in [Parts -> Folder]
  BY <1>1 DEF LibraryTypeOK
<1>3. CASE TakesJob
  <2>1. /\ UNCHANGED <<row, folder, deleting>> /\ doing[TheWorker].at = "rest"
        /\ doing'[TheWorker].at = "stage"
    BY <1>1, <1>3, TakesJobDoes DEF Memory
  <2>2. PICK p \in row, s \in Stages :
           /\ job' = [job EXCEPT ![p][s] = "running"]
           /\ doing'[TheWorker].first = p /\ doing'[TheWorker].stage = s
    BY <1>1, <1>3, TakesJobDoes
  <2>3. \A q \in Parts, r \in Stages : job'[q][r] = "running" => q = p /\ r = s
    BY <1>2, <2>1, <2>2 DEF Calm
  <2> QED BY <2>1, <2>2, <2>3 DEF Calm
<1>4. ASSUME doing[TheWorker].at \in {"stage", "complete"}
      PROVE  /\ doing[TheWorker].first \in row /\ doing[TheWorker].first \in Parts /\ deleting = {}
             /\ doing[TheWorker].stage \in Stages
             /\ \A q \in Parts, r \in Stages : job[q][r] = "running" =>
                   q = doing[TheWorker].first /\ r = doing[TheWorker].stage
  BY <1>1, <1>2, <1>4, Pieces DEF Calm
<1>5. CASE StageEndsBadly
  <2>1. doing[TheWorker].at = "stage" /\ doing'[TheWorker].at = "rest"
    BY <1>1, <1>5, StageEndsBadlyDoes, IdleIsDoing
  <2>2. /\ job' = [job EXCEPT ![doing[TheWorker].first][doing[TheWorker].stage] = "failed"]
        /\ UNCHANGED <<row, folder, deleting>>
    BY <1>1, <1>4, <1>5, <2>1, StageEndsBadlyDoes
  <2>3. \A q \in Parts, r \in Stages : job'[q][r] # "running"
    BY <1>2, <1>4, <2>1, <2>2
  <2> QED BY <1>1, <1>4, <2>1, <2>2, <2>3, CalmStays
<1>6. CASE StageEndsWell
  <2>1. /\ UNCHANGED <<row, job, deleting>> /\ doing[TheWorker].at = "stage"
        /\ doing'[TheWorker].at = "complete" /\ doing'[TheWorker].first = doing[TheWorker].first
        /\ doing'[TheWorker].stage = doing[TheWorker].stage
        /\ folder'[doing[TheWorker].first].marker = folder[doing[TheWorker].first].marker
        /\ \A m \in Parts \ {doing[TheWorker].first} : folder'[m] = folder[m]
    BY <1>1, <1>6, StageEndsWellDoes DEF Memory
  <2> QED BY <1>2, <1>4, <2>1 DEF Calm
<1>7. CASE Completes
  <2>1. /\ UNCHANGED <<row, folder, deleting>> /\ doing[TheWorker].at = "complete"
    BY <1>1, <1>7, CompletesDoes DEF Memory
  <2>2. /\ job' = [job EXCEPT ![doing[TheWorker].first][doing[TheWorker].stage] = "done"]
        /\ doing'[TheWorker].at = "next"
    BY <1>1, <1>4, <1>7, <2>1, CompletesDoes
  <2>3. \A q \in Parts, r \in Stages : job'[q][r] # "running"
    BY <1>2, <1>4, <2>1, <2>2
  <2> QED BY <1>1, <1>4, <2>1, <2>2, <2>3, CalmStays
<1> QED BY <1>3, <1>5, <1>6, <1>7

LEMMA CalmDies ==
    ASSUME LibraryIndInv, Calm, Dies
    PROVE  Calm'
<1>1. Base /\ LibraryTypeOK /\ TheWorker \in LibraryThreads
  BY DEF LibraryIndInv, Base, LibraryThreads
<1>2. /\ deleting' = {} /\ doing'[TheWorker].at = "rest" /\ row' \subseteq row
      /\ \A p \in row' : folder'[p] = folder[p]
  BY <1>1, DiesDoes, IdleIsDoing
<1>3. \A p \in Parts, s \in Stages : job'[p][s] # "running"
  <2>1. job \in [Parts -> [Stages -> JobStates]]
    BY <1>1 DEF LibraryTypeOK
  <2>2. job' = [p \in Parts |-> IF p \in {q \in Parts : folder[q].marker} THEN NoJobs
                                ELSE Moved(job, p, "running", "pending")[p]]
    BY DEF Dies
  <2> QED BY <2>1, <2>2 DEF NoJobs, Moved
<1> QED BY <1>1, <1>2, <1>3, CalmStays

\* The worker is at its stage and so nobody else is at anything.
LEMMA CalmStep ==
    ASSUME LibraryIndInv, FoundInv, Sole, Calm, MergesAlone, LibraryNext
    PROVE  Calm'
<1>1. LibraryTypeOK /\ Threads /\ TheWorker \in LibraryThreads /\ \A t \in Pressers : t \in LibraryThreads
  BY DEF LibraryIndInv, LibraryThreads
<1>2. ASSUME NEW t \in LibraryThreads, Turns(t), t # TheWorker
      PROVE  doing[TheWorker].at = "rest"
  BY <1>1, <1>2 DEF Turns, Sole, Free, Resting
<1>3. ASSUME NEW t \in LibraryThreads, Turns(t), doing[t].at \notin {"stage", "complete"}
      PROVE  doing[TheWorker].at \notin {"stage", "complete"}
  BY <1>2, <1>3
<1>4. ASSUME NEW t \in Pressers, Pressed(t)
      PROVE  Calm'
  <2>1. Turns(t) /\ doing[t].at = "rest"
    BY <1>1, <1>4, PressedTurns DEF Pressed, MergePressed, Assigned, RetryPressed, DeletePressed, Free
  <2> QED BY <1>1, <1>3, <1>4, <2>1, CalmAside
<1>5. ASSUME NEW t \in LibraryThreads, MergeStep(t)
      PROVE  Calm'
  <2>1. Turns(t) /\ doing[t].at \in MergeAt
    BY <1>1, <1>5, MergeTurns
    DEF MergeStep, WithdrawsSecond, Appends, Joins, Undoes, Aliases, Redoes, Removes, MergeFails,
        SnapshotFails, RestoreFails, MirrorFails, MergeAt
  <2> QED BY <1>3, <1>5, <2>1, CalmAside DEF MergeAt
<1>6. ASSUME NEW t \in LibraryThreads, SweepBegins(t) \/ Sweeps(t)
      PROVE  Calm'
  <2>1. Turns(t) /\ doing[t].at \in {"rest", "sweep"}
    BY <1>1, <1>6, SweepTurns DEF SweepBegins, Sweeps, Free
  <2> QED BY <1>3, <1>6, <2>1, CalmAside
<1>7. CASE MergesPending \/ EnqueuesNext
  <2>1. doing[TheWorker].at \notin {"stage", "complete"}
    BY <1>7 DEF MergesPending, EnqueuesNext
  <2> QED BY <1>7, <2>1, CalmAside
<1>8. CASE TakesJob \/ StageEndsBadly \/ StageEndsWell \/ Completes
  BY <1>8, CalmStage
<1>9. CASE Dies
  BY <1>9, CalmDies
<1> QED BY <1>4, <1>5, <1>6, <1>7, <1>8, <1>9 DEF LibraryNext, StageStep

\* When handlers, stages and sweeps come one after the other, whatever was not deleted is
\* found under the id it was recorded with (dao.resolve), and no sound is in a file twice:
\* through merges into merges, merges that fail or cannot be undone, retries, deletions,
\* sweeps and a crash anywhere.
THEOREM OneByOneNothingIsLost ==
    (\A q \in Quotas : q["overlap"] = 0) => (LibrarySpec => []LibraryInv)
<1> SUFFICES ASSUME \A q \in Quotas : q["overlap"] = 0
             PROVE  LibrarySpec => []LibraryInv
  OBVIOUS
<1> DEFINE All == LibraryIndInv /\ Sole /\ ("unheard" \notin flaws => FoundInv /\ Calm)
<1>1. LibraryInit => All
  <2> SUFFICES ASSUME LibraryInit PROVE All
    OBVIOUS
  <2>1. LibraryIndInv /\ FoundInv /\ Sole
    BY LibraryBegins, FoundBegins, IdleIsDoing DEF LibraryInit, Sole
  <2>2. Calm
    <3>1. /\ deleting = {} /\ doing = [t \in LibraryThreads |-> Idle] /\ row = Parts
          /\ TheWorker \in LibraryThreads
      BY DEF LibraryInit, LibraryThreads
    <3>2. PICK done \in SUBSET Parts :
       /\ folder = [p \in Parts |-> IF p \in done
              THEN [NoFolder EXCEPT !.audio = <<p>>, !.segments = <<p>>, !.transcript = <<p>>]
              ELSE [NoFolder EXCEPT !.audio = <<p>>]]
       /\ job = [p \in Parts |-> IF p \in done THEN [s \in Stages |-> "done"]
                                 ELSE [transcribe |-> "pending", assemble |-> "none"]]
      BY DEF LibraryInit
    <3>3. doing[TheWorker].at = "rest"
      BY <3>1, IdleIsDoing
    <3>4. \A p \in Parts : ~folder[p].marker
      BY <3>2 DEF NoFolder
    <3>5. \A p \in Parts, s \in Stages : job[p][s] # "running"
      <4>1. TAKE p \in Parts, s \in Stages
      <4>2. CASE p \in done
        BY <3>2, <4>2
      <4>3. CASE p \notin done
        <5>1. job[p] = [transcribe |-> "pending", assemble |-> "none"]
          BY <3>2, <4>3
        <5>2. s = "transcribe" \/ s = "assemble"
          BY DEF Stages
        <5>3. CASE s = "transcribe"
          BY <5>1, <5>3
        <5>4. CASE s = "assemble"
          BY <5>1, <5>4
        <5> QED BY <5>2, <5>3, <5>4
      <4> QED BY <4>2, <4>3
    <3> QED BY <3>1, <3>3, <3>4, <3>5 DEF Calm
  <2> QED BY <2>1, <2>2
<1>2. All /\ LibraryNext => All'
  <2> SUFFICES ASSUME All, LibraryNext PROVE All'
    OBVIOUS
  <2>1. MergesAlone /\ Sole'
    BY SoleStep
  <2>2. LibraryIndInv'
    BY <2>1, LibraryStep
  <2>3. ASSUME "unheard" \notin flaws'
        PROVE  (FoundInv /\ Calm)'
    <3>1. FoundInv /\ Calm
      BY <2>3, FlawsStay
    <3>2. MergesIntoKept
      BY <3>1, CalmMergesIntoKept DEF LibraryIndInv
    <3> QED BY <2>1, <2>3, <3>1, <3>2, FoundStep, CalmStep
  <2> QED BY <2>1, <2>2, <2>3
<1>3. All /\ UNCHANGED libraryVars => All'
  <2> SUFFICES ASSUME All, UNCHANGED libraryVars PROVE All'
    OBVIOUS
  <2>1. LibraryIndInv'
    BY LibraryStaysSo
  <2>2. Sole' /\ flaws' = flaws
    BY DEF libraryVars, Sole
  <2>3. ASSUME FoundInv /\ Calm PROVE (FoundInv /\ Calm)'
    BY <2>3, FoundStaysSo DEF libraryVars, Calm
  <2> QED BY <2>1, <2>2, <2>3
<1>4. All => LibraryInv
  BY FoundIsSound, WholeAtRest DEF LibraryInv, LibraryIndInv, FoundUnlessUnheard
<1> QED BY <1>1, <1>2, <1>3, <1>4, PTL DEF LibrarySpec
=============================================================================
