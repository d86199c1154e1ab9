------------------------------- MODULE Writer -------------------------------
(***************************************************************************)
(* The files of one meeting's recording: a WAV for each track and one      *)
(* manifest (ChunkWriter, app/audio/writer.py), written chunk by chunk as  *)
(* app/audio/recorder.py hears, holds, loses a device, stops and carries   *)
(* on, with a crash between any two writes.                                *)
(*                                                                         *)
(* Time is counted in units of sound from the start of the recording: unit *)
(* i is what was heard then, and belongs at place i of the file; 0 is a    *)
(* unit of silence.  Where a chunk is cut is a free choice.  Pauses and    *)
(* the pre-roll are not here (see Recorder); the two tracks stop together. *)
(***************************************************************************)
EXTENDS Naturals, SequencesExt, FiniteSetsExt

CONSTANTS
    Tracks,       \* "me" and "them"
    RingUnits,    \* how many units the ring holds
    MaxTime,      \* bound: units of time
    Mishaps       \* how often each outside event may happen: one is chosen at the start

Kinds == {"hold", "lose", "stop", "crash", "torn"}

ASSUME MishapsAssumption == Mishaps \subseteq [Kinds -> Nat]
ASSUME UnitsAssumption == RingUnits \in Nat /\ MaxTime \in Nat /\ Tracks # {}

VARIABLES
    now,       \* units of time since the recording began
    mode,      \* what the recorder does with what it hears
    ended,     \* the time stored as the meeting's end
    track,     \* TrackState, the ring and the stream of each track
    closing,   \* the chunk being closed
    wav,       \* the samples in each file
    header,    \* how many of them its header tells of
    manifest,  \* the lines of the manifest
    promised,  \* units whose manifest line was synced
    chances,   \* what is left of the mishaps
    drifts     \* what has happened that moves sound in time: a hold, a crash, a tail the
               \* manifest does not tell of cut off, a gap at the very end

writerVars == <<now, mode, ended, track, closing, wav, header, manifest, promised,
                chances, drifts>>

disks == <<wav, header, manifest, promised>>

Unit == 0 .. MaxTime

Line == [track : Tracks, end : Nat]

\* A line that a crash cut, and whatever is written behind it in the same line.
Torn == [track |-> "torn", end |-> 0]

TrackState == [pending : Seq(Unit), gap : Nat, written : Nat, ring : Seq(Unit),
               lost : BOOLEAN, opened : BOOLEAN, missed : Nat]

Fresh == [pending |-> <<>>, gap |-> 0, written |-> 0, ring |-> <<>>,
          lost |-> FALSE, opened |-> FALSE, missed |-> 0]

NoChunk == [at |-> "none", track |-> "none", count |-> 0]

WriterTypeOK ==
    /\ now \in 0 .. MaxTime
    /\ mode \in {"writing", "holding", "stopping", "off"}
    /\ ended \in 0 .. MaxTime
    /\ track \in [Tracks -> TrackState]
    /\ closing = NoChunk \/ closing \in [at : {"data", "header", "line"},
                                         track : Tracks, count : Nat]
    /\ wav \in [Tracks -> Seq(Unit)]
    /\ header \in [Tracks -> Nat]
    /\ manifest \in Seq(Line \union {Torn})
    /\ promised \in [Tracks -> SUBSET Unit]
    /\ chances \in [Kinds -> Nat]
    /\ drifts \subseteq {"hold", "crash", "tail", "gap"}

WriterInit ==
    /\ now = 0
    /\ mode = "writing"
    /\ ended = 0
    /\ track = [t \in Tracks |-> Fresh]
    /\ closing = NoChunk
    /\ wav = [t \in Tracks |-> <<>>]
    /\ header = [t \in Tracks |-> 0]
    /\ manifest = <<>>
    /\ promised = [t \in Tracks |-> {}]
    /\ chances \in Mishaps
    /\ drifts = {}

Chance(k) == chances[k] > 0 /\ chances' = [chances EXCEPT ![k] = @ - 1]

Calm == closing = NoChunk

(***************************************************************************)
(* Sound.                                                                  *)
(***************************************************************************)
LastOf(s, n) == IF Len(s) <= n THEN s ELSE SubSeq(s, Len(s) - n + 1, Len(s))

HeardBy(ts) ==
    IF ts.lost THEN [ts EXCEPT !.missed = @ + 1]
    ELSE IF mode = "writing" THEN [ts EXCEPT !.pending = Append(@, now + 1)]
    ELSE [ts EXCEPT !.ring = LastOf(Append(@, now + 1), RingUnits), !.missed = @ + 1]

\* Both tracks hear the next unit of sound; when nothing records, time passes.
Hears1 ==
    /\ Calm /\ now < MaxTime /\ mode \in {"writing", "holding", "off"}
    /\ now' = now + 1
    /\ track' = IF mode = "off" THEN track ELSE [t \in Tracks |-> HeardBy(track[t])]
    /\ UNCHANGED <<mode, ended, closing, disks, chances, drifts>>

\* hold: the call seems over.  missed counts how long it lasts.
Holds ==
    /\ Calm /\ mode = "writing" /\ \A t \in Tracks : ~track[t].lost
    /\ Chance("hold")
    /\ mode' = "holding"
    /\ track' = [t \in Tracks |-> [track[t] EXCEPT !.ring = <<>>]]
    /\ UNCHANGED <<now, ended, closing, disks, drifts>>

\* release_hold: "Keep recording" writes what the ring holds; a rejoin writes silence.
Releases(keep) ==
    /\ Calm /\ mode = "holding"
    /\ mode' = "writing"
    /\ track' = [t \in Tracks |-> IF keep
           THEN [track[t] EXCEPT !.pending = @ \o track[t].ring, !.ring = <<>>, !.missed = 0]
           ELSE [track[t] EXCEPT !.gap = @ + track[t].missed, !.ring = <<>>, !.missed = 0]]
    /\ drifts' = drifts \union {"hold"}
    /\ UNCHANGED <<now, ended, closing, disks, chances>>

\* A device goes.  _reopen first writes what the track has.
Loses(t) ==
    /\ Calm /\ mode = "writing" /\ ~track[t].lost
    /\ track[t].pending = <<>>
    /\ Chance("lose")
    /\ track' = [track EXCEPT ![t].lost = TRUE]
    /\ UNCHANGED <<now, mode, ended, closing, disks, drifts>>

\* Mutant: the time without a device is not noted.
ReopensSilently(t) ==
    /\ Calm /\ track[t].lost
    /\ track' = [track EXCEPT ![t].lost = FALSE, ![t].missed = 0]
    /\ UNCHANGED <<now, mode, ended, closing, disks, chances, drifts>>

\* The stream is open again: the time without it is a gap.
Reopens(t) ==
    /\ Calm /\ track[t].lost
    /\ track' = [track EXCEPT ![t].lost = FALSE, ![t].missed = 0,
                              ![t].gap = @ + track[t].missed]
    /\ UNCHANGED <<now, mode, ended, closing, disks, chances, drifts>>

(***************************************************************************)
(* _close_chunk, one write after the other.                                *)
(***************************************************************************)
\* At a stop, all that waits is one chunk.
Cuts(t) ==
    /\ Calm /\ mode # "off"
    /\ \E n \in 1 .. Len(track[t].pending) :
          /\ mode = "stopping" => n = Len(track[t].pending)
          /\ closing' = [at |-> "data", track |-> t, count |-> n]
    /\ UNCHANGED <<now, mode, ended, track, disks, chances, drifts>>

\* What the file is once it is open: the bytes past what the manifest tells of are cut
\* off, and a file no line tells of is begun anew.
Opened(t) == IF track[t].opened THEN wav[t] ELSE SubSeq(wav[t], 1, track[t].written)

\* A header is rewritten with the first chunk, unless the file is new.
OpenedHeader ==
    [t \in Tracks |-> IF track[t].opened \/ track[t].written > 0 THEN header[t] ELSE 0]

Silence(n) == [i \in 1 .. n |-> 0]

Taken(t) == SubSeq(track[t].pending, 1, closing.count)

\* Mutant: the header first.
WritesHeaderBefore ==
    /\ closing.at = "data"
    /\ LET t == closing.track IN
       header' = [header EXCEPT ![t] = track[t].written + track[t].gap + closing.count]
    /\ closing' = [closing EXCEPT !.at = "header"]
    /\ UNCHANGED <<now, mode, ended, track, wav, manifest, promised, chances, drifts>>

\* The gap, as silence, and the samples; synced.
WritesData ==
    /\ closing.at = "data"
    /\ LET t == closing.track
           more == Silence(track[t].gap) \o Taken(t) IN
       /\ wav' = [u \in Tracks |-> Opened(u) \o IF u = t THEN more ELSE <<>>]
       /\ header' = OpenedHeader
       /\ track' = [u \in Tracks |-> [track[u] EXCEPT !.opened = TRUE,
              !.written = IF u = t THEN @ + Len(more) ELSE @,
              !.gap = IF u = t THEN 0 ELSE @]]
    /\ closing' = [closing EXCEPT !.at = "header"]
    /\ UNCHANGED <<now, mode, ended, manifest, promised, chances, drifts>>

\* _update_header, synced.
WritesHeader ==
    /\ closing.at = "header"
    /\ header' = [header EXCEPT ![closing.track] = track[closing.track].written]
    /\ closing' = [closing EXCEPT !.at = "line"]
    /\ UNCHANGED <<now, mode, ended, track, wav, manifest, promised, chances, drifts>>

\* A line behind a torn one is one line with it.
Lines(line) ==
    IF manifest # <<>> /\ Last(manifest) = Torn THEN manifest ELSE Append(manifest, line)

\* The manifest's line, synced: from now on the chunk is promised.
WritesLine ==
    /\ closing.at = "line"
    /\ LET t == closing.track IN
       /\ manifest' = Lines([track |-> t, end |-> track[t].written])
       /\ promised' = [promised EXCEPT ![t] = @ \union ToSet(Taken(t))]
       /\ track' = [track EXCEPT ![t].pending = SubSeq(@, closing.count + 1, Len(@))]
    /\ closing' = NoChunk
    /\ UNCHANGED <<now, mode, ended, wav, header, chances, drifts>>

(***************************************************************************)
(* The end, and what follows it.                                           *)
(***************************************************************************)
Stops ==
    /\ Calm /\ mode \in {"writing", "holding"}
    /\ Chance("stop")
    /\ mode' = "stopping"
    /\ drifts' = IF mode = "holding" THEN drifts \union {"hold"} ELSE drifts
    /\ UNCHANGED <<now, ended, track, closing, disks>>

\* close, and finish: the meeting ends now.  A gap nothing followed is not written.
Closes1 ==
    /\ Calm /\ mode = "stopping" /\ \A t \in Tracks : track[t].pending = <<>>
    /\ mode' = "off"
    /\ ended' = now
    /\ header' = [t \in Tracks |-> IF track[t].opened THEN track[t].written ELSE header[t]]
    /\ drifts' = IF \E t \in Tracks : track[t].lost \/ track[t].gap > 0
                 THEN drifts \union {"gap"} ELSE drifts
    /\ UNCHANGED <<now, track, closing, wav, manifest, promised, chances>>

\* Mutant: the first line of the track, not the last.
DescribedByFirst(t) ==
    LET mine == {l \in ToSet(manifest) : l.track = t} IN
    IF mine = {} THEN 0 ELSE Min({l.end : l \in mine})

\* What the lines tell of a track's file.
Described(t) == Max({0} \union {l.end : l \in {k \in ToSet(manifest) : k.track = t}})

\* The process dies: what was being written may be on disk, or part of it.  At the next
\* start the meeting ends where the longer header says (recover_orphans).
Crashes ==
    /\ mode # "off"
    /\ Chance("crash")
    /\ mode' = "off"
    /\ closing' = NoChunk
    /\ \E part \in BOOLEAN :
       LET t == closing.track IN
       /\ wav' = IF part /\ closing.at = "data"
                 THEN [u \in Tracks |-> Opened(u) \o
                          IF u = t THEN Silence(track[t].gap) \o Taken(t) ELSE <<>>]
                 ELSE wav
       /\ header' = IF ~part THEN header
                    ELSE IF closing.at = "data" THEN OpenedHeader
                    ELSE IF closing.at = "header"
                    THEN [header EXCEPT ![t] = track[t].written] ELSE header
       /\ \/ manifest' = IF part /\ closing.at = "line"
                         THEN Lines([track |-> t, end |-> track[t].written]) ELSE manifest
          \/ closing.at = "line" /\ chances["torn"] > 0 /\ manifest' = Lines(Torn)
    /\ ended' = Max({Min({header'[t], now}) : t \in Tracks})
    /\ track' = [t \in Tracks |-> Fresh]
    /\ drifts' = drifts \union {"crash"}
    /\ UNCHANGED <<now, promised>>

\* The same call is recorded on: the files carry on from the manifest, the time between
\* is a gap, and a track with nothing written begins with the other's length of silence.
Continues ==
    /\ mode = "off" /\ now < MaxTime
    /\ mode' = "writing"
    /\ LET soFar == Max({Described(t) : t \in Tracks}) IN
       track' = [t \in Tracks |-> [Fresh EXCEPT !.written = Described(t),
              !.gap = (now - ended) + IF Described(t) = 0 THEN soFar ELSE 0]]
    /\ drifts' = IF \E t \in Tracks : header[t] > Described(t)
                 THEN drifts \union {"tail"} ELSE drifts
    /\ UNCHANGED <<now, ended, closing, disks, chances>>

WriterNext ==
    \/ Hears1
    \/ Holds
    \/ \E keep \in BOOLEAN : Releases(keep)
    \/ \E t \in Tracks : Loses(t) \/ Reopens(t) \/ Cuts(t)
    \/ WritesData
    \/ WritesHeader
    \/ WritesLine
    \/ Stops
    \/ Closes1
    \/ Crashes
    \/ Continues

WriterSpec == WriterInit /\ [][WriterNext]_writerVars

(***************************************************************************)
(* Properties.                                                             *)
(***************************************************************************)
\* A header never tells of samples the file has not, so it plays at every moment, a crash
\* included: until a tail is cut off, whose header is rewritten with the next chunk only.
HeaderPlays == "tail" \notin drifts => \A t \in Tracks : header[t] <= Len(wav[t])

\* The files are what the code believes them to be, and play.
WriterInv == WriterTypeOK /\ HeaderPlays

\* What a synced manifest line told of stays on disk: crashes and carrying on included,
\* unless a crash tore a line.
PromiseKept ==
    \/ \E i \in 1 .. Len(manifest) : manifest[i] = Torn
    \/ \A t \in Tracks : promised[t] \subseteq ToSet(wav[t])

\* The file's timeline is the meeting's: what was heard is at the place of its time.
TimelineKept == \A t \in Tracks : \A i \in 1 .. Len(wav[t]) : wav[t][i] \in {0, i}

\* It is, through lost devices, stops and carrying on: without a hold, a crash or a gap
\* at the end.
TimelineKeptThroughGaps == drifts = {} => TimelineKept
=============================================================================
