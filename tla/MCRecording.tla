---------------------------- MODULE MCRecording ----------------------------
(***************************************************************************)
(* Recording with two meetings and two apps.  Each budget is a scenario.   *)
(***************************************************************************)
EXTENDS Recording, TLC

CONSTANTS m1, m2, zoom, teams, h1, h2

Quota(es) == [e \in Events \union Circumstances |-> IF e \in DOMAIN es THEN es[e] ELSE 0]

Symmetry == Permutations(Meetings) \union Permutations(Apps)

\* A day of calls: hang-ups, rejoins, hand-overs, a crash.
Calls == Quota([start |-> 1, stop |-> 1, mic |-> 3, keep |-> 1, crash |-> 1, worker |-> 1])

\* What a user may press besides.
Presses == Quota([start |-> 1, tray |-> 1, stop |-> 1, pause |-> 1, discard |-> 1,
                  mic |-> 1, mode |-> 1, worker |-> 1])

\* Devices that are not there, or go.
Devices == Quota([start |-> 2, tray |-> 1, stop |-> 1, noDevice |-> 1, device |-> 1, mic |-> 1])
HalfDevices == Quota([tray |-> 1, stop |-> 1, noDevice |-> 1, mic |-> 1, half |-> 1, overlap |-> 1])

\* Two threads at once.
Races == Quota([start |-> 1, stop |-> 1, mic |-> 2, keep |-> 1, worker |-> 1, overlap |-> 1])

Scenarios == {Calls, Presses, Devices, HalfDevices, Races}

\* One event after the other, for what the words of the code say.
OneCall == {Quota([mic |-> 1])}
PauseAndKeep == {Quota([start |-> 1, mic |-> 2, pause |-> 1, keep |-> 1])}
NotAMeeting == {Quota([start |-> 1, discard |-> 1, worker |-> 1])}
StopAndStart == {Quota([start |-> 2, stop |-> 1, mic |-> 1, hasty |-> 1])}
=============================================================================
