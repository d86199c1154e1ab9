----------------------------- MODULE MCUpdates -----------------------------
(***************************************************************************)
(* Updates with three versions, the first of them installed.               *)
(***************************************************************************)
EXTENDS Updates

Of(es) == [e \in Troubles |-> IF e \in DOMAIN es THEN es[e] ELSE 0]

Build(v, e) == [version |-> v, edition |-> e, fits |-> TRUE, critical |-> FALSE, floor |-> 0]
HeldBack(v) == [Build(v, 1) EXCEPT !.fits = FALSE]
Critical(v) == [Build(v, 1) EXCEPT !.critical = TRUE]
Floor(v) == [Build(v, 1) EXCEPT !.floor = v]

\* The second version is built again, then a third comes: everything fails once.
Rebuilt == <<{Build(2, 1)}, {Build(2, 2)}, {Build(2, 2), Build(3, 1)}>>
Failing == [releases |-> Rebuilt, auto |-> TRUE,
            quota |-> Of([drop |-> 1, refuse |-> 3, crash |-> 1, held |-> 1])]

\* The user quits, presses, calls and records meanwhile.
Using == [releases |-> Rebuilt, auto |-> TRUE,
          quota |-> Of([quit |-> 1, press |-> 1, record |-> 2, disturb |-> 1, refuse |-> 1])]

\* The beta is turned off again, one version reaching this copy later than another.
Leaving == [releases |-> <<{Build(2, 1), HeldBack(3)}, {Build(2, 1), Build(3, 1)}, {Build(2, 1)}>>,
            auto |-> TRUE, quota |-> Of([refuse |-> 1, record |-> 1])]

\* Nothing installs by itself but what must.
Forced == [releases |-> <<{Build(2, 1)}, {Build(2, 1), Critical(3)}>>, auto |-> FALSE,
           quota |-> Of([record |-> 1, disturb |-> 1, crash |-> 1, press |-> 1, refuse |-> 2,
                         unwritten |-> 1])]
Supported == [Forced EXCEPT !.releases = <<{HeldBack(2)}, {HeldBack(2), Floor(3)}>>]

Days == {Failing, Using, Leaving, Forced, Supported}

\* The same, the installer of the beta starting while the older one is downloaded, and
\* then pressed before the start after has forgotten it.
LeavingAtOnce == {[Leaving EXCEPT !.quota.press = 1]}

\* "Install now" while a recording is paused.
Pausing == {[releases |-> <<{Build(2, 1)}>>, auto |-> FALSE,
             quota |-> Of([record |-> 2, press |-> 1])]}

\* A version that waits for the user becomes one that must be installed.
LateFloor == {[releases |-> <<{Build(2, 1)}, {Floor(2)}>>, auto |-> FALSE, quota |-> Of(<<>>)]}

\* One version, and one thing that goes wrong: its part cannot be renamed, the marker
\* not be written, or what was written of it ends in a crash between failed Setups.
One == [releases |-> <<{Build(2, 1)}>>, auto |-> TRUE, quota |-> Of(<<>>)]
PartIsHeld == {[One EXCEPT !.quota.held = 1]}
MarkerFails == {[One EXCEPT !.releases = <<{Critical(2)}>>, !.quota.unwritten = 1]}
MarkerIsTorn == {[One EXCEPT !.quota.crash = 1, !.quota.refuse = 3]}
=============================================================================
