----------------------------- MODULE MCLibrary -----------------------------
(***************************************************************************)
(* Library with three recordings.                                          *)
(***************************************************************************)
EXTENDS Library

CONSTANT h1

Of(es) == [e \in Happenings |-> IF e \in DOMAIN es THEN es[e] ELSE 0]

\* Merges that fail or find a folder held, with the worker in between.
Merging == Of([merge |-> 2, assign |-> 1, full |-> 1, held |-> 1, retry |-> 1])
Waiting == Of([assign |-> 2, full |-> 1, retry |-> 1, delete |-> 1])
Sweeping == Of([merge |-> 1, strip |-> 1, purge |-> 1, retry |-> 1, delete |-> 1])
Dying == Of([merge |-> 2, delete |-> 1, held |-> 1, crash |-> 2])

\* Merges that cannot read or write what they have to, and what the policy makes of it.
Failing == Of([merge |-> 2, full |-> 1, error |-> 1, delete |-> 1])
Stripping == Of([merge |-> 2, error |-> 1, strip |-> 1])

\* A deletion and a sweep while the worker is at a stage.
Beside == Of([delete |-> 1, retry |-> 1, strip |-> 1, overlap |-> 1])

Days == {Merging, Waiting, Sweeping, Dying, Failing, Stripping, Beside}

\* The same recording merged into twice.
MergeTwice == {Of([merge |-> 2])}

MergeAndDie == {Of([merge |-> 2, crash |-> 1])}
SweepMeanwhile == {Of([merge |-> 1, strip |-> 1, overlap |-> 1])}

\* The policy strips what is not transcribed as a whole.
StripTwice == {Of([merge |-> 2, strip |-> 1])}
StripDie == {Of([merge |-> 1, strip |-> 1, crash |-> 1])}
=============================================================================
