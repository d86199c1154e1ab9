----------------------------- MODULE MCCalendar -----------------------------
(***************************************************************************)
(* Calendar with two accounts and two sign-ins.                            *)
(***************************************************************************)
EXTENDS Calendar

Often(es) == [e \in Occasions |-> IF e \in DOMAIN es THEN es[e] ELSE 0]

\* Handlers beside a sync that is answered or not, but never refused.
Beside == Often([connect |-> 1, remove |-> 1, down |-> 1, beside |-> 1])
Switched == Often([visible |-> 1, sync |-> 1, remove |-> 1, invite |-> 1, down |-> 1, beside |-> 1])

\* One thing after the other, with every refusal there is.
Refusals == Often([connect |-> 1, sync |-> 1, revoke |-> 1, limit |-> 1, reject |-> 1])
Withdrawn == Often([connect |-> 1, scope |-> 1, odd |-> 1, invite |-> 1])

\* Sign-ins that are given up or taken up again, an account that comes back.
SigningIn == Often([connect |-> 2, cancel |-> 1, remove |-> 1, revoke |-> 1])

Usual == {Beside, Switched, Refusals, Withdrawn, SigningIn}

ClientRejected == {Often([connect |-> 1, reject |-> 1])}
=============================================================================
