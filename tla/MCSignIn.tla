------------------------------ MODULE MCSignIn ------------------------------
(***************************************************************************)
(* What may happen besides a sign-in, by scenario.                         *)
(***************************************************************************)
EXTENDS SignIn

Of(es) == [e \in Troubles |-> IF e \in DOMAIN es THEN es[e] ELSE 0]

Days == {
    \* One press: the login ends of itself, the CLI does not say, the link is late.
    Of([press |-> 1, ends |-> 1, mute |-> 1, slow |-> 1]),
    \* The login cannot be started, and is pressed for once more.
    Of([press |-> 2, refused |-> 1]),
    \* The previous login is replaced, and may outlive its stop.
    Of([press |-> 2, ends |-> 1]), Of([press |-> 2, outlives |-> 1]),
    \* The user changes their mind.
    Of([press |-> 1, cancel |-> 1, outlives |-> 1]),
    \* Another page looks while the user signs out, or the login outlives that.
    Of([press |-> 1, out |-> 1, look |-> 1]), Of([press |-> 1, out |-> 1, outlives |-> 1]),
    \* Nobody was signed in, and the command hangs.
    Of([out |-> 1, hangs |-> 1]),
    Of([press |-> 1, code |-> 1, ends |-> 1]) }

\* Nothing but a sign-in, and its answers.
JustOne == {Of([press |-> 1])}

\* The sign-out's command does its work and is not waited for any longer.
Hung == {Of([press |-> 1, look |-> 1, out |-> 1, hangs |-> 1])}

\* Cancelled, and pressed for at once.
AtOnce == {Of([press |-> 2, cancel |-> 1])}

\* The login ends while its code is tried, and the CLI does not say.
CodeUnheard == {Of([press |-> 1, code |-> 1, mute |-> 1])}

=============================================================================
