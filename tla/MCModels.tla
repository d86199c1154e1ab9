------------------------------- MODULE MCModels -------------------------------
(***************************************************************************)
(* Two models of three files: two with a SHA-256, of which the next        *)
(* revision has one at the same size and one shorter.                      *)
(***************************************************************************)
EXTENDS Models

TwoRoles == <<"hebrew", "other">>
Listing == <<"config.json", "model.bin", "tokenizer.json">>
Weights == {"model.bin", "tokenizer.json"}
Parts == {"config.json", "model.bin"}

Sizes == <<[f \in ToSet(Listing) |-> IF f = "config.json" THEN 1 ELSE 2],
           [f \in ToSet(Listing) |-> IF f = "model.bin" THEN 2 ELSE 1]>>

Of(es) == [e \in Troubles |-> IF e \in DOMAIN es THEN es[e] ELSE 0]

\* One build, and then the next, each with everything that may go wrong.
Broken == [room |-> 20, others |-> 0,
           quota |-> Of([cancel |-> 2, drop |-> 2, short |-> 1, again |-> 1, crash |-> 1])]
Upgraded == [room |-> 20, others |-> 0,
             quota |-> Of([cancel |-> 1, drop |-> 1, short |-> 1, again |-> 1, build |-> 1])]

\* The drive fills meanwhile.
Full == [room |-> 20, others |-> 0, quota |-> Of([fill |-> 2, cancel |-> 1, build |-> 1])]

Days == {Broken, Upgraded, Full}

\* A drive with room for everything and what must stay free, and no more.
Tight == {[room |-> 11, others |-> 0, quota |-> Of([drop |-> 1, crash |-> 1])]}

\* Cancel, and nothing else.
OneCancel == {[room |-> 20, others |-> 0, quota |-> Of([cancel |-> 1])]}

\* An older build is installed again.
GoneBack == {[room |-> 20, others |-> 0, quota |-> Of([build |-> 2, drop |-> 1])]}
===============================================================================
