------------------------------ MODULE FileLife ------------------------------
(***************************************************************************)
(* What a client of the transcription service may rely on: the life of a   *)
(* file job as GET /transcriptions/{id} shows it, and the request a press  *)
(* of cancel or delete makes of a running one.  One job runs at a time; a  *)
(* job that ended stays as it ended until it is retried or removed; what   *)
(* is cancelled or removed while it runs was asked for.                    *)
(***************************************************************************)
CONSTANT Files

VARIABLES
    life,  \* the state of each file job, "new" before it and "gone" after
    asked  \* what was asked of a running job

vars == <<life, asked>>

Asked == {"none", "cancel", "delete"}

Init ==
    /\ life = [f \in Files |-> "new"]
    /\ asked = [f \in Files |-> "none"]

Becomes(f, st) == life' = [life EXCEPT ![f] = st]

Quiet(f) == asked' = [asked EXCEPT ![f] = "none"]

Submit(f) == life[f] = "new" /\ Becomes(f, "pending") /\ UNCHANGED asked

Start(f) ==
    /\ life[f] = "pending"
    /\ \A g \in Files : life[g] # "running"
    /\ Becomes(f, "running")
    /\ UNCHANGED asked

\* A delete replaces a cancel, never the other way round.
Ask(f) ==
    /\ life[f] = "running"
    /\ \/ asked' = [asked EXCEPT ![f] = "delete"]
       \/ asked[f] = "none" /\ asked' = [asked EXCEPT ![f] = "cancel"]
    /\ UNCHANGED life

\* Preempted, or to be tried again.
GiveBack(f) == life[f] = "running" /\ Becomes(f, "pending") /\ UNCHANGED asked

End(f) ==
    /\ life[f] = "running"
    /\ \E st \in {"done", "failed"} : Becomes(f, st)
    /\ UNCHANGED asked

Cancel(f) ==
    /\ Becomes(f, "cancelled")
    /\ \/ life[f] = "pending" /\ Quiet(f)
       \/ life[f] = "running" /\ asked[f] # "none" /\ UNCHANGED asked

Forget(f) == Quiet(f) /\ UNCHANGED life

Retry(f) ==
    /\ life[f] \in {"failed", "cancelled"}
    /\ Becomes(f, "pending")
    /\ UNCHANGED asked

Remove(f) ==
    /\ \/ life[f] \in {"pending", "done", "failed", "cancelled"}
       \/ life[f] = "running" /\ asked[f] = "delete"
    /\ Becomes(f, "gone")
    /\ Quiet(f)

Restart ==
    /\ life' = [f \in Files |-> IF life[f] = "running" THEN "pending" ELSE life[f]]
    /\ asked' = [f \in Files |-> "none"]

Next ==
    \/ Restart
    \/ \E f \in Files :
          \/ Submit(f) \/ Start(f) \/ Ask(f) \/ GiveBack(f) \/ End(f)
          \/ Cancel(f) \/ Forget(f) \/ Retry(f) \/ Remove(f)

Spec == Init /\ [][Next]_vars
=============================================================================
