----------------------------- MODULE MCPipeline -----------------------------
(***************************************************************************)
(* Pipeline on one or two meetings.  Each budget names how often every     *)
(* kind of outside event may happen in a run.                              *)
(***************************************************************************)
EXTENDS Pipeline

CONSTANTS m1, m2

Once(es) == [e \in Events |-> IF e \in es THEN 1 ELSE 0]

\* Everything but a retry, which makes two more presses meaningful: see Presses.
Disturbed == Once(Events \ {"retry"})

Presses == Once({"retry", "stop", "defer", "delete"})
StopAndRetry == Once({"retry", "stop"})
Interrupted == Once({"recording", "defer", "stop"})
Removals == Once({"delete", "crash", "stop"})
DeleteAndCrash == Once({"delete", "crash"})
OneDelete == Once({"delete"})
OneRetry == Once({"retry"})
=============================================================================
