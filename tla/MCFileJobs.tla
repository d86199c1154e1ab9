----------------------------- MODULE MCFileJobs -----------------------------
(***************************************************************************)
(* FileJobs on two files.  Each budget names how often every kind of       *)
(* outside event may happen in a run.                                      *)
(***************************************************************************)
EXTENDS FileJobs

CONSTANTS f1, f2

Once(es) == [e \in Events |-> IF e \in es THEN 1 ELSE 0]

Disturbed == Once({"retry", "recording", "crash"})
Unattended == Once({"recording", "held"})
Removals == Once({"retry", "crash", "held"})
OneHeld == Once({"held"})
=============================================================================
