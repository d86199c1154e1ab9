------------------------------ MODULE MCWriter ------------------------------
(***************************************************************************)
(* Writer with both tracks.                                                *)
(***************************************************************************)
EXTENDS Writer

Times(es) == [k \in Kinds |-> IF k \in DOMAIN es THEN es[k] ELSE 0]

Days == {Times([lose |-> 2, stop |-> 1]),
         Times([stop |-> 2]),
         Times([hold |-> 1, stop |-> 1]),
         Times([crash |-> 2, torn |-> 1])}

OneHold == {Times([hold |-> 1])}
=============================================================================
