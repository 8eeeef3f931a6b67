------------------------------ MODULE MCJobPage -------------------------------
(* One job that has yet to run, and one that has succeeded. *)
EXTENDS JobPage

Statuses == [j \in Job |-> IF j = First THEN "blocked" ELSE "succeeded"]
=============================================================================
