------------------------------- MODULE MCFit --------------------------------
(* A small window: a resumable job before the others in the queue, one with *)
(* two steps, and one like the rest of its kind. *)
EXTENDS Fit

OneKind == [j \in Job |-> "research"]
Needs == [j \in Job |-> CASE j = 3 -> 4 [] j = 4 -> 2 [] OTHER -> 1]
Priorities == [j \in Job |-> IF j = 3 THEN 1 ELSE 0]
TwoSteps == [j \in Job |-> IF j = 4 THEN <<5, 6>> ELSE <<>>]
=============================================================================
