------------------------------ MODULE MCSpend -------------------------------
(* Values for the constants of Spend that a .cfg cannot write. *)
EXTENDS Spend

(* Caps below, at and above the user's. *)
Caps == 1 .. UserCap + 1
=============================================================================
