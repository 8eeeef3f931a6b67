------------------------------ MODULE MCPacing ------------------------------
(* Values for the constants of Pacing that a .cfg cannot write. *)
EXTENDS Pacing, TLC

(* Three minutes to a day; the first is a minute short, the second long. *)
Days == 0 :> 0 @@ 1 :> 2 @@ 2 :> 6

(* Reserved on Sunday from minute 2 until minute 1 of the next day. *)
night == [days |-> {0}, start |-> 2, end |-> 1]

on == [enabled |-> TRUE, target |-> 1, reserved |-> {night}]
off == [enabled |-> FALSE, target |-> 2, reserved |-> {}]
open == [enabled |-> TRUE, target |-> 2, reserved |-> {}]

OnOrOff == {on, off}
Open == {open}
=============================================================================
