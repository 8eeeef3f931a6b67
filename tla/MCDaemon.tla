------------------------------ MODULE MCDaemon ------------------------------
(* Values for the constants of Daemon that a .cfg cannot write. *)
EXTENDS DaemonOrder, TLC

plain == [steps |-> <<>>, resumable |-> FALSE]
resumable == [steps |-> <<>>, resumable |-> TRUE]
stepped == [steps |-> <<"prompt", "prompt">>, resumable |-> FALSE]
blankStep == [steps |-> <<"prompt", "blank">>, resumable |-> FALSE]

(* An empty database. *)
NoInitialJobs == <<>>

(* A job divided into two steps, and one that waits for it. *)
ChainAndDependent ==
    <<[deps |-> <<>>, job |-> stepped], [deps |-> <<1>>, job |-> plain]>>

(* The same, the one that waits having a second step that is refused. *)
ChainAndBlankStep ==
    <<[deps |-> <<>>, job |-> stepped], [deps |-> <<1>>, job |-> blankStep]>>

Chain == <<[deps |-> <<>>, job |-> stepped]>>

OneJob == <<[deps |-> <<>>, job |-> resumable]>>

PlainTemplates == {plain}

SamePriority == [j \in JobId |-> 0]

Symmetry == Permutations(Clients)
=============================================================================
