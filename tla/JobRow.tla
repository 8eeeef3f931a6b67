------------------------------- MODULE JobRow --------------------------------
(***************************************************************************)
(* A job as its clients see it: its row, and what the daemon and its other  *)
(* clients may do to it, one write at a time.                               *)
(***************************************************************************)

CONSTANTS
    Job,
    InitialStatus   \* what the jobs are when the client comes

Terminal == {"succeeded", "failed", "cancelled", "promoted"}
Dispatchable == {"queued", "paused_budget", "deferred_oversized"}
Status == Terminal \cup Dispatchable \cup {"blocked", "running"}

ASSUME StatusAssumption == InitialStatus \in [Job -> Status \ {"running"}]

VARIABLES
    status, inRun   \* the rows, and the jobs whose subprocess is running

rowVars == <<status, inRun>>

RowInit == status = InitialStatus /\ inRun = {}

(* What the daemon does to a row.  A run's outcome is written whatever      *)
(* became of the row meanwhile. *)
Sweep(j) ==
    /\ status[j] = "blocked"
    /\ \E s \in {"queued", "cancelled"} : status' = [status EXCEPT ![j] = s]
    /\ UNCHANGED inRun

Divert(j) ==
    /\ status[j] \in Dispatchable
    /\ \E s \in {"deferred_oversized", "promoted"} : status' = [status EXCEPT ![j] = s]
    /\ UNCHANGED inRun

MarkRunning(j) ==
    /\ status[j] \in Dispatchable
    /\ status' = [status EXCEPT ![j] = "running"]
    /\ inRun' = inRun \cup {j}

Finish(j) ==
    /\ j \in inRun
    /\ \E s \in {"succeeded", "failed", "paused_budget"} : status' = [status EXCEPT ![j] = s]
    /\ inRun' = inRun \ {j}

CancelJob(j) ==
    /\ status[j] \notin Terminal
    /\ status' = [status EXCEPT ![j] = "cancelled"]
    /\ UNCHANGED inRun

(* Without a client's doing. *)
Work(j) == Sweep(j) \/ Divert(j) \/ MarkRunning(j) \/ Finish(j)
=============================================================================
