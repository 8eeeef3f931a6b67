----------------------------- MODULE Dispatcher -----------------------------
(***************************************************************************)
(* internal/dispatch: one run of a job that MarkRunning has just marked,   *)
(* and the kill switch.                                                     *)
(*                                                                         *)
(* A goroutine that executes RunJob registers its context's cancel func    *)
(* under the job's id, starts the claude subprocess, records the outcome   *)
(* and deletes the registration.  Halt cancels what is registered.          *)
(*                                                                         *)
(* The subprocess (internal/runner) ends with a result or without one, as  *)
(* it likes; a run whose context is cancelled always ends without one:      *)
(* Start fails on a cancelled context, and Run looks at it again after      *)
(* Wait.  What a run costs, and hence whether it was cut off at its budget  *)
(* or refused for its cumulative spend, is left open here.                  *)
(***************************************************************************)
EXTENDS JobQueue

CONSTANT None   \* no registration

ASSUME NoneAssumption == None \notin Proc

VARIABLES
    halted,      \* Dispatcher.halted
    running,     \* Dispatcher.running: whose cancel func each job id maps to
    cancelled,   \* runs whose context is cancelled
    shared       \* history: runs that had another run of the same job beside them

dispVars == <<halted, running, cancelled, shared>>

DispatcherTypeOK ==
    /\ halted \in BOOLEAN
    /\ running \in [JobId -> Proc \cup {None}]
    /\ cancelled \in SUBSET Proc
    /\ shared \in SUBSET Proc

DispatcherInit ==
    /\ halted = FALSE
    /\ running = [j \in JobId |-> None]
    /\ cancelled = {}
    /\ shared = {}

Registered == {p \in Proc : \E j \in JobId : running[j] = p}

(* The other runs of the same job, past their registration. *)
Rivals(p) ==
    {q \in Proc \ {p} : pc[q] \in RunLabel /\ target[q] = target[p]}

-----------------------------------------------------------------------------

(* Bug: the runs in flight are left alone. *)
Halt_FlagOnly ==
    /\ halted' = TRUE
    /\ UNCHANGED <<running, cancelled, shared, procVars, tickVars, tableVars>>

(* Halt, under the mutex. *)
Halt ==
    /\ halted' = TRUE
    /\ cancelled' = cancelled \cup Registered
    /\ UNCHANGED <<running, shared, procVars, tickVars, tableVars>>

(* Resume restores nothing: a cancelled context stays cancelled. *)
Resume ==
    /\ halted' = FALSE
    /\ UNCHANGED <<running, cancelled, shared, procVars, tickVars, tableVars>>

(* RunJob refuses to start while halted: the job goes from running to       *)
(* failed, and nothing was registered. *)
RefuseHalted(p) ==
    /\ pc[p] = "register"
    /\ halted
    /\ Enter(p, "finishHalted", target[p], "failed")
    /\ UNCHANGED <<dispVars, tickVars, tableVars>>

(* Bug: the refused run deletes a registration as if it had made one. *)
FinishHalted_Unregisters(p) ==
    /\ pc[p] = "finishHalted"
    /\ UpdateStatus(target[p], verdict[p])
    /\ running' = [running EXCEPT ![target[p]] = None]
    /\ Return(p)
    /\ UNCHANGED <<halted, cancelled, shared>>

(* The refused run has no registration to delete. *)
FinishHalted(p) ==
    /\ pc[p] = "finishHalted"
    /\ UpdateStatus(target[p], verdict[p])
    /\ Return(p)
    /\ UNCHANGED dispVars

(* Bug: the kill switch is not looked at under the mutex. *)
Register_Unchecked(p) ==
    /\ pc[p] = "register"
    /\ running' = [running EXCEPT ![target[p]] = p]
    /\ cancelled' = cancelled \ {p}
    /\ shared' = IF Rivals(p) = {} THEN shared \ {p} ELSE shared \cup Rivals(p) \cup {p}
    /\ Goto(p, "check")
    /\ UNCHANGED <<halted, tickVars, tableVars>>

(* Otherwise, under the same mutex, the run is registered, in place of any  *)
(* other run of this job. *)
Register(p) ==
    /\ pc[p] = "register"
    /\ ~halted
    /\ running' = [running EXCEPT ![target[p]] = p]
    /\ cancelled' = cancelled \ {p}
    /\ shared' = IF Rivals(p) = {} THEN shared \ {p} ELSE shared \cup Rivals(p) \cup {p}
    /\ Goto(p, "check")
    /\ UNCHANGED <<halted, tickVars, tableVars>>

(* The job's cumulative spend already meets the user's cap, *)
RefuseExhausted(p) ==
    /\ pc[p] = "check"
    /\ Enter(p, "finishStatus", target[p], "failed")
    /\ UNCHANGED <<dispVars, tickVars, tableVars>>

(* or the context was cancelled before the subprocess could start, *)
StartFails(p) ==
    /\ pc[p] = "check"
    /\ p \in cancelled
    /\ Enter(p, "finishStatus", target[p], "failed")
    /\ UNCHANGED <<dispVars, tickVars, tableVars>>

(* or the subprocess starts. *)
StartRun(p) ==
    /\ pc[p] = "check"
    /\ p \notin cancelled
    /\ Goto(p, "exec")
    /\ UNCHANGED <<dispVars, tickVars, tableVars>>

(* The subprocess ends without a result: killed, or gone wrong. *)
RunError(p) ==
    /\ pc[p] = "exec"
    /\ Enter(p, "finishStatus", target[p], "failed")
    /\ UNCHANGED <<dispVars, tickVars, tableVars>>

(* It ends with a result: success, an error the model reports, or a run cut *)
(* off at its budget.  Every result of the claude CLI names its session. *)
RunResult(p) ==
    /\ pc[p] = "exec"
    /\ p \notin cancelled
    /\ \E s \in {"succeeded", "failed", "paused_budget"} :
          Enter(p, "finishSession", target[p], s)
    /\ UNCHANGED <<dispVars, tickVars, tableVars>>

(* The deferred function of RunJob: whoever is registered under the job's   *)
(* id is deleted. *)
Unregister(p) ==
    /\ pc[p] = "unregister"
    /\ running' = [running EXCEPT ![target[p]] = None]
    /\ cancelled' = cancelled \ {p}
    /\ shared' = shared \ {p}
    /\ Return(p)
    /\ UNCHANGED <<halted, tableVars>>
=============================================================================
