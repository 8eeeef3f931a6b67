------------------------------- MODULE Spend --------------------------------
(***************************************************************************)
(* What one job may spend: the cap the scheduler tunes (queue.CapBudget),   *)
(* the cap the user set, which RunJob holds against every attempt's spend,  *)
(* and the ledger of what the attempts reported (internal/budget).          *)
(*                                                                         *)
(* The job is resumable and its user set a cap; without one nothing is      *)
(* checked.  Amounts are multiples of the smallest cap the scheduler ever   *)
(* computes.  The lifecycle is that of JobQueue and Dispatcher, down to     *)
(* what reads or writes money; as there, each action is one statement, and  *)
(* nothing keeps two dispatches of the job apart.  The kill switch, which   *)
(* costs nothing, is left out.                                              *)
(*                                                                         *)
(* The claude CLI is external: given --max-budget-usd it spends anything    *)
(* up to that cap and the Excess of the turn that crosses it, and reports   *)
(* it, or fails and reports nothing.                                        *)
(***************************************************************************)
EXTENDS Naturals

CONSTANTS
    Clients,      \* goroutines of manual dispatches
    Sched,        \* the scheduler loop
    UserCap,      \* user_max_budget_usd
    Headroom,     \* the caps the scheduler may compute from what a window has left
    Excess,       \* what a run may spend beyond the cap it was given
    MaxAttempts,  \* bound: attempts
    MaxFaults     \* bound: failed statements and restarts

ASSUME SpendSchedAssumption == Sched \notin Clients
ASSUME UserCapAssumption == UserCap \in Nat \ {0}
ASSUME HeadroomAssumption == Headroom \subseteq Nat \ {0}
ASSUME ExcessAssumption == Excess \in Nat

Runs == Clients \cup {Sched}

Status == {"queued", "running", "paused_budget", "deferred_oversized",
           "succeeded", "failed", "cancelled"}
Terminal == {"succeeded", "failed", "cancelled"}
Dispatchable == {"queued", "paused_budget", "deferred_oversized"}

(* What a run may end with. *)
Outcome == {"succeeded", "failed", "paused_budget"}

Label == {"idle", "cap", "defer", "dispatch", "mark", "check", "exec", "record", "finish"}

VARIABLES
    status,     \* jobs.status
    cap,        \* jobs.max_budget_usd
    ledger,     \* JobCumulativeCost: the sum of the job's usage entries
    pc,         \* the next statement of each goroutine
    fit,        \* Sched: the cap it is about to write
    allowed,    \* the max_budget_usd of the row each goroutine has read
    bill,       \* what each goroutine's run costs and is not recorded yet
    outcome,    \* the status each goroutine will finish with
    paid,       \* history: what all runs of the job cost
    attempts,   \* history: the subprocesses started for it
    orderly,    \* history: no stale status was written, no entry lost
    faults

vars == <<status, cap, ledger, pc, fit, allowed, bill, outcome, paid, attempts,
          orderly, faults>>

TypeOK ==
    /\ status \in Status
    /\ cap \in Nat
    /\ ledger \in Nat
    /\ pc \in [Runs -> Label]
    /\ fit \in Nat
    /\ allowed \in [Runs -> Nat]
    /\ bill \in [Runs -> Nat]
    /\ outcome \in [Runs -> Outcome]
    /\ paid \in Nat
    /\ attempts \in Nat
    /\ orderly \in BOOLEAN
    /\ faults \in Nat

(* CreateJob sets both caps to what the user asked for. *)
Init ==
    /\ status = "queued"
    /\ cap = UserCap
    /\ ledger = 0
    /\ pc = [p \in Runs |-> "idle"]
    /\ fit = UserCap
    /\ allowed = [p \in Runs |-> UserCap]
    /\ bill = [p \in Runs |-> 0]
    /\ outcome = [p \in Runs |-> "failed"]
    /\ paid = 0
    /\ attempts = 0
    /\ orderly = TRUE
    /\ faults = 0

(* An attempt lasts from its row being marked running to its outcome. *)
Attempting == {p \in Runs : pc[p] \in {"check", "exec", "record", "finish"}}

Goto(p, l) == pc' = [pc EXCEPT ![p] = l]

-----------------------------------------------------------------------------

(* Bug: the scheduler loosens the user's cap. *)
Clamp_None(usdCap) == usdCap

(* What CapBudget makes of the cap the scheduler computed. *)
Clamp(usdCap) == IF UserCap < usdCap THEN UserCap ELSE usdCap

(* CapBudget reads the job, which is not terminal, *)
CapRead ==
    /\ pc[Sched] = "idle"
    /\ status \notin Terminal
    /\ \E usdCap \in Headroom : fit' = Clamp(usdCap)
    /\ Goto(Sched, "cap")
    /\ UNCHANGED <<status, cap, ledger, allowed, bill, outcome, paid, attempts,
                   orderly, faults>>

(* and writes its cap, for the coming dispatch and all that follow. *)
CapWrite ==
    /\ pc[Sched] = "cap"
    /\ cap' = fit
    /\ Goto(Sched, "dispatch")
    /\ UNCHANGED <<status, ledger, fit, allowed, bill, outcome, paid, attempts,
                   orderly, faults>>

(* DeferOversized likewise. *)
DeferRead ==
    /\ pc[Sched] = "idle"
    /\ status \notin Terminal
    /\ Goto(Sched, "defer")
    /\ UNCHANGED <<status, cap, ledger, fit, allowed, bill, outcome, paid, attempts,
                   orderly, faults>>

DeferWrite ==
    /\ pc[Sched] = "defer"
    /\ status' = "deferred_oversized"
    /\ orderly' = (orderly /\ status \in Dispatchable)
    /\ Goto(Sched, "idle")
    /\ UNCHANGED <<cap, ledger, fit, allowed, bill, outcome, paid, attempts, faults>>

(* Cancel, by any user; whether its write is late makes no difference here. *)
Cancel ==
    /\ status' = "cancelled"
    /\ UNCHANGED <<cap, ledger, pc, fit, allowed, bill, outcome, paid, attempts,
                   orderly, faults>>

(* MarkRunning reads the job, with its cap.  The scheduler comes here from  *)
(* CapBudget, or straight away with a job that fits as it is. *)
MarkRead(p) ==
    /\ pc[p] \in {"idle", "dispatch"}
    /\ status \in Dispatchable
    /\ allowed' = [allowed EXCEPT ![p] = cap]
    /\ Goto(p, "mark")
    /\ UNCHANGED <<status, cap, ledger, fit, bill, outcome, paid, attempts, orderly,
                   faults>>

(* A job that is not dispatchable any more is let go. *)
MarkRefused ==
    /\ pc[Sched] = "dispatch"
    /\ status \notin Dispatchable
    /\ Goto(Sched, "idle")
    /\ UNCHANGED <<status, cap, ledger, fit, allowed, bill, outcome, paid, attempts,
                   orderly, faults>>

MarkWrite(p) ==
    /\ pc[p] = "mark"
    /\ status' = "running"
    /\ orderly' = (orderly /\ status \in Dispatchable)
    /\ Goto(p, "check")
    /\ UNCHANGED <<cap, ledger, fit, allowed, bill, outcome, paid, attempts, faults>>

-----------------------------------------------------------------------------

(* Bug: what an attempt may spend is all that is looked at. *)
Exhausted_Never == FALSE

(* RunJob's check: what is recorded of all attempts meets the user's cap. *)
Exhausted == ledger >= UserCap

Refuse(p) ==
    /\ pc[p] = "check"
    /\ Exhausted
    /\ outcome' = [outcome EXCEPT ![p] = "failed"]
    /\ Goto(p, "finish")
    /\ UNCHANGED <<status, cap, ledger, fit, allowed, bill, paid, attempts, orderly,
                   faults>>

(* The subprocess starts.  What it will cost is chosen, and paid, here. *)
Start(p) ==
    /\ pc[p] = "check"
    /\ ~Exhausted
    /\ attempts < MaxAttempts
    /\ attempts' = attempts + 1
    /\ \E cost \in 0 .. allowed[p] + Excess :
          /\ bill' = [bill EXCEPT ![p] = cost]
          /\ paid' = paid + cost
    /\ Goto(p, "exec")
    /\ UNCHANGED <<status, cap, ledger, fit, allowed, outcome, orderly, faults>>

(* It ends with a result: one that cost as much as its cap is taken for cut *)
(* off (isBudgetCutoff), whatever else it says. *)
RunResult(p) ==
    /\ pc[p] = "exec"
    /\ \E s \in IF bill[p] >= allowed[p] THEN {"paused_budget"}
                                         ELSE {"succeeded", "failed"} :
          outcome' = [outcome EXCEPT ![p] = s]
    /\ Goto(p, "record")
    /\ UNCHANGED <<status, cap, ledger, fit, allowed, bill, paid, attempts, orderly,
                   faults>>

(* It ends without one, and nothing is recorded. *)
RunError(p) ==
    /\ pc[p] = "exec"
    /\ outcome' = [outcome EXCEPT ![p] = "failed"]
    /\ bill' = [bill EXCEPT ![p] = 0]
    /\ Goto(p, "finish")
    /\ UNCHANGED <<status, cap, ledger, fit, allowed, paid, attempts, orderly, faults>>

(* RecordResult writes one usage entry per model that was used, *)
RecordEntry(p) ==
    /\ pc[p] = "record"
    /\ \E cost \in 1 .. bill[p] :
          /\ ledger' = ledger + cost
          /\ bill' = [bill EXCEPT ![p] = bill[p] - cost]
    /\ UNCHANGED <<status, cap, pc, fit, allowed, outcome, paid, attempts, orderly,
                   faults>>

(* Bug: it stops after the first of them. *)
RecordDone_First(p) ==
    /\ pc[p] = "record"
    /\ bill' = [bill EXCEPT ![p] = 0]
    /\ Goto(p, "finish")
    /\ UNCHANGED <<status, cap, ledger, fit, allowed, outcome, paid, attempts,
                   orderly, faults>>

(* until the bill is settled. *)
RecordDone(p) ==
    /\ pc[p] = "record"
    /\ bill[p] = 0
    /\ Goto(p, "finish")
    /\ UNCHANGED <<status, cap, ledger, fit, allowed, bill, outcome, paid, attempts,
                   orderly, faults>>

Finish(p) ==
    /\ pc[p] = "finish"
    /\ status' = outcome[p]
    /\ Goto(p, "idle")
    /\ UNCHANGED <<cap, ledger, fit, allowed, bill, outcome, paid, attempts, orderly,
                   faults>>

-----------------------------------------------------------------------------

Fault == faults < MaxFaults /\ faults' = faults + 1

(* A statement fails.  An entry that is lost ends the recording, not the    *)
(* run; any other failure leaves the job as it is, running perhaps. *)
StoreError(p) ==
    /\ Fault
    /\ \/ /\ pc[p] = "record"
          /\ bill' = [bill EXCEPT ![p] = 0]
          /\ orderly' = FALSE
          /\ Goto(p, "finish")
       \/ /\ pc[p] \in {"cap", "defer", "dispatch", "mark", "check", "finish"}
          /\ Goto(p, "idle")
          /\ UNCHANGED <<bill, orderly>>
    /\ UNCHANGED <<status, cap, ledger, fit, allowed, outcome, paid, attempts>>

(* The daemon dies and is started again; bills not recorded yet are lost.   *)
Crash ==
    /\ Fault
    /\ pc' = [p \in Runs |-> "idle"]
    /\ bill' = [p \in Runs |-> 0]
    /\ UNCHANGED <<status, cap, ledger, fit, allowed, outcome, paid, attempts, orderly>>

Run(p) ==
    \/ MarkRead(p) \/ MarkWrite(p) \/ Refuse(p) \/ Start(p)
    \/ RunResult(p) \/ RunError(p) \/ RecordEntry(p) \/ RecordDone(p) \/ Finish(p)

Next ==
    \/ CapRead \/ CapWrite \/ DeferRead \/ DeferWrite \/ MarkRefused
    \/ Cancel
    \/ \E p \in Runs : Run(p) \/ StoreError(p)
    \/ Crash

Spec == Init /\ [][Next]_vars

-----------------------------------------------------------------------------

(* What an attempt in the middle of its statements may rely on, as long as  *)
(* the history is orderly: how its costs stand against the ledger. *)
Accounts(p) ==
    /\ pc[p] = "check" => paid = ledger /\ attempts <= ledger
    /\ pc[p] = "exec" => paid = ledger + bill[p] /\ attempts <= ledger + 1
    /\ pc[p] = "record" =>
          /\ paid = ledger + bill[p]
          /\ outcome[p] = "paused_budget" => attempts <= paid
    /\ pc[p] = "finish" /\ outcome[p] = "paused_budget" =>
          paid = ledger /\ attempts <= ledger

(* The inductive invariant: caps stay within the user's, and in an orderly  *)
(* history attempts follow one another, each entered in the ledger before   *)
(* the job becomes dispatchable again. *)
SpendInv ==
    /\ TypeOK
    /\ cap \in 1 .. UserCap
    /\ fit \in 1 .. UserCap
    /\ \A p \in Runs : allowed[p] \in 1 .. UserCap
    /\ orderly =>
          /\ \A p, q \in Attempting : p = q
          /\ status \in Dispatchable =>
                Attempting = {} /\ paid = ledger /\ attempts <= ledger
          /\ \A p \in Attempting : Accounts(p)
          /\ paid < 2 * UserCap + Excess
          /\ attempts <= UserCap

(* No attempt is ever given more than the user's cap, however much room the *)
(* scheduler found (CapBudget tightens a cap, never loosens it). *)
NeverLoosened == \A p \in Attempting : allowed[p] <= UserCap

(* All attempts together cost less than twice the user's cap, and what one  *)
(* run spends beyond its own: each is checked against what the earlier ones *)
(* cost (RunJob).  Not so where dispatches of the job overlapped or an      *)
(* entry was lost. *)
SpendBounded == orderly => paid < 2 * UserCap + Excess

(* A job that is cut off at its budget is not resumed for ever: every       *)
(* attempt that is not the last one costs something, and is recorded. *)
AttemptsBounded == orderly => attempts <= UserCap

(* When the job can be dispatched, the ledger holds all that it has cost.   *)
LedgerComplete == orderly /\ status \in Dispatchable => ledger = paid
=============================================================================
