---------------------------- MODULE SpendProofs -----------------------------
(***************************************************************************)
(* Proofs about Spend, for any number of users and any caps: SpendInv is    *)
(* inductive, and the bounds on a job's cost and attempts follow from it.   *)
(***************************************************************************)
EXTENDS Spend, TLAPS

USE SpendSchedAssumption, UserCapAssumption, HeadroomAssumption, ExcessAssumption

(* Whatever the scheduler computed, the cap it writes is the user's at most. *)
LEMMA ClampBounds ==
    ASSUME NEW usdCap \in Headroom
    PROVE  Clamp(usdCap) \in 1 .. UserCap
BY DEF Clamp

LEMMA SpendInvInit == Init => SpendInv
BY DEF Init, SpendInv, TypeOK, Runs, Status, Outcome, Label, Dispatchable, Attempting, Accounts

(* Each statement preserves the invariant. *)
THEOREM SpendInvStep == SpendInv /\ [Next]_vars => SpendInv'
<1> SUFFICES ASSUME SpendInv, [Next]_vars
             PROVE  SpendInv'
    OBVIOUS
<1> USE DEF SpendInv, TypeOK, Attempting, Accounts, Status, Terminal, Dispatchable,
            Outcome, Label, Runs, Goto
<1>1. CASE CapRead
  <2>1. PICK usdCap \in Headroom : fit' = Clamp(usdCap)
    BY <1>1 DEF CapRead
  <2>2. fit' \in 1 .. UserCap
    BY <2>1, ClampBounds
  <2>. QED
    BY <1>1, <2>2 DEF CapRead
<1>2. CASE CapWrite
  BY <1>2 DEF CapWrite
<1>3. CASE DeferRead
  BY <1>3 DEF DeferRead
<1>4. CASE DeferWrite
  BY <1>4 DEF DeferWrite
<1>5. CASE MarkRefused
  BY <1>5 DEF MarkRefused
<1>6. CASE Cancel
  BY <1>6 DEF Cancel
<1>7. ASSUME NEW p \in Runs, Run(p)
      PROVE  SpendInv'
  <2>1. CASE MarkRead(p)
    BY <2>1 DEF MarkRead
  <2>2. CASE MarkWrite(p)
    BY <2>2 DEF MarkWrite
  <2>3. CASE Refuse(p)
    BY <2>3 DEF Refuse
  <2>4. CASE Start(p)
    BY <2>4 DEF Start, Exhausted
  <2>5. CASE RunResult(p)
    BY <2>5 DEF RunResult
  <2>6. CASE RunError(p)
    BY <2>6 DEF RunError
  <2>7. CASE RecordEntry(p)
    BY <2>7 DEF RecordEntry
  <2>8. CASE RecordDone(p)
    BY <2>8 DEF RecordDone
  <2>9. CASE Finish(p)
    <3>1. orderly => Attempting = {p}
      BY <2>9 DEF Finish
    <3>2. Attempting' = Attempting \ {p}
      BY <2>9 DEF Finish
    <3>3. TypeOK'
      BY <2>9 DEF Finish
    <3>4. orderly => Attempting' = {}
      BY <3>1, <3>2
    <3>5. orderly /\ status' \in Dispatchable => paid = ledger /\ attempts <= ledger
      <4>1. orderly => Accounts(p)
        BY <3>1
      <4>2. pc[p] = "finish" /\ status' = outcome[p]
        BY <2>9 DEF Finish
      <4>3. status' \in Dispatchable => outcome[p] = "paused_budget"
        BY <4>2
      <4>. QED
        BY <4>1, <4>2, <4>3
    <3>. HIDE DEF TypeOK, Attempting, Accounts, Goto
    <3>. QED
      BY <2>9, <3>3, <3>4, <3>5 DEF Finish
  <2>. QED
    BY <1>7, <2>1, <2>2, <2>3, <2>4, <2>5, <2>6, <2>7, <2>8, <2>9 DEF Run
<1>8. ASSUME NEW p \in Runs, StoreError(p)
      PROVE  SpendInv'
  <2>1. CASE pc[p] = "record"
    <3>1. /\ bill' = [bill EXCEPT ![p] = 0]
          /\ orderly' = FALSE
          /\ Goto(p, "finish")
      BY <1>8, <2>1 DEF StoreError
    <3>2. /\ faults' = faults + 1
          /\ UNCHANGED <<status, cap, ledger, fit, allowed, outcome, paid, attempts>>
      BY <1>8 DEF StoreError, Fault
    <3>3. /\ pc' \in [Runs -> Label]
          /\ bill' \in [Runs -> Nat]
          /\ faults' \in Nat
      BY <3>1, <3>2
    <3>. HIDE DEF Goto, Runs, Label, Attempting, Accounts
    <3>4. TypeOK'
      BY <3>1, <3>2, <3>3
    <3>. QED
      BY <3>1, <3>2, <3>4
  <2>2. CASE pc[p] \in {"cap", "defer", "dispatch", "mark", "check", "finish"}
    <3>1. Goto(p, "idle") /\ UNCHANGED <<bill, orderly>>
      BY <1>8, <2>2 DEF StoreError
    <3>2. Attempting' = Attempting \ {p}
      BY <3>1
    <3>3. Attempting = {} => Attempting' = {}
      BY <3>2
    <3>. QED
      BY <1>8, <3>1, <3>2 DEF StoreError, Fault
  <2>. QED
    BY <1>8, <2>1, <2>2 DEF StoreError
<1>9. CASE Crash
  BY <1>9 DEF Crash, Fault
<1>10. CASE UNCHANGED vars
  BY <1>10 DEF vars
<1>. QED
  BY <1>1, <1>2, <1>3, <1>4, <1>5, <1>6, <1>7, <1>8, <1>9, <1>10 DEF Next

(* The inductive invariant holds: caps within the user's, attempts one after *)
(* the other and each in the ledger before the next (RunJob, RecordResult). *)
THEOREM SpendInvariant == Spec => []SpendInv
BY SpendInvInit, SpendInvStep, PTL DEF Spec

(* For any caps and any number of users: as long as the history is orderly, *)
(* a job's attempts together cost less than twice its user's cap, and one   *)
(* excess (RunJob's cumulative check). *)
THEOREM SpendIsBounded == Spec => []SpendBounded
<1>1. SpendInv => SpendBounded
  BY DEF SpendInv, SpendBounded
<1>. QED
  BY <1>1, SpendInvariant, PTL

(* And there are no more of them than the cap has units: a job is not       *)
(* resumed for ever. *)
THEOREM AttemptsAreBounded == Spec => []AttemptsBounded
<1>1. SpendInv => AttemptsBounded
  BY DEF SpendInv, AttemptsBounded
<1>. QED
  BY <1>1, SpendInvariant, PTL

(* No attempt is given more than the user asked for (CapBudget's clamp). *)
THEOREM CapsNeverLoosened == Spec => []NeverLoosened
<1>1. SpendInv => NeverLoosened
  BY DEF SpendInv, NeverLoosened, Attempting
<1>. QED
  BY <1>1, SpendInvariant, PTL

(* The ledger holds all that a dispatchable job has cost (RecordResult comes *)
(* before Finish). *)
THEOREM LedgerIsComplete == Spec => []LedgerComplete
<1>1. SpendInv => LedgerComplete
  BY DEF SpendInv, LedgerComplete
<1>. QED
  BY <1>1, SpendInvariant, PTL
=============================================================================
