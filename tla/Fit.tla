-------------------------------- MODULE Fit ---------------------------------
(***************************************************************************)
(* How a tick chooses the job it runs (Engine.Tick, FitJob, Candidates):    *)
(* the candidates in priority order, each held against what is left of the  *)
(* five-hour window by what finished jobs of its kind have cost, and then   *)
(* run, capped, divided into its steps, or deferred; and what the runs do   *)
(* to the window and to the next predictions.                               *)
(*                                                                         *)
(* The unit is one percent of the window, to which the calibration, once it *)
(* has one, fits tokens exactly; a token costs one dollar, so that caps     *)
(* count in the same unit.  Users, the kill switch and failing statements   *)
(* are Daemon's, the user's cap is Spend's, and how the window is read is   *)
(* Pacing's: here a tick's operations follow each other undisturbed.        *)
(***************************************************************************)
EXTENDS Integers, Sequences, FiniteSets, FiniteSetsExt, Functions

CONSTANTS
    Job,          \* ids, in the order of creation
    Past,         \* jobs that had succeeded before
    PastCosts,    \* what each of them may have cost
    Kind,         \* each job's kind
    Need,         \* what each job's work takes
    Priority,     \* each job's priority
    Resumable,    \* the jobs that are
    Steps,        \* the jobs each job's declared steps become
    MinSamples,   \* minCostSamples
    Ceiling,      \* fiveHourCeilingPercent
    WindowLength, \* time between resets
    Cooldown,     \* PausedBudgetRetryCooldown
    Reread,       \* what resuming a session costs before any work is done
    MaxStrangers, \* bound: what anyone else uses of the window
    MaxSpent      \* bound: where the ledger's sums stop counting

NoCap == 0

Children == UNION {Range(Steps[j]) : j \in Job}

ASSUME FitAssumption ==
    /\ Job \subseteq Nat /\ IsFiniteSet(Job) /\ Past \subseteq Job \ Children
    /\ PastCosts \subseteq 0 .. MaxSpent
    /\ Need \in [Job -> Nat] /\ Priority \in [Job -> Int]
    /\ Resumable \subseteq Job /\ Steps \in [Job -> Seq(Job)]
    /\ MinSamples \in Nat \ {0} /\ Ceiling \in Nat \ {0}
    /\ WindowLength \in Nat \ {0} /\ Cooldown \in Nat /\ Reread \in Nat
    /\ MaxStrangers \in Nat /\ MaxSpent \in Nat

Runnable == {"queued", "paused_budget", "deferred_oversized"}
Status == Runnable \cup {"absent", "blocked", "running", "promoted",
                         "succeeded", "failed", "cancelled"}

VARIABLES
    status, cap, spent,  \* the rows, and the ledger's sum for each job
    progress,            \* how much of its work a job's session holds
    rest,                \* what is left of its cooldown
    calibrated,          \* CalibrateFiveHour has enough samples
    used,                \* how full the window is
    left,                \* time to its reset
    pc, seen, todo,      \* the tick: what it has read, and the candidates left
    ticked,              \* history: the loop has ticked since time last passed
    strangers, surprise  \* history: what others used of this window, and
                         \* what runs cost beyond their prediction

jobVars == <<status, cap, spent, progress, rest>>
windowVars == <<used, left, strangers, surprise>>
tickVars == <<pc, seen, todo, ticked>>
vars == <<jobVars, windowVars, tickVars, calibrated>>

TypeOK ==
    /\ status \in [Job -> Status]
    /\ cap \in [Job -> Nat] /\ spent \in [Job -> 0 .. MaxSpent]
    /\ progress \in [Job -> Nat] /\ rest \in [Job -> 0 .. Cooldown]
    /\ calibrated \in BOOLEAN /\ ticked \in BOOLEAN
    /\ used \in Nat /\ left \in 1 .. WindowLength
    /\ pc \in {"idle", "walk", "run"}
    /\ seen \in Nat /\ todo \subseteq Job
    /\ strangers \in 0 .. MaxStrangers /\ surprise \in Nat

Init ==
    /\ status = [j \in Job |-> IF j \in Past THEN "succeeded" ELSE "absent"]
    /\ \E c \in [Past -> PastCosts] :
          spent = [j \in Job |-> IF j \in Past THEN c[j] ELSE 0]
    /\ cap = [j \in Job |-> NoCap]
    /\ progress = [j \in Job |-> 0]
    /\ rest = [j \in Job |-> 0]
    /\ calibrated \in BOOLEAN
    /\ used = 0 /\ left = WindowLength
    /\ pc = "idle" /\ seen = 0 /\ todo = {} /\ ticked = FALSE
    /\ strangers = 0 /\ surprise = 0
-----------------------------------------------------------------------------
(* The world: users create jobs, others use the plan, readings come in, and *)
(* time passes, in steps that are longer than the loop's. *)
Create(j) ==
    /\ status[j] = "absent" /\ j \notin Children
    /\ status' = [status EXCEPT ![j] = "queued"]
    /\ UNCHANGED <<cap, spent, progress, rest, windowVars, tickVars, calibrated>>

Interactive ==
    /\ strangers < MaxStrangers
    /\ strangers' = strangers + 1 /\ used' = used + 1
    /\ UNCHANGED <<jobVars, left, surprise, tickVars, calibrated>>

Calibrate ==
    /\ ~calibrated
    /\ calibrated' = TRUE
    /\ UNCHANGED <<jobVars, windowVars, tickVars>>

Pass ==
    /\ pc = "idle" => ticked
    /\ ticked' = FALSE
    /\ rest' = [j \in Job |-> IF rest[j] = 0 THEN 0 ELSE rest[j] - 1]
    /\ IF left > 1
       THEN left' = left - 1 /\ UNCHANGED <<used, strangers, surprise>>
       ELSE left' = WindowLength /\ used' = 0 /\ strangers' = 0 /\ surprise' = 0
    /\ UNCHANGED <<status, cap, spent, progress, pc, seen, todo, calibrated>>
-----------------------------------------------------------------------------
(* PredictJobCost: the mean over finished jobs of the kind that have usage  *)
(* entries, each with all its attempts. *)
Finished(k) ==
    {j \in Job : Kind[j] = k /\ status[j] \in {"succeeded", "failed"} /\ spent[j] > 0}

Total(S) == MapThenSumSet(LAMBDA j : spent[j], S)

Mean(k) == Total(Finished(k)) \div Cardinality(Finished(k))

(* Without a prediction or a rate FitJob has nothing to hold a job against. *)
Signal(j) == calibrated /\ Cardinality(Finished(Kind[j])) >= MinSamples

(* Bug: the window counts as empty. *)
Room_Whole == Ceiling

Room == Ceiling - seen

Fits(j) == ~Signal(j) \/ Mean(Kind[j]) <= Room

(* PromoteReady on a chain: each step waits for the one before it. *)
Previous(j) ==
    {i \in Job : \E p \in Job : \E n \in 2 .. Len(Steps[p]) :
        Steps[p][n] = j /\ Steps[p][n - 1] = i}

SweptStatus(j) ==
    IF status[j] # "blocked" THEN status[j]
    ELSE IF \A i \in Previous(j) : status[i] = "succeeded" THEN "queued"
    ELSE IF \E i \in Previous(j) : status[i] \in {"failed", "cancelled", "promoted"}
    THEN "cancelled"
    ELSE "blocked"

(* Bug: a job that was cut off is listed again at once. *)
Offered_AtOnce(j, st) == st[j] \in Runnable

Offered(j, st) == st[j] \in Runnable /\ rest[j] = 0

Candidates(st) == {j \in Job : Offered(j, st)}

(* ListJobs' order, in which the candidates are looked at. *)
Before(i, j) ==
    Priority[i] > Priority[j] \/ (Priority[i] = Priority[j] /\ i < j)

LookingAt(j) ==
    pc = "walk" /\ j \in todo /\ \A i \in todo \ {j} : Before(j, i)

Running(j) == pc = "run" /\ todo = {j}

(* The first half of a tick: the sweep, then what Decide makes of the       *)
(* window, then the list. *)
Tick ==
    /\ pc = "idle"
    /\ ticked' = TRUE
    /\ status' = [j \in Job |-> SweptStatus(j)]
    /\ IF used < Ceiling /\ Candidates(status') # {}
       THEN pc' = "walk" /\ seen' = used /\ todo' = Candidates(status')
       ELSE UNCHANGED <<pc, seen, todo>>
    /\ UNCHANGED <<cap, spent, progress, rest, windowVars, calibrated>>

(* The tick is over, and what it knew with it. *)
Return == pc' = "idle" /\ seen' = 0 /\ todo' = {}

NextCandidate(j) ==
    IF todo = {j} THEN Return
    ELSE todo' = todo \ {j} /\ UNCHANGED <<pc, seen>>

Dispatch(j) ==
    /\ pc' = "run" /\ todo' = {j}
    /\ status' = [status EXCEPT ![j] = "running"]
    /\ UNCHANGED seen

(* FitDispatch: as it is, with the cap it has. *)
DispatchAsIs(j) ==
    /\ LookingAt(j) /\ Fits(j)
    /\ Dispatch(j)
    /\ UNCHANGED <<cap, spent, progress, rest, windowVars, ticked, calibrated>>

(* FitCapBudget: up to what is left, now and in every later attempt. *)
DispatchCapped(j) ==
    /\ LookingAt(j) /\ ~Fits(j) /\ j \in Resumable /\ Mean(Kind[j]) > 0
    /\ cap' = [cap EXCEPT ![j] = Room]
    /\ Dispatch(j)
    /\ UNCHANGED <<spent, progress, rest, windowVars, ticked, calibrated>>

(* FitPromoteSteps: the first step can run, the others wait. *)
Promote(j) ==
    /\ LookingAt(j) /\ ~Fits(j) /\ j \notin Resumable /\ Steps[j] # <<>>
    /\ status' = [i \in Job |->
          IF i = j THEN "promoted"
          ELSE IF i = Steps[j][1] THEN "queued"
          ELSE IF i \in Range(Steps[j]) THEN "blocked"
          ELSE status[i]]
    /\ NextCandidate(j)
    /\ UNCHANGED <<cap, spent, progress, rest, windowVars, ticked, calibrated>>

(* FitDefer. *)
Defer(j) ==
    /\ LookingAt(j) /\ ~Fits(j)
    /\ IF j \in Resumable THEN Mean(Kind[j]) = 0 ELSE Steps[j] = <<>>
    /\ status' = [status EXCEPT ![j] = "deferred_oversized"]
    /\ NextCandidate(j)
    /\ UNCHANGED <<cap, spent, progress, rest, windowVars, ticked, calibrated>>
-----------------------------------------------------------------------------
(* A run, and what RunJob makes of its end.  Resuming a session costs what  *)
(* reading it again does; a run never exceeds its cap, and one that reaches *)
(* it counts as cut off, finished or not. *)
Opening(j) == IF progress[j] > 0 THEN Reread ELSE 0
Wanted(j) == Opening(j) + Need[j] - progress[j]

(* What the cost of a run adds to the surprises of its window, if it was    *)
(* admitted because its prediction fitted. *)
Unforeseen(j, cost) ==
    LET foreseen == IF ~Signal(j) THEN 0 ELSE IF Fits(j) THEN Mean(Kind[j]) ELSE Room
    IN  IF cost > foreseen THEN cost - foreseen ELSE 0

Charge(j, cost) ==
    /\ spent' = [spent EXCEPT ![j] = Min({@ + cost, MaxSpent})]
    /\ used' = used + cost
    /\ surprise' = surprise + Unforeseen(j, cost)
    /\ Return
    /\ UNCHANGED <<cap, left, strangers, ticked, calibrated>>

(* Bug: the session is not kept, and the next attempt begins anew. *)
RunCutOff_NoSession(j) ==
    /\ Running(j) /\ cap[j] # NoCap /\ Wanted(j) >= cap[j]
    /\ Charge(j, cap[j])
    /\ status' = [status EXCEPT ![j] = "paused_budget"]
    /\ rest' = [rest EXCEPT ![j] = Cooldown]
    /\ UNCHANGED progress

RunCutOff(j) ==
    /\ Running(j) /\ cap[j] # NoCap /\ Wanted(j) >= cap[j]
    /\ Charge(j, cap[j])
    /\ status' = [status EXCEPT ![j] = "paused_budget"]
    /\ progress' = [progress EXCEPT ![j] = Max({@, @ + cap[j] - Opening(j)})]
    /\ rest' = [rest EXCEPT ![j] = Cooldown]

RunSucceeds(j) ==
    /\ Running(j) /\ (cap[j] = NoCap \/ Wanted(j) < cap[j])
    /\ Charge(j, Wanted(j))
    /\ status' = [status EXCEPT ![j] = "succeeded"]
    /\ UNCHANGED <<progress, rest>>

(* It ends early and says so, having cost something, *)
RunFails(j) ==
    /\ Running(j)
    /\ \E cost \in 1 .. Wanted(j) :
          /\ cap[j] # NoCap => cost < cap[j]
          /\ Charge(j, cost)
    /\ status' = [status EXCEPT ![j] = "failed"]
    /\ UNCHANGED <<progress, rest>>

(* or without a result, which leaves nothing for the ledger. *)
RunLost(j) ==
    /\ Running(j)
    /\ \E cost \in 0 .. Wanted(j) :
          /\ cap[j] # NoCap => cost <= cap[j]
          /\ used' = used + cost
          /\ surprise' = surprise + Unforeseen(j, cost)
    /\ status' = [status EXCEPT ![j] = "failed"]
    /\ Return
    /\ UNCHANGED <<cap, spent, progress, rest, left, strangers, ticked, calibrated>>

Walk == \E j \in todo : DispatchAsIs(j) \/ DispatchCapped(j) \/ Promote(j) \/ Defer(j)
Run == \E j \in todo : RunCutOff(j) \/ RunSucceeds(j) \/ RunFails(j) \/ RunLost(j)

Next ==
    \/ \E j \in Job : Create(j)
    \/ Interactive \/ Calibrate \/ Pass
    \/ Tick \/ Walk \/ Run

(* The loop ticks, runs end, and time passes. *)
Fairness == WF_vars(Tick) /\ WF_vars(Walk) /\ WF_vars(Run) /\ WF_vars(Pass)

Spec == Init /\ [][Next]_vars /\ Fairness
-----------------------------------------------------------------------------
(* A walk has somebody left to look at until it ends, and then nothing of   *)
(* what it knew is left. *)
WalkInv ==
    /\ TypeOK
    /\ (todo = {}) <=> (pc = "idle")
    /\ pc = "run" => \E j \in Job : todo = {j} /\ status[j] = "running"

WithinCeiling == used <= Ceiling + surprise + strangers

(* A tick goes on only below the ceiling, and what it read of the window is *)
(* out of date by no more than that.  A session never holds more than the   *)
(* job's work.                                                              *)
TickInv ==
    /\ pc # "idle" => seen < Ceiling /\ used <= seen + surprise + strangers
    /\ \A j \in Job : progress[j] <= Need[j]

(* Every variable has its type, a tick has somebody to look at until it     *)
(* ends, and the window is filled past the ceiling only by what the loop    *)
(* could not know: a job that cost more than finished jobs of its kind, a   *)
(* job without a prediction, or somebody else's use.  Caps and predictions  *)
(* never add up to more, whatever was cut off, resumed or deferred in this  *)
(* window (Tick, FitJob, CapBudget). *)
FitInv == WalkInv /\ WithinCeiling /\ TickInv

(* No job is passed over for good: whatever is before it in the queue, and  *)
(* however often that is cut off and resumed, it is held against the window *)
(* again and again until it is dispatched or divided (Candidates, Tick). *)
LookedAtAgain ==
    \A j \in Job :
        []<>(status[j] \notin Runnable \/ LookingAt(j))

(* Budget-capped continuation gets a job done: attempt by attempt, in one   *)
(* window or several, it ends, unless a cap was no more than what resuming  *)
(* it costs (CapBudget, Finish, BuildArgs). *)
ContinuationEnds ==
    \A j \in Resumable :
        []<>(status[j] \notin Runnable \cup {"running"} \/ cap[j] \in 1 .. Reread)
=============================================================================
