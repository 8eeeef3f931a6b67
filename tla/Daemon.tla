------------------------------- MODULE Daemon -------------------------------
(***************************************************************************)
(* tokenwardend: the scheduler loop (internal/scheduler), the API handlers *)
(* (internal/api) and the kill switch, over one database.                   *)
(*                                                                         *)
(* The scheduler's Tick is one goroutine: it sweeps the blocked jobs, and   *)
(* if the admission checks let it, walks the candidates in priority order   *)
(* until one is dispatched, and stays with that run until it ends.  Which   *)
(* way Decide and FitJob go depends on usage data that is not kept here, so *)
(* every verdict they can reach for a job is allowed.  Each API request is  *)
(* a goroutine of its own; a manual dispatch becomes the run it started.    *)
(*                                                                         *)
(* Any store statement may fail, and the process may die at any moment and  *)
(* be started again on the same database: a graceful shutdown, which waits  *)
(* neither for the scheduler nor for the runs, is such a death too.         *)
(***************************************************************************)
EXTENDS Dispatcher, FiniteSets

CONSTANTS
    Templates,      \* what users may enqueue
    MaxDeps,        \* bound: dependencies of one enqueued job
    MaxRequests,    \* bound: API requests
    MaxFaults,      \* bound: failed statements and crashes
    Priority,       \* the priority of each job that is not a child
    Requests        \* which API requests users make

ASSUME TemplatesAssumption == Templates \subseteq Template
ASSUME PriorityAssumption == Priority \in [JobId -> Nat]

VARIABLES requests, faults

boundVars == <<requests, faults>>
vars == <<tableVars, procVars, tickVars, dispVars, boundVars>>

TypeOK ==
    /\ StoreTypeOK
    /\ QueueTypeOK
    /\ DispatcherTypeOK
    /\ requests \in Nat
    /\ faults \in Nat

Init ==
    /\ StoreInit
    /\ QueueInit
    /\ DispatcherInit
    /\ requests = 0
    /\ faults = 0

-----------------------------------------------------------------------------

(* Children inherit their parent's priority. *)
Root(j) == IF origin[j].parent = NoJob THEN j ELSE origin[j].parent

(* The candidates the tick may look at next: ListJobs sorts by priority and *)
(* then by creation time, which has a resolution of one second, so that     *)
(* jobs of one priority may come in any order. *)
First(S) == {j \in S : \A k \in S : Priority[Root(k)] <= Priority[Root(j)]}

SchedQuiet == UNCHANGED <<dispVars, boundVars>>

Sweep ==
    /\ \/ SweepList
       \/ \E j \in todo : SweepPass(j) \/ SweepResolve(j)
       \/ SweepSession
       \/ SweepStatus
    /\ SchedQuiet

(* Decide holds this tick back (disabled, reserved block, ceiling, target). *)
TickHold ==
    /\ pc[Sched] = "sweep" /\ todo = {}
    /\ EndTick
    /\ SchedQuiet /\ UNCHANGED tableVars

(* Decide lets it dispatch, and Candidates lists the dispatchable jobs but  *)
(* those whose EarliestAt or retry cooldown holds them back. *)
TickAdmit ==
    /\ pc[Sched] = "sweep" /\ todo = {}
    /\ todo' \in SUBSET InStatus(Dispatchable)
    /\ listed' = NoList
    /\ Goto(Sched, "fit")
    /\ SchedQuiet /\ UNCHANGED <<kids, rewires, tableVars>>

(* Every candidate was deferred or promoted. *)
TickDone ==
    /\ pc[Sched] = "fit" /\ todo = {}
    /\ EndTick
    /\ SchedQuiet /\ UNCHANGED tableVars

(* Room for n more rows besides those being created: a bound of the model,  *)
(* so that MaxJobs never makes an insertion fail halfway. *)
Room(n) ==
    LET promoting == pc[Sched] \in {"promoteList", "promoteResolve", "promoteCreate"} IN
    count + n + Cardinality({c \in Clients : pc[c] = "create"})
      + (IF promoting THEN Len(origin[target[Sched]].steps) - Len(kids) ELSE 0) <= MaxJobs

(* FitJob: the job fits, and is dispatched. *)
FitDispatch(j) ==
    /\ Enter(Sched, "dispatch", j, "queued")
    /\ todo' = todo \ {j}
    /\ UNCHANGED <<listed, kids, rewires, tableVars>>

(* It is resumable: its budget is capped (CapBudget, which writes a column  *)
(* not kept here and refuses a terminal job), and it is dispatched. *)
FitCapBudget(j) ==
    /\ origin[j].resumable
    /\ status[j] \notin Terminal
    /\ FitDispatch(j)

(* It is neither resumable nor divided into steps, or it is resumable and   *)
(* there is no headroom left to cap it to. *)
FitDefer(j) ==
    /\ origin[j].resumable \/ origin[j].steps = <<>>
    /\ DeferRead(j)

(* It is not resumable and declares steps. *)
FitPromoteSteps(j) ==
    /\ ~origin[j].resumable
    /\ Children(j) # {} \/ Room(Len(origin[j].steps))
    /\ PromoteRead(j)

(* CapBudget and DeferOversized refuse a job that has become terminal since *)
(* the candidates were listed, and the tick returns their error. *)
FitRefused(j) ==
    /\ status[j] \in Terminal
    /\ origin[j].resumable \/ origin[j].steps = <<>>
    /\ EndTick
    /\ UNCHANGED tableVars

Fit ==
    /\ pc[Sched] = "fit"
    /\ \E j \in First(todo) :
          \/ FitDispatch(j)
          \/ FitCapBudget(j)
          \/ FitDefer(j)
          \/ FitPromoteSteps(j)
          \/ FitRefused(j)
    /\ SchedQuiet

Defer == DeferWrite /\ SchedQuiet

Promote ==
    /\ \/ PromoteExisting
       \/ PromoteRefused
       \/ PromoteBegin
       \/ PromoteResolve
       \/ PromoteCreate
       \/ PromoteBlankStep
       \/ RewireList
       \/ \E j \in rewires : RewireJob(j)
       \/ PromoteMark
    /\ SchedQuiet

(* DispatchOne looks at the kill switch first; Tick tolerates ErrHalted. *)
DispatchOne ==
    /\ pc[Sched] = "dispatch"
    /\ IF halted THEN EndTick ELSE Goto(Sched, "markRead") /\ UNCHANGED tickVars
    /\ SchedQuiet /\ UNCHANGED tableVars

(* Then it marks the job; one that is no longer dispatchable ends the tick. *)
SchedMark ==
    /\ pc[Sched] = "markRead"
    /\ \/ MarkRead(Sched, target[Sched]) /\ UNCHANGED tickVars
       \/ status[target[Sched]] \notin Dispatchable /\ EndTick
    /\ SchedQuiet /\ UNCHANGED tableVars

-----------------------------------------------------------------------------

(* Users may name any ids, existing or not. *)
DepLists == UNION {[1 .. n -> JobId] : n \in 0 .. MaxDeps}

Ask(kind) ==
    /\ kind \in Requests
    /\ requests < MaxRequests
    /\ requests' = requests + 1
    /\ UNCHANGED faults

(* POST /jobs *)
HandleCreateJob(c) ==
    /\ Ask("create")
    /\ Room(1)
    /\ \E ds \in DepLists, t \in Templates : EnqueueResolve(c, ds, t)
    /\ UNCHANGED dispVars

(* POST /jobs/{id}/cancel *)
HandleCancelJob(c) ==
    /\ Ask("cancel")
    /\ \E j \in Jobs : CancelRead(c, j)
    /\ UNCHANGED dispVars

(* POST /jobs/{id}/dispatch: unlike DispatchOne it marks the job without    *)
(* looking at the kill switch. *)
HandleDispatchJob(c) ==
    /\ Ask("dispatch")
    /\ pc[c] = "idle"
    /\ \E j \in Jobs : MarkRead(c, j)
    /\ UNCHANGED <<dispVars, tickVars, tableVars>>

(* POST /killswitch/halt and /killswitch/resume *)
HandleHalt == Ask("halt") /\ Halt
HandleResume == Ask("halt") /\ Resume

(* The second statement of a create or cancel request. *)
Respond(c) ==
    /\ EnqueueCreate(c) \/ CancelWrite(c)
    /\ UNCHANGED <<dispVars, boundVars>>

(* A run, whichever goroutine executes it. *)
Run(p) ==
    /\ \/ MarkWrite(p) /\ UNCHANGED dispVars
       \/ RefuseHalted(p)
       \/ FinishHalted(p)
       \/ Register(p)
       \/ RefuseExhausted(p)
       \/ StartFails(p)
       \/ StartRun(p)
       \/ FinishSession(p) /\ UNCHANGED dispVars
       \/ FinishStatus(p) /\ UNCHANGED dispVars
       \/ Unregister(p)
    /\ UNCHANGED boundVars

(* The claude subprocess ends. *)
EndRun(p) == (RunError(p) \/ RunResult(p)) /\ UNCHANGED boundVars

-----------------------------------------------------------------------------

Fault == faults < MaxFaults /\ faults' = faults + 1 /\ UNCHANGED requests

(* A statement fails. A handler returns the error; so does a run, with the  *)
(* job still marked running; a sweep that cannot list is skipped, the sweep *)
(* and the rewiring go on with the next job, and a rewiring that cannot     *)
(* list goes on to mark the parent; anything else ends the tick. *)
StoreError(p) ==
    /\ Fault
    /\ \/ /\ pc[p] \in {"create", "cancel", "mark", "finishHalted", "markRead",
                        "deferWrite", "promoteList", "promoteResolve",
                        "promoteCreate", "promoteMark", "fit"}
          /\ Return(p)
       \/ /\ pc[p] \in {"check", "finishSession", "finishStatus"}
          /\ Goto(p, "unregister") /\ UNCHANGED tickVars
       \/ /\ pc[p] \in {"sweepSession", "sweepStatus"}
          /\ Leave(p, "sweep") /\ UNCHANGED tickVars
       \/ /\ pc[p] = "rewireList"
          /\ Goto(p, "rewireFailed") /\ UNCHANGED tickVars
       \/ /\ pc[p] = "idle" /\ p = Sched
          /\ Goto(p, "sweep") /\ UNCHANGED tickVars
       \/ /\ pc[p] = "sweep"
          /\ \E j \in todo : todo' = todo \ {j}
          /\ UNCHANGED <<procVars, listed, kids, rewires>>
       \/ /\ pc[p] \in RewireLabel
          /\ \E j \in rewires : rewires' = rewires \ {j}
          /\ Goto(p, "rewireFailed")
          /\ UNCHANGED <<todo, listed, kids>>
       \/ /\ pc[p] \in RewireLabel /\ rewires = {}
          /\ Return(p)
    /\ UNCHANGED <<tableVars, dispVars>>

(* The process dies and is started again: only the database survives, and   *)
(* nothing is done at startup about jobs recorded as running. *)
Crash ==
    /\ Fault
    /\ pc' = [p \in Proc |-> "idle"]
    /\ target' = [p \in Proc |-> NoJob]
    /\ verdict' = [p \in Proc |-> "queued"]
    /\ convo' = [p \in Proc |-> FALSE]
    /\ wish' = [p \in Proc |-> NoWish]
    /\ todo' = {} /\ listed' = NoList /\ kids' = <<>> /\ rewires' = {}
    /\ halted' = FALSE
    /\ running' = [j \in JobId |-> None]
    /\ cancelled' = {} /\ shared' = {}
    /\ UNCHANGED tableVars

SchedStep ==
    \/ Sweep \/ TickHold \/ TickAdmit \/ TickDone \/ Fit \/ Defer \/ Promote
    \/ DispatchOne \/ SchedMark

Next ==
    \/ SchedStep
    \/ \E c \in Clients :
          \/ HandleCreateJob(c)
          \/ HandleCancelJob(c)
          \/ HandleDispatchJob(c)
          \/ Respond(c)
    \/ HandleHalt
    \/ HandleResume
    \/ \E p \in Proc : Run(p) \/ EndRun(p) \/ StoreError(p)
    \/ Crash

Spec == Init /\ [][Next]_vars

(* Users owe the daemon nothing and statements need not fail; the loop, the *)
(* handlers and the subprocesses keep going. *)
Fairness ==
    /\ WF_vars(SchedStep)
    /\ \A c \in Clients : WF_vars(Respond(c))
    /\ \A p \in Proc : WF_vars(Run(p)) /\ WF_vars(EndRun(p))

FairSpec == Spec /\ Fairness

-----------------------------------------------------------------------------

(* A job is dispatchable, or runs, only once every job it depends on has    *)
(* succeeded: whatever is cancelled, dispatched by hand, promoted, repointed*)
(* or lost in a crash while the statuses it was decided on are being read   *)
(* (PromoteReady, Enqueue, PromoteSteps). *)
DependencySafety ==
    \A j \in released : Elements(dependsOn[j]) \subseteq succeeded

(* Among any jobs there is one that waits for none of the others: repointing*)
(* dependents at a promoted job's last step never closes a cycle, which     *)
(* would leave every job on it blocked for good (rewireDependents). *)
NoCircularWait ==
    \A S \in SUBSET Jobs :
        S # {} => \E j \in S : Elements(dependsOn[j]) \cap S = {}

(* No step of a promoted job is created twice, however often PromoteSteps   *)
(* is interrupted and retried (idempotence by ParentJobID). *)
StepsCreatedOnce ==
    \A c, d \in Jobs :
        (/\ origin[c].parent # NoJob
         /\ origin[c].parent = origin[d].parent
         /\ origin[c].step = origin[d].step) => c = d

(* A step of a chain is never dispatchable without the session that its     *)
(* predecessor hands over (PromoteReady writes the session first). *)
ChainConversation ==
    \A c \in released :
        origin[c].parent # NoJob /\ dependsOn[c] # <<>> => session[c]

(* Of the steps of one promoted job at most one is dispatchable or running. *)
OneStepAtATime ==
    \A c, d \in InStatus(Dispatchable \cup {"running"}) :
        (origin[c].parent # NoJob /\ origin[c].parent = origin[d].parent) => c = d

(* None of the steps a job declares is refused when it is enqueued. *)
Divisible(p) == "blank" \notin Elements(origin[p].steps)

(* When a sweep looks at a blocked job, none of its dependencies has been   *)
(* promoted: the dependents of a promoted job were repointed first, unless  *)
(* PromoteSteps was stopped by a step that is refused. *)
NoPromotedDependency ==
    pc[Sched] \in {"idle", "sweep"} =>
        \A j \in InStatus({"blocked"}) : \A d \in Elements(dependsOn[j]) :
            status[d] = "promoted" => ~Divisible(d)

(* While the kill switch is on, every run in flight has its context         *)
(* cancelled, unless another run of the same job overlapped it. *)
HaltReaches ==
    halted => \A p \in Proc : pc[p] = "exec" => p \in cancelled \cup shared

(* No subprocess is started while the kill switch is on, again unless two   *)
(* runs of one job overlap. *)
NoStartWhileHalted ==
    [][\A p \in Proc : pc[p] # "exec" /\ pc'[p] = "exec" => ~halted \/ p \in shared]_vars

(* A promoted job was divided into all of its steps, unless one is refused. *)
PromotionComplete ==
    \A p \in InStatus({"promoted"}) :
        Divisible(p) => {origin[c].step : c \in Children(p)} = DOMAIN origin[p].steps

(* A terminal job never transitions again. *)
TerminalIsFinal ==
    [][\A j \in Jobs : status[j] \in Terminal => status'[j] = status[j]]_vars

(* A job does not stay blocked on dependencies that are all settled. *)
SettledJobsMove ==
    \A j \in JobId :
        []<>~(/\ j \in Jobs /\ status[j] = "blocked"
             /\ \A d \in Elements(dependsOn[j]) : status[d] \in Terminal)

(* A job marked running does not stay so. *)
RunningEnds ==
    \A j \in JobId : []<>~(j \in Jobs /\ status[j] = "running")
=============================================================================
