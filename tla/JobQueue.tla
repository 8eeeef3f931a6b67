------------------------------ MODULE JobQueue ------------------------------
(***************************************************************************)
(* internal/queue: the job lifecycle rules, one action per store statement.*)
(*                                                                         *)
(* A goroutine that is inside a queue operation has read something and is  *)
(* about to write something derived from it, and any other goroutine may   *)
(* run in between: the operations take no lock and span no transaction.    *)
(* pc[p] names the statement goroutine p executes next, and the other      *)
(* process-local variables hold what it has read or computed so far.       *)
(*                                                                         *)
(* The goroutines are the scheduler loop, Sched, and one per API request.  *)
(***************************************************************************)
EXTENDS JobStore

CONSTANTS Clients,   \* the API handler goroutines
          Sched      \* the scheduler loop

ASSUME SchedAssumption == Sched \notin Clients

Proc == Clients \cup {Sched}

VARIABLES
    pc,        \* the next statement of each goroutine
    target,    \* the job it is working on
    verdict,   \* the status it has read or is about to write
    convo,     \* whether the job it read had a session
    wish,      \* the dependencies and template an Enqueue resolved
    todo,      \* Sched: jobs listed and not yet visited by the sweep or tick
    listed,    \* Sched: the depends_on of the rows it listed
    kids,      \* Sched: children created so far by this PromoteSteps
    rewires    \* Sched: dependents of the parent not yet repointed

procVars == <<pc, target, verdict, convo, wish>>
tickVars == <<todo, listed, kids, rewires>>

RunLabel == {"check", "exec", "finishSession", "finishStatus", "unregister"}
ClientLabel == {"idle", "create", "cancel", "mark", "register", "finishHalted"}
                  \cup RunLabel
PromoteLabel == {"promoteList", "promoteResolve", "promoteCreate",
                 "rewireList", "rewire", "rewireFailed", "promoteMark"}
RewireLabel == {"rewire", "rewireFailed"}
SchedLabel == {"idle", "sweep", "sweepSession", "sweepStatus", "fit", "deferWrite",
               "dispatch", "markRead", "mark", "register", "finishHalted"}
                  \cup PromoteLabel \cup RunLabel

NoWish == [deps |-> <<>>, job |-> [steps |-> <<>>, resumable |-> FALSE]]
NoList == [j \in JobId |-> <<>>]

(* The statements a goroutine can be at, and those at which it works on no  *)
(* job in particular. *)
LabelOf(p) == IF p = Sched THEN SchedLabel ELSE ClientLabel
NoTargetLabel == {"idle", "create", "sweep", "fit"}

LocalTypeOK ==
    /\ pc \in [Proc -> SchedLabel \cup ClientLabel]
    /\ target \in [Proc -> JobId \cup {NoJob}]
    /\ verdict \in [Proc -> Status]
    /\ convo \in [Proc -> BOOLEAN]
    /\ wish \in [Proc -> [deps : Seq(JobId), job : Template]]
    /\ \A p \in Proc :
          /\ pc[p] \in LabelOf(p)
          /\ pc[p] \notin NoTargetLabel => target[p] \in JobId

TickTypeOK ==
    /\ todo \in SUBSET JobId
    /\ listed \in [JobId -> Seq(JobId)]
    /\ kids \in Seq(JobId)
    /\ rewires \in SUBSET JobId

QueueTypeOK == LocalTypeOK /\ TickTypeOK

QueueInit ==
    /\ pc = [p \in Proc |-> "idle"]
    /\ target = [p \in Proc |-> NoJob]
    /\ verdict = [p \in Proc |-> "queued"]
    /\ convo = [p \in Proc |-> FALSE]
    /\ wish = [p \in Proc |-> NoWish]
    /\ todo = {}
    /\ listed = NoList
    /\ kids = <<>>
    /\ rewires = {}

-----------------------------------------------------------------------------

(* Moving on to another statement, keeping what was read... *)
Goto(p, l) ==
    /\ pc' = [pc EXCEPT ![p] = l]
    /\ UNCHANGED <<target, verdict, convo, wish>>

(* ...or having read job j, with a status to remember... *)
Enter(p, l, j, s) ==
    /\ pc' = [pc EXCEPT ![p] = l]
    /\ target' = [target EXCEPT ![p] = j]
    /\ verdict' = [verdict EXCEPT ![p] = s]
    /\ UNCHANGED <<convo, wish>>

(* ...or returning from the operation, dropping it all. *)
Leave(p, l) ==
    /\ pc' = [pc EXCEPT ![p] = l]
    /\ target' = [target EXCEPT ![p] = NoJob]
    /\ verdict' = [verdict EXCEPT ![p] = "queued"]
    /\ convo' = [convo EXCEPT ![p] = FALSE]
    /\ wish' = [wish EXCEPT ![p] = NoWish]

(* Tick returns: what it had listed is gone with it. *)
EndTick ==
    /\ Leave(Sched, "idle")
    /\ todo' = {}
    /\ listed' = NoList
    /\ kids' = <<>>
    /\ rewires' = {}

(* The goroutine is done: a handler returns, or Tick does. *)
Return(p) == IF p = Sched THEN EndTick ELSE Leave(p, "idle") /\ UNCHANGED tickVars

-----------------------------------------------------------------------------

Elements(ds) == {ds[i] : i \in DOMAIN ds}

(* resolveDeps: GetJobs returns one row per distinct id, so a list naming   *)
(* an unknown id, or one id twice, comes back shorter and is refused.       *)
Resolvable(ds) ==
    /\ Elements(ds) \subseteq Jobs
    /\ \A i, k \in DOMAIN ds : ds[i] = ds[k] => i = k

(* Bug: a pending dependency is not waited for. *)
ComputeStatus_IgnoresPending(ds) ==
    IF \E i \in DOMAIN ds : status[ds[i]] \in Terminal \ {"succeeded"} THEN "cancelled"
    ELSE "queued"

(* Bug: a dependency that failed is waited for. *)
ComputeStatus_IgnoresFailure(ds) ==
    IF \A i \in DOMAIN ds : status[ds[i]] = "succeeded" THEN "queued" ELSE "blocked"

(* computeStatus *)
ComputeStatus(ds) ==
    IF \E i \in DOMAIN ds : status[ds[i]] \in Terminal \ {"succeeded"} THEN "cancelled"
    ELSE IF \A i \in DOMAIN ds : status[ds[i]] = "succeeded" THEN "queued"
    ELSE "blocked"

(* Enqueue, first half: the dependencies are resolved and the status is     *)
(* computed.  Ids that do not resolve leave no trace but an error.          *)
EnqueueResolve(c, ds, t) ==
    /\ pc[c] = "idle"
    /\ Resolvable(ds)
    /\ pc' = [pc EXCEPT ![c] = "create"]
    /\ verdict' = [verdict EXCEPT ![c] = ComputeStatus(ds)]
    /\ wish' = [wish EXCEPT ![c] = [deps |-> ds, job |-> t]]
    /\ UNCHANGED <<target, convo, tickVars, tableVars>>

(* Enqueue, second half: the row is inserted with the status computed       *)
(* earlier, whatever has become of the dependencies since.                  *)
EnqueueCreate(c) ==
    /\ pc[c] = "create"
    /\ CreateJob(wish[c].deps,
                 [steps |-> wish[c].job.steps, resumable |-> wish[c].job.resumable,
                  parent |-> NoJob, step |-> 0],
                 FALSE, verdict[c])
    /\ Leave(c, "idle")
    /\ UNCHANGED tickVars

(* Cancel: the job is read, and unless it is terminal, *)
CancelRead(c, j) ==
    /\ pc[c] = "idle"
    /\ j \in Jobs
    /\ status[j] \notin Terminal
    /\ Enter(c, "cancel", j, "cancelled")
    /\ UNCHANGED <<tickVars, tableVars>>

(* it is then cancelled, terminal or not by now. *)
CancelWrite(c) ==
    /\ pc[c] = "cancel"
    /\ UpdateStatus(target[c], verdict[c])
    /\ Leave(c, "idle")
    /\ UNCHANGED tickVars

(* MarkRunning: the job is read and found dispatchable, *)
MarkRead(p, j) ==
    /\ j \in Jobs
    /\ status[j] \in Dispatchable
    /\ Enter(p, "mark", j, "running")

(* and is then marked running: two goroutines may both have read it. *)
MarkWrite(p) ==
    /\ pc[p] = "mark"
    /\ UpdateStatus(target[p], verdict[p])
    /\ Goto(p, "register")
    /\ UNCHANGED tickVars

(* Finish: the session (and the result text, not kept here) first, *)
FinishSession(p) ==
    /\ pc[p] = "finishSession"
    /\ UpdateSessionID(target[p])
    /\ Goto(p, "finishStatus")
    /\ UNCHANGED tickVars

(* Bug: the outcome is only recorded in memory. *)
FinishStatus_Skipped(p) ==
    /\ pc[p] = "finishStatus"
    /\ Goto(p, "unregister")
    /\ UNCHANGED <<tickVars, tableVars>>

(* then the status, without looking at the one it replaces. *)
FinishStatus(p) ==
    /\ pc[p] = "finishStatus"
    /\ UpdateStatus(target[p], verdict[p])
    /\ Goto(p, "unregister")
    /\ UNCHANGED tickVars

-----------------------------------------------------------------------------

(* PromoteReady lists the blocked jobs. *)
SweepList ==
    /\ pc[Sched] = "idle"
    /\ todo' = InStatus({"blocked"})
    /\ listed' = [j \in JobId |-> IF j \in todo' THEN dependsOn[j] ELSE <<>>]
    /\ Goto(Sched, "sweep")
    /\ UNCHANGED <<kids, rewires, tableVars>>

(* One listed job whose dependencies are still pending, or do not resolve   *)
(* (an error the sweep collects), is passed over. *)
SweepPass(j) ==
    /\ pc[Sched] = "sweep"
    /\ j \in todo
    /\ ~Resolvable(listed[j]) \/ ComputeStatus(listed[j]) = "blocked"
    /\ todo' = todo \ {j}
    /\ UNCHANGED <<procVars, listed, kids, rewires, tableVars>>

(* Bug: the session is not handed over. *)
Inherits_Never(j, ds) == FALSE

(* Whether the job takes over the session of its only dependency. *)
Inherits(j, ds) ==
    /\ origin[j].parent # NoJob
    /\ Len(ds) = 1
    /\ session[ds[1]]

(* One listed job whose dependencies are settled. *)
SweepResolve(j) ==
    LET ds == listed[j]  v == ComputeStatus(ds) IN
    /\ pc[Sched] = "sweep"
    /\ j \in todo
    /\ Resolvable(ds) /\ v # "blocked"
    /\ todo' = todo \ {j}
    /\ Enter(Sched, IF v = "queued" /\ Inherits(j, ds) THEN "sweepSession"
                    ELSE "sweepStatus", j, v)
    /\ UNCHANGED <<listed, kids, rewires, tableVars>>

SweepSession ==
    /\ pc[Sched] = "sweepSession"
    /\ UpdateSessionID(target[Sched])
    /\ Goto(Sched, "sweepStatus")
    /\ UNCHANGED tickVars

SweepStatus ==
    /\ pc[Sched] = "sweepStatus"
    /\ UpdateStatus(target[Sched], verdict[Sched])
    /\ Leave(Sched, "sweep")
    /\ UNCHANGED tickVars

-----------------------------------------------------------------------------

(* DeferOversized reads the job.  The same deferral is not written twice,   *)
(* and deferring a terminal job is an error, which ends the tick. *)
DeferRead(j) ==
    /\ status[j] \notin Terminal
    /\ todo' = todo \ {j}
    /\ \/ Enter(Sched, "deferWrite", j, "deferred_oversized")
       \/ status[j] = "deferred_oversized" /\ UNCHANGED procVars
    /\ UNCHANGED <<listed, kids, rewires, tableVars>>

DeferWrite ==
    /\ pc[Sched] = "deferWrite"
    /\ UpdateStatus(target[Sched], verdict[Sched])
    /\ Leave(Sched, "fit")
    /\ UNCHANGED tickVars

(* PromoteSteps reads the parent *)
PromoteRead(j) ==
    /\ origin[j].steps # <<>>
    /\ todo' = todo \ {j}
    /\ pc' = [pc EXCEPT ![Sched] = "promoteList"]
    /\ target' = [target EXCEPT ![Sched] = j]
    /\ verdict' = [verdict EXCEPT ![Sched] = status[j]]
    /\ convo' = [convo EXCEPT ![Sched] = session[j]]
    /\ UNCHANGED <<wish, listed, kids, rewires, tableVars>>

(* and lists its children.  Where there are some already, all that is left  *)
(* to do is to record the parent as promoted, if the row read did not. *)
PromoteExisting ==
    /\ pc[Sched] = "promoteList"
    /\ Children(target[Sched]) # {}
    /\ IF verdict[Sched] = "promoted" THEN Leave(Sched, "fit")
                                      ELSE Goto(Sched, "promoteMark")
    /\ UNCHANGED <<tickVars, tableVars>>

(* A terminal parent without children is refused, which ends the tick. *)
PromoteRefused ==
    /\ pc[Sched] = "promoteList"
    /\ Children(target[Sched]) = {}
    /\ verdict[Sched] \in Terminal
    /\ EndTick
    /\ UNCHANGED tableVars

(* Bug: the children that exist already are not looked for. *)
PromoteBegin_NoCheck ==
    /\ pc[Sched] = "promoteList"
    /\ verdict[Sched] \notin Terminal
    /\ Goto(Sched, "promoteResolve")
    /\ UNCHANGED <<tickVars, tableVars>>

(* Otherwise the steps are enqueued one after the other. *)
PromoteBegin ==
    /\ pc[Sched] = "promoteList"
    /\ Children(target[Sched]) = {}
    /\ verdict[Sched] \notin Terminal
    /\ Goto(Sched, "promoteResolve")
    /\ UNCHANGED <<tickVars, tableVars>>

(* Bug: the steps do not wait for each other. *)
StepDeps_None == <<>>

(* Bug: the first step waits for the job it is a step of. *)
StepDeps_ParentFirst ==
    IF kids = <<>> THEN <<target[Sched]>> ELSE <<kids[Len(kids)]>>

(* Each step waits for the one created before it. *)
StepDeps ==
    IF kids = <<>> THEN <<>> ELSE <<kids[Len(kids)]>>

(* Enqueue of the next step, first half, *)
PromoteResolve ==
    /\ pc[Sched] = "promoteResolve"
    /\ Resolvable(StepDeps)
    /\ pc' = [pc EXCEPT ![Sched] = "promoteCreate"]
    /\ verdict' = [verdict EXCEPT ![Sched] = ComputeStatus(StepDeps)]
    /\ UNCHANGED <<target, convo, wish, tickVars, tableVars>>

(* and second half: the child carries the parent's settings, declares no    *)
(* steps of its own, and the first one continues the parent's session.      *)
PromoteCreate ==
    LET p == target[Sched]
        i == Len(kids) + 1
        steps == origin[p].steps IN
    /\ pc[Sched] = "promoteCreate"
    /\ i \in DOMAIN steps /\ steps[i] # "blank"
    /\ CreateJob(StepDeps,
                 [steps |-> <<>>, resumable |-> origin[p].resumable, parent |-> p, step |-> i],
                 i = 1 /\ convo[Sched], verdict[Sched])
    /\ kids' = Append(kids, count + 1)
    /\ Goto(Sched, IF i = Len(steps) THEN "rewireList" ELSE "promoteResolve")
    /\ UNCHANGED <<todo, listed, rewires>>

(* A step whose prompt is blank is refused by validateNewJob, and the error *)
(* ends PromoteSteps and the tick, the earlier children staying in place.   *)
PromoteBlankStep ==
    LET steps == origin[target[Sched]].steps  i == Len(kids) + 1 IN
    /\ pc[Sched] = "promoteCreate"
    /\ i \in DOMAIN steps /\ steps[i] = "blank"
    /\ EndTick
    /\ UNCHANGED tableVars

(* rewireDependents lists the blocked jobs that wait for the parent *)
RewireList ==
    /\ pc[Sched] = "rewireList"
    /\ rewires' = {j \in InStatus({"blocked"}) : target[Sched] \in Elements(dependsOn[j])}
    /\ listed' = [j \in JobId |-> IF j \in rewires' THEN dependsOn[j] ELSE <<>>]
    /\ Goto(Sched, "rewire")
    /\ UNCHANGED <<todo, kids, tableVars>>

(* Bug: the dependents keep waiting for the parent. *)
Repoint_None(ds, parent, last) == ds

(* A dependency list with the chain's last child in the parent's place. *)
Repoint(ds, parent, last) ==
    [i \in DOMAIN ds |-> IF ds[i] = parent THEN last ELSE ds[i]]

(* and repoints each at the last child; once one of these writes has        *)
(* failed, so has PromoteSteps, but it goes on to the end. *)
RewireJob(j) ==
    /\ pc[Sched] \in RewireLabel
    /\ j \in rewires
    /\ kids # <<>>
    /\ UpdateDependsOn(j, Repoint(listed[j], target[Sched], kids[Len(kids)]))
    /\ rewires' = rewires \ {j}
    /\ UNCHANGED <<procVars, todo, listed, kids>>

(* Bug: the parent is recorded as promoted before it is divided. *)
PromoteMark_First ==
    /\ pc[Sched] = "promoteResolve"
    /\ UpdateStatus(target[Sched], "promoted")
    /\ Leave(Sched, "fit")
    /\ listed' = NoList
    /\ kids' = <<>>
    /\ UNCHANGED <<todo, rewires>>

(* PromoteSteps' last statement, whichever way it got there; an error       *)
(* collected on the way ends the tick. *)
PromoteMark ==
    /\ pc[Sched] = "promoteMark" \/ (pc[Sched] \in RewireLabel /\ rewires = {})
    /\ UpdateStatus(target[Sched], "promoted")
    /\ IF pc[Sched] = "rewireFailed"
       THEN EndTick
       ELSE /\ Leave(Sched, "fit")
            /\ listed' = NoList
            /\ kids' = <<>>
            /\ UNCHANGED <<todo, rewires>>
=============================================================================
