-------------------------- MODULE DaemonInvariant ---------------------------
(***************************************************************************)
(* The inductive invariants behind the safety properties of Daemon.        *)
(*                                                                         *)
(* DependencyInv is the one behind DependencySafety and NoCircularWait.    *)
(* Neither is inductive: a goroutine writes what it decided on earlier     *)
(* reads, so the invariant says, for every statement, what still holds of  *)
(* those reads when the write comes.  It rests on two facts of the code:   *)
(* no statement makes a job blocked again, and only the scheduler loop     *)
(* ever rewrites depends_on.                                                *)
(***************************************************************************)
EXTENDS Daemon

SweepLabel == {"sweep", "sweepSession", "sweepStatus"}

(* Statements after the candidates were listed. *)
TickLabel == SchedLabel \ (SweepLabel \cup {"idle"})

(* From MarkRunning's write to the end of a run. *)
ActiveLabel == {"mark", "register", "finishHalted"} \cup RunLabel

(* Statements whose target was dispatchable when it was read. *)
HoldsReleased == {"deferWrite", "dispatch", "markRead"} \cup ActiveLabel \cup PromoteLabel

(* Statements at which PromoteSteps may have created children. *)
KidsLabel == {"promoteResolve", "promoteCreate", "rewireList"} \cup RewireLabel

Writable == {"queued", "blocked", "cancelled"}   \* what computeStatus returns

(* The histories against the table. *)
HistoryInv ==
    /\ released \subseteq Jobs
    /\ \A j \in JobId :
          /\ status[j] \in Dispatchable \cup {"running"} => j \in released
          /\ status[j] = "succeeded" => j \in succeeded
          /\ status[j] = "blocked" => j \notin released

(* What a goroutine in the middle of an operation may still rely on. *)
Pending(p) ==
    /\ pc[p] \in HoldsReleased => target[p] \in released
    /\ pc[p] = "cancel" => target[p] \in Jobs /\ verdict[p] = "cancelled"
    /\ pc[p] = "mark" => verdict[p] = "running"
    /\ pc[p] = "finishHalted" => verdict[p] = "failed"
    /\ pc[p] = "deferWrite" => verdict[p] = "deferred_oversized"
    /\ pc[p] \in {"finishSession", "finishStatus"} =>
          verdict[p] \in {"succeeded", "failed", "paused_budget"}
    /\ pc[p] = "create" =>
          /\ Elements(wish[p].deps) \subseteq Jobs
          /\ verdict[p] \in Writable
          /\ verdict[p] = "queued" => Elements(wish[p].deps) \subseteq succeeded

PendingInv == \A p \in Proc : Pending(p)

(* What the sweep has listed is still as it was listed. *)
SweepInv ==
    /\ pc[Sched] = "idle" => todo = {}
    /\ pc[Sched] \in SweepLabel =>
          \A j \in todo : j \in Jobs \ released /\ listed[j] = dependsOn[j]
    /\ pc[Sched] \in {"sweepSession", "sweepStatus"} =>
          /\ target[Sched] \in Jobs \ todo
          /\ verdict[Sched] \in {"queued", "cancelled"}
          /\ verdict[Sched] = "queued" =>
                Elements(dependsOn[target[Sched]]) \subseteq succeeded

(* The candidates, and the promotion of one of them. *)
TickInv ==
    /\ pc[Sched] \in TickLabel => todo \subseteq released
    /\ pc[Sched] \notin KidsLabel => kids = <<>>
    /\ pc[Sched] \in PromoteLabel => origin[target[Sched]].steps # <<>>
    /\ pc[Sched] \in KidsLabel =>
          \A i \in DOMAIN kids :
             kids[i] \in Jobs /\ origin[kids[i]].parent = target[Sched]
    /\ pc[Sched] = "promoteCreate" =>
          /\ verdict[Sched] \in Writable
          /\ verdict[Sched] = "queued" => Elements(StepDeps) \subseteq succeeded
    /\ pc[Sched] \in {"rewireList"} \cup RewireLabel => kids # <<>>
    /\ pc[Sched] \notin RewireLabel => rewires = {}
    /\ \A j \in rewires :
          /\ j \in Jobs \ released
          /\ listed[j] = dependsOn[j]
          /\ target[Sched] \in Elements(dependsOn[j])

(* A dependency was there first: it belongs to an earlier job, or to an     *)
(* earlier step of the same promoted job.  Repointing a dependent of a job  *)
(* at that job's last step moves it along this order, not against it. *)
Precedes(d, j) ==
    \/ Root(d) < Root(j)
    \/ /\ origin[d].parent # NoJob
       /\ origin[d].parent = origin[j].parent
       /\ d < j

DepsBefore(j) ==
    \A i \in DOMAIN dependsOn[j] :
        dependsOn[j][i] \in Jobs /\ Precedes(dependsOn[j][i], j)

(* A child has an earlier parent, which is no child itself, and no steps.   *)
ParentBefore(j) ==
    origin[j].parent # NoJob =>
        /\ origin[j].parent < j
        /\ origin[origin[j].parent].parent = NoJob
        /\ origin[j].steps = <<>>

OrderInv == \A j \in Jobs : DepsBefore(j) /\ ParentBefore(j)

(* The inductive invariant. *)
DependencyInv ==
    /\ TypeOK
    /\ DependencySafety
    /\ HistoryInv
    /\ PendingInv
    /\ SweepInv
    /\ TickInv
    /\ OrderInv

-----------------------------------------------------------------------------

(* What Halt relies on to reach a run: unless another run of the same job   *)
(* overlapped it, a run is the one its job's id is registered for, until it *)
(* has deleted that registration itself, and it is the job's only run.      *)
(* While the kill switch is on its context is cancelled, because it was     *)
(* registered before the switch was set and nothing registers after.        *)
RegistrationInv ==
    \A p \in Proc : pc[p] \in RunLabel /\ p \notin shared =>
        /\ running[target[p]] = p
        /\ Rivals(p) = {}
        /\ halted => p \in cancelled

(* Every variable has its type, and the registrations are as Halt needs     *)
(* them. *)
HaltInv == TypeOK /\ RegistrationInv

-----------------------------------------------------------------------------

(* Where a child stands in its chain: the first step waits for nothing, and *)
(* every other one for the step before it alone.  Repointing leaves that as *)
(* it is: it replaces a job that has steps, and a child has none.           *)
ChainLink(c) ==
    origin[c].parent # NoJob =>
        /\ origin[c].step > 0
        /\ origin[c].step = 1 => dependsOn[c] = <<>>
        /\ origin[c].step > 1 =>
              /\ DOMAIN dependsOn[c] = {1}
              /\ origin[dependsOn[c][1]].parent = origin[c].parent
              /\ origin[dependsOn[c][1]].step = origin[c].step - 1

(* While PromoteSteps creates children, they are all the children its       *)
(* parent has, in the order of its steps: it began when there were none,    *)
(* and nobody else creates any. *)
KidsAreChildren ==
    pc[Sched] \in KidsLabel =>
        /\ Children(target[Sched]) = Elements(kids)
        /\ \A i \in DOMAIN kids : origin[kids[i]].step = i

(* The inductive invariant behind StepsCreatedOnce. *)
StepsInv ==
    /\ StepsCreatedOnce
    /\ \A c \in Jobs : ChainLink(c)
    /\ KidsAreChildren

(* Statements of the scheduler loop at which its target has not succeeded.  *)
NotYetSucceeded ==
    {"deferWrite", "dispatch", "markRead", "mark", "register", "finishHalted",
     "check", "exec", "finishSession", "finishStatus"} \cup PromoteLabel

(* While the scheduler loop is the only one to run jobs, one that has       *)
(* succeeded is never touched again but to be cancelled, and it recorded    *)
(* its session first. *)
SucceededInv ==
    /\ succeeded \subseteq released
    /\ \A j \in succeeded : session[j] /\ status[j] \in {"succeeded", "cancelled"}
    /\ pc[Sched] # "unregister" => todo \cap succeeded = {}
    /\ pc[Sched] \in NotYetSucceeded => target[Sched] \notin succeeded
    /\ pc[Sched] = "finishStatus" /\ verdict[Sched] = "succeeded" =>
          session[target[Sched]]

(* A step is released only once the steps before it have succeeded. *)
InTurn ==
    \A c, d \in Jobs :
        (/\ origin[c].parent # NoJob
         /\ origin[c].parent = origin[d].parent
         /\ origin[c].step < origin[d].step
         /\ d \in released) => c \in succeeded

(* The inductive invariant behind ChainConversation and OneStepAtATime,     *)
(* when nobody dispatches by hand. *)
ChainInv ==
    /\ \A c \in Clients : pc[c] \in {"idle", "create", "cancel"}
    /\ SucceededInv
    /\ InTurn
    /\ ChainConversation
    /\ pc[Sched] \in KidsLabel => Elements(kids) \cap succeeded = {}
    /\ pc[Sched] \in {"sweepSession", "sweepStatus"} => target[Sched] \notin released
    /\ (/\ pc[Sched] = "sweepStatus" /\ verdict[Sched] = "queued"
        /\ origin[target[Sched]].parent # NoJob
        /\ dependsOn[target[Sched]] # <<>>) => session[target[Sched]]

(* PromoteSteps is at work on p. *)
Dividing(p) == pc[Sched] \in KidsLabel /\ target[Sched] = p

(* As many children as there are steps, before the parent is marked, and    *)
(* some children wherever it is. *)
DivisionInv ==
    /\ pc[Sched] \in {"promoteResolve", "promoteCreate"} =>
          Len(kids) < Len(origin[target[Sched]].steps)
    /\ pc[Sched] \in {"rewireList"} \cup RewireLabel =>
          Len(kids) = Len(origin[target[Sched]].steps)
    /\ pc[Sched] = "promoteMark" => Children(target[Sched]) # {}
    /\ \A p \in InStatus({"promoted"}) : Children(p) # {}

(* The inductive invariant behind PromotionComplete, when no statement      *)
(* fails and the process does not die. *)
PromotionInv ==
    /\ DivisionInv
    /\ PromotionComplete
    /\ \A p \in Jobs :
          Divisible(p) /\ Children(p) # {} /\ ~Dividing(p) =>
              {origin[c].step : c \in Children(p)} = DOMAIN origin[p].steps

(* The one behind NoPromotedDependency, when moreover nobody enqueues a job *)
(* with dependencies while the daemon runs. *)
RepointedInv ==
    /\ \A c \in Clients : pc[c] = "create" => Elements(wish[c].deps) = {}
    /\ \A p \in Jobs, j \in InStatus({"blocked"}) :
          (/\ Divisible(p) /\ Children(p) # {} /\ ~Dividing(p))
          => p \notin Elements(dependsOn[j])
    /\ pc[Sched] \in RewireLabel =>
          \A j \in InStatus({"blocked"}) :
              target[Sched] \in Elements(dependsOn[j]) => j \in rewires
=============================================================================
