---------------------------- MODULE ChainProofs -----------------------------
(***************************************************************************)
(* The chains that PromoteSteps makes of jobs with steps, for any number of *)
(* jobs, clients, requests and faults: their steps are created once, run in *)
(* turn and share a conversation, and what waited for the whole waits for   *)
(* its last step.                                                           *)
(***************************************************************************)
EXTENDS DaemonProofs

-----------------------------------------------------------------------------
(***************************************************************************)
(* Steps are created once: StepsInv is inductive.                           *)
(***************************************************************************)

(* PromoteSteps creates the children, then repoints the dependents, and     *)
(* then marks the parent. *)
CreateLabel == {"promoteResolve", "promoteCreate"}
RepointLabel == {"rewireList"} \cup RewireLabel
Phases == {CreateLabel, RepointLabel, {"promoteMark"}}

(* No children are added to those of the promotion under way, which enters  *)
(* no new phase, and no promotion is begun. *)
KidsStay ==
    \A L \in Phases :
        pc'[Sched] \in L =>
            pc[Sched] \in L /\ target'[Sched] = target[Sched] /\ kids' = kids

LEMMA KidsPhases == KidsLabel = CreateLabel \cup RepointLabel
BY DEF KidsLabel, CreateLabel, RepointLabel

(* What KidsStay says of the first two phases. *)
LEMMA KidsStayed ==
    ASSUME KidsStay, pc'[Sched] \in KidsLabel
    PROVE  pc[Sched] \in KidsLabel /\ target'[Sched] = target[Sched] /\ kids' = kids
BY KidsPhases DEF KidsStay, Phases

(* No row is inserted, and no dependency list rewritten. *)
RowsStay == UNCHANGED <<count, origin, dependsOn>>

LEMMA TableRowsStay == UNCHANGED tableVars => RowsStay
BY DEF tableVars, RowsStay

(* A goroutine other than the scheduler loop moves. *)
LoopStands == Stays(Sched) /\ UNCHANGED tickVars

LEMMA OthersStay == LoopStands => KidsStay
BY SchedLabels DEF LoopStands, KidsStay, Stays, tickVars

(* A run that some request started. *)
LEMMA OtherRuns ==
    ASSUME TypeOK, NEW p \in Proc, p # Sched, Run(p) \/ EndRun(p)
    PROVE  LoopStands
<1>1. Sched \in Proc \ {p} /\ LocalTypeOK
  BY SchedLabels DEF TypeOK, QueueTypeOK
<1>2. Stays(Sched)
  BY <1>1, GotoMoves, EnterMoves, ReturnMoves
     DEF Run, EndRun, MarkWrite, RefuseHalted, FinishHalted, Register, RefuseExhausted,
         StartFails, StartRun, FinishSession, FinishStatus, Unregister, RunError, RunResult
<1> QED
  BY <1>2
     DEF LoopStands, Run, EndRun, MarkWrite, RefuseHalted, FinishHalted, Register,
         RefuseExhausted, StartFails, StartRun, FinishSession, FinishStatus, Unregister,
         RunError, RunResult, Return

(* A request. *)
LEMMA Handlers ==
    ASSUME TypeOK, NEW c \in Clients,
           HandleCreateJob(c) \/ HandleCancelJob(c) \/ HandleDispatchJob(c) \/ Respond(c)
    PROVE  LoopStands
<1>1. c \in Proc /\ Sched \in Proc \ {c} /\ LocalTypeOK
  BY SchedLabels, Constants DEF TypeOK, QueueTypeOK
<1>2. UNCHANGED tickVars
  BY DEF HandleCreateJob, EnqueueResolve, HandleCancelJob, CancelRead, HandleDispatchJob,
         Respond, CancelWrite, EnqueueCreate
<1>3. Stays(Sched)
  <2>1. CASE HandleCreateJob(c)
    BY <1>1, <2>1 DEF HandleCreateJob, EnqueueResolve, LocalTypeOK, Stays
  <2> QED
    BY <1>1, <2>1, EnterMoves, LeaveMoves
       DEF HandleCancelJob, CancelRead, HandleDispatchJob, MarkRead, Respond, CancelWrite,
           EnqueueCreate
<1> QED
  BY <1>2, <1>3 DEF LoopStands

(* The scheduler loop is done with the promotion, or has none under way. *)
LEMMA Elsewhere == pc'[Sched] \notin KidsLabel \cup {"promoteMark"} => KidsStay
BY KidsPhases DEF KidsStay, Phases

(* Runs. *)
LEMMA RunStays ==
    ASSUME TypeOK, NEW p \in Proc, Run(p) \/ EndRun(p)
    PROVE  KidsStay /\ RowsStay
<1> USE DEF TypeOK, QueueTypeOK
<1>1. LocalTypeOK
  OBVIOUS
<1>2. RowsStay
  BY TableRowsStay
     DEF Run, EndRun, MarkWrite, RefuseHalted, FinishHalted, Register, RefuseExhausted,
         StartFails, StartRun, FinishSession, FinishStatus, Unregister, RunError, RunResult,
         UpdateStatus, UpdateSessionID, RowsStay
<1>3. pc'[p] \notin KidsLabel \cup {"promoteMark"}
  BY <1>1, GotoMoves, EnterMoves, ReturnMoves
     DEF Run, EndRun, MarkWrite, RefuseHalted, FinishHalted, Register, RefuseExhausted,
         StartFails, StartRun, FinishSession, FinishStatus, Unregister, RunError, RunResult,
         KidsLabel, RewireLabel
<1>4. CASE p = Sched
  BY <1>2, <1>3, <1>4, Elsewhere
<1>5. CASE p # Sched
  BY <1>2, <1>5, OtherRuns, OthersStay
<1> QED
  BY <1>4, <1>5

(* Requests: only the second half of an Enqueue inserts a row. *)
LEMMA RequestStays ==
    ASSUME TypeOK, NEW c \in Clients,
           HandleCreateJob(c) \/ HandleCancelJob(c) \/ HandleDispatchJob(c) \/ Respond(c)
    PROVE  KidsStay /\ (RowsStay \/ EnqueueCreate(c))
<1>1. RowsStay \/ EnqueueCreate(c)
  BY TableRowsStay
     DEF HandleCreateJob, EnqueueResolve, HandleCancelJob, CancelRead, HandleDispatchJob,
         MarkRead, Respond, CancelWrite, UpdateStatus, RowsStay
<1> QED
  BY <1>1, Handlers, OthersStay

(* The scheduler loop outside PromoteSteps. *)
LEMMA TickStays ==
    ASSUME TypeOK,
           Sweep \/ TickHold \/ TickAdmit \/ TickDone \/ Fit \/ Defer \/ DispatchOne \/ SchedMark
    PROVE  KidsStay /\ RowsStay
<1> USE SchedLabels DEF TypeOK, QueueTypeOK, KidsLabel, RewireLabel
<1>1. LocalTypeOK
  OBVIOUS
<1>2. RowsStay
  <2>1. CASE Sweep \/ Defer
    BY <2>1, TableRowsStay
       DEF Sweep, SweepList, SweepPass, SweepResolve, SweepSession, SweepStatus, Defer,
           DeferWrite, UpdateStatus, UpdateSessionID, RowsStay
  <2>2. CASE TickHold \/ TickAdmit \/ TickDone \/ DispatchOne \/ SchedMark
    BY <2>2, TableRowsStay DEF TickHold, TickAdmit, TickDone, DispatchOne, SchedMark
  <2>3. CASE Fit
    BY <2>3, TableRowsStay
       DEF Fit, FitDispatch, FitCapBudget, FitDefer, FitPromoteSteps, FitRefused, DeferRead,
           PromoteRead
  <2> QED
    BY <2>1, <2>2, <2>3
<1> SUFFICES KidsStay
  BY <1>2
<1>3. ASSUME NEW l, l \notin KidsLabel \cup {"promoteMark"}, Goto(Sched, l) \/ Leave(Sched, l)
      PROVE  KidsStay
  BY <1>1, <1>3, GotoMoves, LeaveMoves, Elsewhere
<1>4. ASSUME NEW l, l \notin KidsLabel \cup {"promoteMark"}, NEW j, NEW s, Enter(Sched, l, j, s)
      PROVE  KidsStay
  BY <1>1, <1>4, EnterMoves, Elsewhere
<1>5. EndTick => KidsStay
  BY <1>3 DEF EndTick
<1>6. CASE Sweep
  <2>1. CASE SweepList \/ SweepSession \/ SweepStatus
    BY <1>3, <2>1 DEF SweepList, SweepSession, SweepStatus
  <2>2. ASSUME NEW j \in todo, SweepPass(j)
        PROVE  KidsStay
    BY <2>2 DEF SweepPass, procVars, KidsStay
  <2>3. ASSUME NEW j \in todo, SweepResolve(j)
        PROVE  KidsStay
    BY <1>4, <2>3 DEF SweepResolve
  <2> QED
    BY <1>6, <2>1, <2>2, <2>3 DEF Sweep
<1>7. CASE TickHold \/ TickAdmit \/ TickDone \/ Defer
  BY <1>3, <1>5, <1>7 DEF TickHold, TickAdmit, TickDone, Defer, DeferWrite
<1>8. CASE Fit
  <2>1. ASSUME NEW j, DeferRead(j)
        PROVE  KidsStay
    BY <1>4, <2>1 DEF DeferRead, procVars, KidsStay
  <2>2. ASSUME NEW j, PromoteRead(j)
        PROVE  KidsStay
    BY <1>1, <2>2, Elsewhere DEF PromoteRead, LocalTypeOK
  <2>3. ASSUME NEW j, FitDispatch(j)
        PROVE  KidsStay
    BY <1>4, <2>3 DEF FitDispatch
  <2> QED
    BY <1>5, <1>8, <2>1, <2>2, <2>3
       DEF Fit, FitCapBudget, FitDefer, FitPromoteSteps, FitRefused
<1>9. CASE DispatchOne \/ SchedMark
  BY <1>3, <1>4, <1>5, <1>9 DEF DispatchOne, SchedMark, MarkRead
<1> QED
  BY <1>6, <1>7, <1>8, <1>9

(* PromoteSteps. *)
LEMMA PromoteStays ==
    ASSUME TypeOK, Promote
    PROVE  \/ KidsStay /\ RowsStay
           \/ PromoteExisting \/ PromoteBegin \/ PromoteCreate
           \/ KidsStay /\ \E j \in rewires : RewireJob(j)
<1> USE SchedLabels DEF TypeOK, QueueTypeOK, KidsLabel, RewireLabel
<1>1. LocalTypeOK
  OBVIOUS
<1>2. CASE PromoteRefused \/ PromoteBlankStep \/ PromoteMark
  <2>1. RowsStay
    BY <1>2, TableRowsStay
       DEF PromoteRefused, PromoteBlankStep, PromoteMark, UpdateStatus, RowsStay
  <2>2. pc'[Sched] \in {"idle", "fit"}
    BY <1>1, <1>2, LeaveMoves
       DEF PromoteRefused, PromoteBlankStep, PromoteMark, EndTick
  <2> QED
    BY <2>1, <2>2, Elsewhere
<1>3. CASE PromoteResolve
  <2>1. /\ pc[Sched] = "promoteResolve" /\ pc'[Sched] = "promoteCreate"
        /\ target'[Sched] = target[Sched] /\ kids' = kids /\ RowsStay
    BY <1>1, <1>3, TableRowsStay DEF PromoteResolve, LocalTypeOK, tickVars
  <2> QED
    BY <2>1 DEF KidsStay, Phases, CreateLabel, RepointLabel
<1>4. CASE RewireList
  <2>1. RowsStay
    BY <1>4, TableRowsStay DEF RewireList
  <2>2. /\ target'[Sched] = target[Sched] /\ kids' = kids
        /\ pc[Sched] = "rewireList" /\ pc'[Sched] = "rewire"
    BY <1>1, <1>4, GotoMoves DEF RewireList
  <2> QED
    BY <2>1, <2>2 DEF KidsStay, Phases, CreateLabel, RepointLabel
<1>5. ASSUME NEW j \in rewires, RewireJob(j)
      PROVE  KidsStay
  BY <1>5 DEF RewireJob, procVars, KidsStay
<1> QED
  BY <1>2, <1>3, <1>4, <1>5 DEF Promote

(* Failed statements and crashes. *)
LEMMA FaultStays ==
    ASSUME TypeOK, (\E p \in Proc : StoreError(p)) \/ Crash
    PROVE  KidsStay /\ RowsStay
<1> USE SchedLabels DEF TypeOK, QueueTypeOK
<1>1. LocalTypeOK
  OBVIOUS
<1>2. RowsStay
  BY TableRowsStay DEF StoreError, Crash
<1>3. CASE Crash
  BY <1>2, <1>3, Elsewhere DEF Crash, KidsLabel, RewireLabel
<1>4. ASSUME NEW p \in Proc, StoreError(p)
      PROVE  KidsStay
  <2>1. CASE p # Sched
    <3>1. (Return(p) \/ Goto(p, "unregister")) /\ UNCHANGED tickVars
      BY <1>1, <1>4, <2>1, SchedAt
         DEF StoreError, Return, ClientLabel, RunLabel, RewireLabel
    <3> QED
      BY <1>1, <2>1, <3>1, ReturnMoves, GotoMoves, OthersStay DEF LoopStands
  <2>2. CASE p = Sched /\ pc[Sched] \in KidsLabel \cup {"promoteMark"}
    <3>1. \/ Return(Sched)
          \/ Goto(Sched, "rewireFailed") /\ kids' = kids /\ pc[Sched] \in RepointLabel
      BY <1>4, <2>2 DEF StoreError, KidsLabel, RewireLabel, RepointLabel, tickVars
    <3>2. Return(Sched) => KidsStay
      BY <1>1, ReturnMoves, Elsewhere DEF KidsLabel, RewireLabel
    <3> QED
      BY <1>1, <2>2, <3>1, <3>2, GotoMoves
         DEF KidsStay, Phases, CreateLabel, RepointLabel, RewireLabel
  <2>3. CASE p = Sched /\ pc[Sched] \notin KidsLabel \cup {"promoteMark"}
    <3>1. pc'[Sched] \notin KidsLabel \cup {"promoteMark"}
      BY <1>1, <1>4, <2>3, GotoMoves, LeaveMoves, ReturnMoves
         DEF StoreError, KidsLabel, RewireLabel, procVars
    <3> QED
      BY <3>1, Elsewhere
  <2> QED
    BY <2>1, <2>2, <2>3
<1> QED
  BY <1>2, <1>3, <1>4

(* Whatever step is taken: rows are inserted by an Enqueue or by            *)
(* PromoteSteps, and a dependency list rewritten by the latter alone. *)
LEMMA WhatStepsDo ==
    ASSUME TypeOK, [Next]_vars
    PROVE  \/ KidsStay /\ RowsStay
           \/ KidsStay /\ \E c \in Clients : EnqueueCreate(c)
           \/ PromoteExisting
           \/ PromoteBegin
           \/ PromoteCreate
           \/ KidsStay /\ \E j \in rewires : RewireJob(j)
<1>1. CASE SchedStep
  BY <1>1, TickStays, PromoteStays DEF SchedStep
<1>2. CASE HandleHalt \/ HandleResume \/ UNCHANGED vars
  BY <1>2, TableRowsStay
     DEF HandleHalt, Halt, HandleResume, Resume, vars, procVars, tickVars, KidsStay
<1> QED
  BY <1>1, <1>2, RunStays, RequestStays, FaultStays DEF Next

-----------------------------------------------------------------------------

(* What an insertion does to the table. *)
LEMMA RowInserted ==
    ASSUME TypeOK, HistoryInv, NEW ds \in Seq(JobId), NEW o \in Origin, NEW h \in BOOLEAN,
           NEW s \in Writable, CreateJob(ds, o, h, s)
    PROVE  /\ count + 1 \in JobId \ (Jobs \cup released) /\ Jobs' = Jobs \cup {count + 1}
           /\ \A j \in Jobs : UNCHANGED <<status[j], dependsOn[j], session[j], origin[j]>>
           /\ status'[count + 1] = s /\ dependsOn'[count + 1] = ds
           /\ session'[count + 1] = h /\ origin'[count + 1] = o
           /\ released' = IF s = "queued" THEN released \cup {count + 1} ELSE released
           /\ succeeded' = succeeded
<1>1. count \in Nat /\ count' = count + 1
  BY Constants DEF TypeOK, StoreTypeOK, CreateJob
<1>2. count + 1 \in JobId
  BY CreateJobType DEF TypeOK, Writable, Status
<1>3. count + 1 \notin Jobs /\ Jobs' = Jobs \cup {count + 1}
  BY <1>1 DEF Jobs
<1>4. Jobs \subseteq JobId
  BY JobsInJobId DEF TypeOK
<1>5. \A j \in Jobs : j # count + 1
  BY <1>3
<1>6. PICK n : n = count + 1
  OBVIOUS
<1> QED
  BY <1>2, <1>3, <1>4, <1>5, <1>6
     DEF CreateJob, Remember, Writable, Dispatchable, TypeOK, StoreTypeOK, HistoryInv

(* A user's row is inserted. *)
LEMMA UserRow ==
    ASSUME DependencyInv, NEW c \in Clients, EnqueueCreate(c)
    PROVE  \E ds \in Seq(JobId), o \in Origin, s \in Writable :
              /\ CreateJob(ds, o, FALSE, s)
              /\ o.parent = NoJob /\ o.steps = wish[c].job.steps
              /\ s = verdict[c] /\ ds = wish[c].deps
<1>1. c \in Proc /\ wish[c] \in [deps : Seq(JobId), job : Template]
  BY SchedLabels DEF DependencyInv, TypeOK, QueueTypeOK, LocalTypeOK
<1>2. verdict[c] \in Writable
  BY <1>1 DEF DependencyInv, PendingInv, Pending, EnqueueCreate
<1>3. [steps |-> wish[c].job.steps, resumable |-> wish[c].job.resumable,
       parent |-> NoJob, step |-> 0] \in Origin
  BY <1>1, OriginType DEF Template
<1> QED
  BY <1>1, <1>2, <1>3 DEF EnqueueCreate

(* The job PromoteSteps is at work on. *)
LEMMA ParentAtWork ==
    ASSUME DependencyInv, pc[Sched] \in PromoteLabel
    PROVE  /\ target[Sched] \in released /\ target[Sched] \in Jobs /\ target[Sched] \in JobId
           /\ origin[target[Sched]].parent = NoJob /\ origin[target[Sched]].steps # <<>>
           /\ origin[target[Sched]].steps \in Seq(Prompt)
<1>1. target[Sched] \in released
  BY SchedLabels DEF DependencyInv, PendingInv, Pending, HoldsReleased
<1>2. target[Sched] \in Jobs /\ target[Sched] \in JobId
  BY <1>1, JobsInJobId DEF DependencyInv, HistoryInv, TypeOK
<1>3. origin[target[Sched]].steps # <<>>
  BY DEF DependencyInv, TickInv
<1> QED
  BY <1>1, <1>2, <1>3
     DEF DependencyInv, OrderInv, ParentBefore, TypeOK, StoreTypeOK, Origin

(* The child PromoteSteps creates. *)
LEMMA NextChild ==
    ASSUME DependencyInv, PromoteCreate
    PROVE  /\ StepDeps \in Seq(JobId) /\ verdict[Sched] \in Writable
           /\ \E o \in Origin :
                 /\ o.parent = target[Sched] /\ o.step = Len(kids) + 1 /\ o.steps = <<>>
                 /\ CreateJob(StepDeps, o, Len(kids) = 0 /\ convo[Sched], verdict[Sched])
           /\ Len(kids) \in Nat /\ DOMAIN kids = 1 .. Len(kids)
           /\ Len(kids') = Len(kids) + 1 /\ DOMAIN kids' = 1 .. Len(kids) + 1
           /\ \A k \in 1 .. Len(kids) : kids'[k] = kids[k]
           /\ kids'[Len(kids) + 1] = count + 1
           /\ target'[Sched] = target[Sched]
           /\ pc'[Sched] = IF Len(kids) + 1 = Len(origin[target[Sched]].steps)
                           THEN "rewireList" ELSE "promoteResolve"
<1> DEFINE p == target[Sched]
           o == [steps |-> <<>>, resumable |-> origin[p].resumable, parent |-> p,
                 step |-> Len(kids) + 1]
<1> USE SchedLabels DEF DependencyInv, TypeOK, QueueTypeOK
<1>1. pc[Sched] = "promoteCreate" /\ verdict[Sched] \in Writable /\ p \in JobId
  BY ParentAtWork DEF PromoteCreate, TickInv, PromoteLabel
<1>2. kids \in Seq(JobId) /\ Len(kids) \in Nat /\ DOMAIN kids = 1 .. Len(kids)
  BY LenProperties DEF TickTypeOK
<1>3. StepDeps \in Seq(JobId)
  BY <1>2, StepDepsType
<1>4. o \in Origin
  <2>1. <<>> \in Seq(Prompt) /\ origin[p].resumable \in BOOLEAN /\ Len(kids) + 1 \in Nat
    BY <1>1, <1>2 DEF StoreTypeOK, Origin
  <2> QED
    BY <1>1, <2>1, OriginType
<1>5. CreateJob(StepDeps, o, Len(kids) = 0 /\ convo[Sched], verdict[Sched])
  <2>1. Len(kids) + 1 = 1 <=> Len(kids) = 0
    BY <1>2
  <2>2. CreateJob(StepDeps, o, Len(kids) + 1 = 1 /\ convo[Sched], verdict[Sched])
    BY DEF PromoteCreate
  <2> QED
    BY <2>1, <2>2
<1>6. kids' = Append(kids, count + 1) /\ count + 1 \in JobId
  <2>1. (Len(kids) = 0 /\ convo[Sched]) \in BOOLEAN
    OBVIOUS
  <2> QED
    BY <1>1, <1>3, <1>4, <1>5, <2>1, CreateJobType DEF PromoteCreate, Writable, Status
<1>7. /\ kids' \in Seq(JobId) /\ Len(kids') = Len(kids) + 1
      /\ \A k \in 1 .. Len(kids) : kids'[k] = kids[k]
      /\ kids'[Len(kids) + 1] = count + 1
  BY <1>2, <1>6, AppendProperties
<1>8. DOMAIN kids' = 1 .. Len(kids) + 1
  BY <1>7, LenProperties
<1>9. /\ target'[Sched] = p
      /\ pc'[Sched] = IF Len(kids) + 1 = Len(origin[p].steps)
                      THEN "rewireList" ELSE "promoteResolve"
  BY GotoMoves DEF PromoteCreate
<1> QED
  BY <1>1, <1>2, <1>3, <1>4, <1>5, <1>7, <1>8, <1>9

(* The place of a job in its chain depends on its row and on those it waits *)
(* for. *)
LEMMA LinkKept ==
    ASSUME OrderInv, NEW c \in Jobs, ChainLink(c),
           \A j \in Jobs : UNCHANGED <<dependsOn[j], origin[j]>>
    PROVE  ChainLink(c)'
<1> SUFFICES ASSUME origin[c].parent # NoJob, origin[c].step > 1
             PROVE  UNCHANGED origin[dependsOn[c][1]]
  BY DEF ChainLink
<1>1. 1 \in DOMAIN dependsOn[c]
  BY DEF ChainLink
<1>2. dependsOn[c][1] \in Jobs
  BY <1>1 DEF OrderInv, DepsBefore
<1> QED
  BY <1>2

(* A step that inserts no row and begins no promotion. *)
LEMMA StepsFrame ==
    ASSUME DependencyInv, StepsInv, RowsStay, KidsStay
    PROVE  StepsInv'
<1>1. UNCHANGED <<Jobs, origin, dependsOn>>
  BY DEF RowsStay, Jobs
<1>2. StepsCreatedOnce' /\ \A c \in Jobs' : ChainLink(c)'
  BY <1>1 DEF StepsInv, StepsCreatedOnce, ChainLink
<1>3. KidsAreChildren'
  BY <1>1, KidsStayed DEF StepsInv, KidsAreChildren, Children, Elements
<1> QED
  BY <1>2, <1>3 DEF StepsInv

(* PromoteSteps finds children. *)
LEMMA StepsExisting ==
    ASSUME TypeOK, StepsInv, PromoteExisting
    PROVE  StepsInv'
<1> USE SchedLabels DEF TypeOK, QueueTypeOK
<1>1. UNCHANGED <<Jobs, origin, dependsOn>>
  BY DEF PromoteExisting, tableVars, Jobs
<1>2. pc'[Sched] \in {"fit", "promoteMark"}
  BY GotoMoves, LeaveMoves DEF PromoteExisting
<1>3. StepsCreatedOnce' /\ \A c \in Jobs' : ChainLink(c)'
  BY <1>1 DEF StepsInv, StepsCreatedOnce, ChainLink
<1>4. KidsAreChildren'
  BY <1>2 DEF KidsAreChildren, KidsLabel, RewireLabel
<1> QED
  BY <1>3, <1>4 DEF StepsInv

LEMMA StepsEnqueued ==
    ASSUME DependencyInv, StepsInv, NEW c \in Clients, EnqueueCreate(c), KidsStay
    PROVE  StepsInv'
<1>1. PICK new : new = count + 1
  OBVIOUS
<1>2. /\ new \notin Jobs /\ Jobs' = Jobs \cup {new}
      /\ \A j \in Jobs : UNCHANGED <<dependsOn[j], origin[j]>>
      /\ origin'[new].parent = NoJob
  <2>1. PICK ds \in Seq(JobId), o \in Origin, s \in Writable :
           CreateJob(ds, o, FALSE, s) /\ o.parent = NoJob
    BY UserRow
  <2> QED
    BY <1>1, <2>1, RowInserted DEF DependencyInv
<1>3. StepsCreatedOnce'
  BY <1>2 DEF StepsInv, StepsCreatedOnce
<1>4. \A j \in Jobs' : ChainLink(j)'
  <2>1. \A j \in Jobs : ChainLink(j)'
    BY <1>2, LinkKept DEF StepsInv, DependencyInv
  <2>2. ChainLink(new)'
    BY <1>2 DEF ChainLink
  <2> QED
    BY <1>2, <2>1, <2>2
<1>5. KidsAreChildren'
  <2> SUFFICES ASSUME pc'[Sched] \in KidsLabel
               PROVE  /\ Children(target[Sched])' = Elements(kids)
                      /\ \A i \in DOMAIN kids : origin'[kids[i]].step = i
    BY KidsStayed DEF KidsAreChildren, Elements, Children
  <2>1. pc[Sched] \in KidsLabel /\ target'[Sched] = target[Sched]
    BY KidsStayed
  <2>2. target[Sched] # NoJob
    BY <2>1, ParentAtWork, Constants DEF KidsLabel, RewireLabel, PromoteLabel, JobId, NoJob
  <2>3. Children(target[Sched])' = Children(target[Sched])
    BY <1>2, <2>1, <2>2 DEF Children
  <2>4. Children(target[Sched]) = Elements(kids)
    BY <2>1 DEF StepsInv, KidsAreChildren
  <2>5. \A i \in DOMAIN kids : kids[i] \in Jobs /\ origin[kids[i]].step = i
    BY <2>1 DEF StepsInv, KidsAreChildren, DependencyInv, TickInv
  <2> QED
    BY <1>2, <2>3, <2>4, <2>5
<1> QED
  BY <1>3, <1>4, <1>5 DEF StepsInv

(* PromoteSteps begins: it has found no children. *)
LEMMA StepsBegun ==
    ASSUME DependencyInv, StepsInv, PromoteBegin
    PROVE  StepsInv'
<1> USE SchedLabels DEF DependencyInv, TypeOK, QueueTypeOK
<1>1. /\ pc[Sched] = "promoteList" /\ Children(target[Sched]) = {}
      /\ UNCHANGED <<Jobs, origin, dependsOn, kids>> /\ target'[Sched] = target[Sched]
  BY GotoMoves DEF PromoteBegin, tableVars, tickVars, Jobs
<1>2. kids = <<>>
  BY <1>1 DEF TickInv, KidsLabel, RewireLabel
<1>3. StepsCreatedOnce' /\ \A c \in Jobs' : ChainLink(c)'
  BY <1>1 DEF StepsInv, StepsCreatedOnce, ChainLink
<1>4. KidsAreChildren'
  BY <1>1, <1>2 DEF KidsAreChildren, Children, Elements
<1> QED
  BY <1>3, <1>4 DEF StepsInv

(* The next step's child is created: it has a number none of its siblings   *)
(* has, and waits for the last of them. *)
LEMMA StepsDivided ==
    ASSUME DependencyInv, StepsInv, PromoteCreate
    PROVE  StepsInv'
<1> DEFINE p == target[Sched]
<1>1. PICK new, n : new = count + 1 /\ n = Len(kids)
  OBVIOUS
<1>2. /\ new \notin Jobs /\ Jobs' = Jobs \cup {new}
      /\ \A j \in Jobs : UNCHANGED <<dependsOn[j], origin[j]>>
      /\ origin'[new].parent = p /\ origin'[new].step = n + 1
      /\ dependsOn'[new] = StepDeps
  <2>1. PICK o \in Origin :
           /\ o.parent = p /\ o.step = n + 1
           /\ CreateJob(StepDeps, o, n = 0 /\ convo[Sched], verdict[Sched])
    BY <1>1, NextChild
  <2>2. (n = 0 /\ convo[Sched]) \in BOOLEAN /\ StepDeps \in Seq(JobId)
        /\ verdict[Sched] \in Writable
    BY NextChild
  <2> QED
    BY <1>1, <2>1, <2>2, RowInserted DEF DependencyInv
<1>3. /\ n \in Nat /\ DOMAIN kids = 1 .. n /\ DOMAIN kids' = 1 .. n + 1
      /\ (\A k \in 1 .. n : kids'[k] = kids[k]) /\ kids'[n + 1] = new
      /\ target'[Sched] = p
  BY <1>1, NextChild
<1>4. /\ pc[Sched] = "promoteCreate" /\ Children(p) = Elements(kids) /\ p \in JobId
      /\ p # NoJob
      /\ \A k \in 1 .. n : /\ kids[k] \in Jobs /\ origin[kids[k]].parent = p
                          /\ origin[kids[k]].step = k
  <2>1. pc[Sched] = "promoteCreate" /\ pc[Sched] \in KidsLabel
    BY DEF PromoteCreate, KidsLabel
  <2>2. p \in JobId /\ p # NoJob
    BY <2>1, ParentAtWork, Constants DEF PromoteLabel, JobId, NoJob
  <2>3. Children(p) = Elements(kids) /\ \A k \in 1 .. n : origin[kids[k]].step = k
    BY <1>3, <2>1 DEF StepsInv, KidsAreChildren
  <2>4. \A k \in 1 .. n : kids[k] \in Jobs /\ origin[kids[k]].parent = p
    BY <1>3, <2>1 DEF DependencyInv, TickInv
  <2> QED
    BY <2>1, <2>2, <2>3, <2>4
<1>5. \A d \in Jobs : origin[d].parent = p => origin[d].step \in 1 .. n
  <2> SUFFICES ASSUME NEW d \in Jobs, origin[d].parent = p
               PROVE  origin[d].step \in 1 .. n
    OBVIOUS
  <2>1. PICK k \in 1 .. n : d = kids[k]
    BY <1>3, <1>4 DEF Children, Elements
  <2> QED
    BY <1>4, <2>1
<1>6. StepsCreatedOnce'
  <2> SUFFICES ASSUME NEW c \in Jobs', NEW d \in Jobs',
                      origin'[c].parent # NoJob, origin'[c].parent = origin'[d].parent,
                      origin'[c].step = origin'[d].step
               PROVE  c = d
    BY DEF StepsCreatedOnce
  <2>1. CASE c \in Jobs /\ d \in Jobs
    BY <1>2, <2>1 DEF StepsInv, StepsCreatedOnce
  <2>2. CASE c = new \/ d = new
    BY <1>2, <1>3, <1>5, <2>2
  <2> QED
    BY <1>2, <2>1, <2>2
<1>7. ChainLink(new)'
  <2>1. CASE kids = <<>>
    <3>1. n = 0 /\ StepDeps = <<>>
      BY <1>1, <2>1 DEF StepDeps
    <3> QED
      BY <1>2, <3>1 DEF ChainLink
  <2>2. CASE kids # <<>>
    <3>1. n \in 1 .. n /\ StepDeps = <<kids[n]>>
      BY <1>1, <1>3, <2>2, LastKid DEF StepDeps, DependencyInv
    <3>2. kids[n] \in Jobs /\ origin'[kids[n]].parent = p /\ origin'[kids[n]].step = n
      BY <1>2, <1>4, <3>1
    <3>3. dependsOn'[new][1] = kids[n] /\ DOMAIN dependsOn'[new] = {1} /\ n + 1 > 1
      BY <1>2, <1>3, <3>1
    <3> QED
      BY <1>2, <1>3, <3>2, <3>3 DEF ChainLink
  <2> QED
    BY <2>1, <2>2
<1>8. \A j \in Jobs' : ChainLink(j)'
  <2>1. \A j \in Jobs : ChainLink(j)'
    BY <1>2, LinkKept DEF StepsInv, DependencyInv
  <2> QED
    BY <1>2, <1>7, <2>1
<1>9. KidsAreChildren'
  <2>1. Children(p)' = Children(p) \cup {new}
    BY <1>2, <1>3 DEF Children
  <2>2. Elements(kids)' = Elements(kids) \cup {new}
    <3>1. \A k \in 1 .. n + 1 : k \in 1 .. n \/ k = n + 1
      BY <1>3
    <3>2. 1 .. n \subseteq 1 .. n + 1 /\ n + 1 \in 1 .. n + 1
      BY <1>3
    <3> QED
      BY <1>3, <3>1, <3>2 DEF Elements
  <2>3. \A k \in 1 .. n + 1 : origin'[kids'[k]].step = k
    <3> SUFFICES ASSUME NEW k \in 1 .. n + 1 PROVE origin'[kids'[k]].step = k
      OBVIOUS
    <3>1. CASE k \in 1 .. n
      BY <1>2, <1>3, <1>4, <3>1
    <3>2. CASE k = n + 1
      BY <1>2, <1>3, <3>2
    <3> QED
      BY <1>3, <3>1, <3>2
  <2> QED
    BY <1>3, <1>4, <2>1, <2>2, <2>3 DEF KidsAreChildren, Children
<1> QED
  BY <1>6, <1>8, <1>9 DEF StepsInv

(* A dependent is repointed: no child is one, for the jobs children wait    *)
(* for have no steps. *)
LEMMA StepsRepointed ==
    ASSUME DependencyInv, StepsInv, NEW j \in rewires, RewireJob(j)
    PROVE  StepsInv'
<1> DEFINE p == target[Sched]
<1>1. /\ pc[Sched] \in RewireLabel /\ UNCHANGED <<procVars, kids, count, origin>>
      /\ UNCHANGED Jobs
      /\ j \in Jobs /\ j \in JobId /\ p \in Elements(dependsOn[j])
  BY JobsInJobId DEF RewireJob, UpdateDependsOn, DependencyInv, TickInv, TypeOK, Jobs
<1>2. p \in Jobs /\ origin[p].steps # <<>>
  BY <1>1, ParentAtWork DEF RewireLabel, PromoteLabel
<1>3. \A i \in Jobs : i # j => dependsOn'[i] = dependsOn[i]
  <2>1. Jobs \subseteq JobId /\ dependsOn \in [JobId -> Seq(JobId)]
    BY JobsInJobId DEF DependencyInv, TypeOK, StoreTypeOK
  <2> QED
    BY <2>1 DEF RewireJob, UpdateDependsOn
<1>4. origin[j].parent = NoJob
  <2> SUFFICES ASSUME origin[j].parent # NoJob PROVE FALSE
    OBVIOUS
  <2>1. PICK i \in DOMAIN dependsOn[j] : p = dependsOn[j][i]
    BY <1>1 DEF Elements
  <2>2. ChainLink(j) /\ origin[j] \in Origin /\ origin[p] \in Origin
    BY <1>1, <1>2, JobsInJobId DEF StepsInv, DependencyInv, TypeOK, StoreTypeOK
  <2>3. origin[j].step \in Nat /\ origin[j].step # 1
    BY <2>1, <2>2 DEF ChainLink, Origin
  <2>4. origin[p].parent = origin[j].parent
    BY <2>1, <2>2, <2>3 DEF ChainLink
  <2> QED
    BY <1>2, <2>4 DEF DependencyInv, OrderInv, ParentBefore
<1>5. StepsCreatedOnce'
  BY <1>1 DEF StepsInv, StepsCreatedOnce
<1>6. \A c \in Jobs' : ChainLink(c)'
  <2>1. ASSUME NEW c \in Jobs
        PROVE  ChainLink(c)'
    BY <1>1, <1>3, <1>4 DEF StepsInv, ChainLink
  <2> QED
    BY <1>1, <2>1
<1>7. KidsAreChildren'
  BY <1>1 DEF procVars, StepsInv, KidsAreChildren, Children, Elements
<1> QED
  BY <1>5, <1>6, <1>7 DEF StepsInv

(* StepsInv is inductive, next to DependencyInv. *)
LEMMA StepsInvNext ==
    ASSUME DependencyInv, StepsInv, [Next]_vars
    PROVE  StepsInv'
BY WhatStepsDo, StepsFrame, StepsEnqueued, StepsExisting, StepsBegun, StepsDivided, StepsRepointed
   DEF DependencyInv

LEMMA StepsInvInit == Init => StepsInv
<1> SUFFICES ASSUME Init PROVE StepsInv
  OBVIOUS
<1>1. \A j \in Jobs : origin[j].parent = NoJob
  BY Constants DEF Init, StoreInit, Jobs, JobId
<1>2. pc[Sched] \notin KidsLabel
  BY SchedLabels DEF Init, QueueInit, KidsLabel, RewireLabel
<1> QED
  BY <1>1, <1>2 DEF StepsInv, StepsCreatedOnce, ChainLink, KidsAreChildren

(* Where each child stands in its chain. *)
THEOREM StepsInvariant == Spec => []StepsInv
<1>1. DependencyInv /\ StepsInv /\ [Next]_vars => StepsInv'
  BY StepsInvNext
<1> QED
  BY <1>1, StepsInvInit, DependencyInvariant, PTL DEF Spec

(* No step of a promoted job is created twice, however often PromoteSteps   *)
(* fails, is interrupted by a crash and is retried, and whatever the API    *)
(* handlers do meanwhile. *)
THEOREM NoStepTwice == Spec => []StepsCreatedOnce
<1>1. StepsInv => StepsCreatedOnce
  BY DEF StepsInv
<1> QED
  BY <1>1, StepsInvariant, PTL

-----------------------------------------------------------------------------
(***************************************************************************)
(* Without manual dispatches, the steps of a chain run in turn and share a  *)
(* session: ChainInv is inductive.  A step that a user dispatches may end   *)
(* while the next one is being enqueued, or run a second time.              *)
(***************************************************************************)

(* What ChainInv says of the table, of the handlers and of the scheduler    *)
(* loop. *)
TableChain ==
    /\ succeeded \subseteq released
    /\ \A j \in succeeded : session[j] /\ status[j] \in {"succeeded", "cancelled"}
    /\ InTurn
    /\ ChainConversation

HandlersRunNothing == \A c \in Clients : pc[c] \in {"idle", "create", "cancel"}

LoopChain ==
    /\ pc[Sched] # "unregister" => todo \cap succeeded = {}
    /\ pc[Sched] \in NotYetSucceeded => target[Sched] \notin succeeded
    /\ pc[Sched] = "finishStatus" /\ verdict[Sched] = "succeeded" =>
          session[target[Sched]]
    /\ pc[Sched] \in KidsLabel => Elements(kids) \cap succeeded = {}
    /\ pc[Sched] \in {"sweepSession", "sweepStatus"} => target[Sched] \notin released
    /\ (/\ pc[Sched] = "sweepStatus" /\ verdict[Sched] = "queued"
        /\ origin[target[Sched]].parent # NoJob
        /\ dependsOn[target[Sched]] # <<>>) => session[target[Sched]]

LEMMA ChainParts == ChainInv <=> TableChain /\ HandlersRunNothing /\ LoopChain
BY DEF ChainInv, SucceededInv, TableChain, HandlersRunNothing, LoopChain

(* What the scheduler loop's steps are proved from, and what for. *)
ChainHyp == DependencyInv /\ StepsInv /\ ChainInv
ChainGoal == TableChain' /\ LoopChain'

-----------------------------------------------------------------------------

(* Steps that release no job and see none succeed. *)
LEMMA TableChainKept ==
    ASSUME DependencyInv, TableChain,
           UNCHANGED <<count, origin, released, succeeded>>,
           \A j \in Jobs : session[j] => session'[j],
           \A j \in succeeded : status'[j] \in {"succeeded", "cancelled"},
           \A j \in released : dependsOn'[j] = dependsOn[j]
    PROVE  TableChain'
<1>1. released \subseteq Jobs /\ UNCHANGED Jobs
  BY DEF DependencyInv, HistoryInv, Jobs
<1>2. InTurn'
  BY <1>1 DEF TableChain, InTurn
<1>3. ChainConversation'
  BY <1>1 DEF TableChain, ChainConversation
<1>4. \A j \in succeeded : session'[j]
  BY <1>1 DEF TableChain
<1> QED
  BY <1>2, <1>3, <1>4 DEF TableChain

LEMMA TableChainStutter ==
    ASSUME TableChain, UNCHANGED tableVars
    PROVE  TableChain'
BY DEF TableChain, InTurn, ChainConversation, tableVars, Jobs

(* A status is written, and it is not that a job has succeeded. *)
LEMMA StatusWritten ==
    ASSUME DependencyInv, TableChain, NEW j \in Jobs, NEW s, s # "succeeded",
           UpdateStatus(j, s),
           s \in Dispatchable \cup {"running"} => j \in released,
           j \in succeeded => s = "cancelled"
    PROVE  /\ TableChain'
           /\ UNCHANGED <<count, dependsOn, session, origin, released, succeeded>>
<1>1. UNCHANGED <<count, dependsOn, session, origin, released, succeeded>>
  BY DEF UpdateStatus, Remember
<1>2. \A i \in succeeded : status'[i] \in {"succeeded", "cancelled"}
  <2>1. succeeded \subseteq JobId /\ status \in [JobId -> Status]
    BY DEF DependencyInv, TypeOK, StoreTypeOK
  <2> QED
    BY <2>1 DEF UpdateStatus, TableChain
<1> QED
  BY <1>1, <1>2, TableChainKept

(* A session is recorded. *)
LEMMA SessionWritten ==
    ASSUME DependencyInv, TableChain, NEW j \in Jobs, UpdateSessionID(j)
    PROVE  /\ TableChain' /\ session'[j]
           /\ \A i \in Jobs : session[i] => session'[i]
           /\ UNCHANGED <<count, status, dependsOn, origin, released, succeeded>>
<1>1. Jobs \subseteq JobId /\ session \in [JobId -> BOOLEAN]
  BY JobsInJobId DEF DependencyInv, TypeOK, StoreTypeOK
<1>2. \A i \in Jobs : session'[i] = IF i = j THEN TRUE ELSE session[i]
  BY <1>1 DEF UpdateSessionID
<1>3. UNCHANGED <<count, status, dependsOn, origin, released, succeeded>>
  BY DEF UpdateSessionID
<1>4. \A i \in succeeded : status'[i] \in {"succeeded", "cancelled"}
  BY <1>3 DEF TableChain
<1> QED
  BY <1>2, <1>3, <1>4, TableChainKept

(* A row is inserted: a child comes after its siblings, and is released     *)
(* only as the first of them. *)
LEMMA RowAdded ==
    ASSUME DependencyInv, StepsInv, TableChain,
           NEW ds \in Seq(JobId), NEW o \in Origin, NEW h \in BOOLEAN, NEW s \in Writable,
           CreateJob(ds, o, h, s),
           o.parent # NoJob =>
              /\ s = "queued" => ds = <<>> /\ o.step = 1
              /\ \A j \in Jobs : origin[j].parent = o.parent => origin[j].step < o.step
    PROVE  TableChain'
<1>1. PICK new : new = count + 1
  OBVIOUS
<1>2. /\ new \notin Jobs /\ new \notin released /\ Jobs' = Jobs \cup {new}
      /\ \A j \in Jobs : UNCHANGED <<status[j], dependsOn[j], session[j], origin[j]>>
      /\ dependsOn'[new] = ds /\ origin'[new] = o
      /\ released' = IF s = "queued" THEN released \cup {new} ELSE released
      /\ succeeded' = succeeded
  BY <1>1, RowInserted DEF DependencyInv
<1>3. released \subseteq Jobs /\ succeeded \subseteq released
  BY DEF DependencyInv, HistoryInv, TableChain
<1>4. \A j \in succeeded' : session'[j] /\ status'[j] \in {"succeeded", "cancelled"}
  BY <1>2, <1>3 DEF TableChain
<1>5. ChainConversation'
  BY <1>2, <1>3 DEF TableChain, ChainConversation
<1>6. InTurn'
  <2> SUFFICES ASSUME NEW c \in Jobs', NEW d \in Jobs',
                      origin'[c].parent # NoJob, origin'[c].parent = origin'[d].parent,
                      origin'[c].step < origin'[d].step, d \in released'
               PROVE  c \in succeeded'
    BY DEF InTurn
  <2>1. CASE c \in Jobs /\ d \in Jobs
    <3>1. d \in released
      BY <1>2, <2>1
    <3> QED
      BY <1>2, <2>1, <3>1 DEF TableChain, InTurn
  <2>2. CASE c \in Jobs /\ d = new
    <3>1. o.step = 1 /\ origin[c].step < 1 /\ origin[c].parent # NoJob
      BY <1>2, <1>3, <2>2
    <3>2. origin[c].step \in Nat /\ origin[c].step > 0
      BY <2>2, <3>1, JobsInJobId DEF StepsInv, ChainLink, DependencyInv, TypeOK, StoreTypeOK, Origin
    <3> QED
      BY <3>1, <3>2
  <2>3. CASE c = new /\ d \in Jobs
    <3>1. origin[d].step < o.step /\ o.step < origin[d].step
      BY <1>2, <2>3
    <3>2. origin[d].step \in Nat /\ o.step \in Nat
      BY <2>3, JobsInJobId DEF DependencyInv, TypeOK, StoreTypeOK, Origin
    <3> QED
      BY <3>1, <3>2
  <2>4. CASE c = new /\ d = new
    <3>1. o.step < o.step /\ o.step \in Nat
      BY <1>2, <2>4 DEF Origin
    <3> QED
      BY <3>1
  <2> QED
    BY <1>2, <2>1, <2>2, <2>3, <2>4
<1> QED
  BY <1>2, <1>3, <1>4, <1>5, <1>6 DEF TableChain

-----------------------------------------------------------------------------

(* The scheduler loop stays where it is. *)
LEMMA LoopStays ==
    ASSUME DependencyInv, LoopChain, Stays(Sched), UNCHANGED tickVars, succeeded' = succeeded,
           \A j \in Jobs : /\ j \in released' => j \in released
                           /\ session[j] => session'[j]
                           /\ UNCHANGED <<dependsOn[j], origin[j]>>
    PROVE  LoopChain'
<1>1. /\ UNCHANGED <<pc[Sched], target[Sched], verdict[Sched]>>
      /\ UNCHANGED <<todo, listed, kids, rewires>>
  BY DEF Stays, tickVars
<1>2. pc[Sched] = "finishStatus" => target[Sched] \in Jobs
  BY SchedLabels DEF DependencyInv, PendingInv, Pending, HoldsReleased, ActiveLabel, RunLabel,
                     HistoryInv
<1>3. pc[Sched] \in {"sweepSession", "sweepStatus"} => target[Sched] \in Jobs
  BY DEF DependencyInv, SweepInv
<1> QED
  BY <1>1, <1>2, <1>3 DEF LoopChain, Elements

(* It is at rest... *)
LEMMA LoopRests ==
    ASSUME TypeOK, EndTick
    PROVE  LoopChain'
<1>1. pc'[Sched] = "idle" /\ todo' = {}
  BY SchedLabels, LeaveMoves DEF EndTick, TypeOK, QueueTypeOK
<1> QED
  BY <1>1 DEF LoopChain, NotYetSucceeded, KidsLabel, RewireLabel, PromoteLabel

(* ...or about to take the next of its jobs... *)
LEMMA LoopWalks ==
    ASSUME LoopChain, pc[Sched] # "unregister", pc'[Sched] \in {"sweep", "fit"},
           todo' \subseteq todo, succeeded' = succeeded
    PROVE  LoopChain'
BY DEF LoopChain, NotYetSucceeded, KidsLabel, RewireLabel, PromoteLabel

(* ...or has taken one of the candidates... *)
LEMMA LoopTakes ==
    ASSUME LoopChain, pc[Sched] = "fit", target'[Sched] \in todo,
           pc'[Sched] \in {"dispatch", "deferWrite", "promoteList"},
           todo' \subseteq todo, succeeded' = succeeded
    PROVE  LoopChain'
BY DEF LoopChain, KidsLabel, RewireLabel

(* ...or goes on with the run of it... *)
LEMMA LoopRuns ==
    ASSUME LoopChain, pc[Sched] \in NotYetSucceeded, target'[Sched] = target[Sched],
           pc'[Sched] \in {"markRead", "mark", "register", "finishHalted"} \cup RunLabel,
           pc'[Sched] = "finishStatus" /\ verdict'[Sched] = "succeeded" =>
              session'[target[Sched]],
           UNCHANGED <<todo, succeeded>>
    PROVE  LoopChain'
<1>1. pc[Sched] # "unregister"
  BY DEF NotYetSucceeded, PromoteLabel
<1>2. pc'[Sched] \notin KidsLabel \cup {"sweepSession", "sweepStatus"}
  BY DEF RunLabel, KidsLabel, RewireLabel
<1> QED
  BY <1>1, <1>2 DEF LoopChain

(* ...or with the promotion of it. *)
LEMMA LoopPromotes ==
    ASSUME LoopChain, pc[Sched] \in PromoteLabel, pc'[Sched] \in PromoteLabel,
           target'[Sched] = target[Sched], UNCHANGED <<todo, succeeded>>,
           pc'[Sched] \in KidsLabel => Elements(kids)' \cap succeeded = {}
    PROVE  LoopChain'
BY DEF LoopChain, NotYetSucceeded, PromoteLabel, Elements

-----------------------------------------------------------------------------

(* The scheduler loop's step moves no other goroutine. *)
LEMMA SchedMovesAlone ==
    ASSUME TypeOK, SchedStep, NEW q \in Proc, q # Sched
    PROVE  pc'[q] = pc[q]
BY SchedLabels
   DEF TypeOK, QueueTypeOK, LocalTypeOK, SchedStep, Sweep, SweepList, SweepPass, SweepResolve,
       SweepSession, SweepStatus, TickHold, TickAdmit, TickDone, Fit, FitDispatch,
       FitCapBudget, FitDefer, FitPromoteSteps, FitRefused, DeferRead, PromoteRead, Defer,
       DeferWrite, Promote, PromoteExisting, PromoteRefused, PromoteBegin, PromoteResolve,
       PromoteCreate, PromoteBlankStep, RewireList, RewireJob, PromoteMark, DispatchOne,
       SchedMark, MarkRead, Goto, Enter, Leave, EndTick, procVars

(* A handler's step. *)
LEMMA ChainHandler ==
    ASSUME ChainHyp, NEW c \in Clients,
           HandleCreateJob(c) \/ HandleCancelJob(c) \/ Respond(c)
    PROVE  ChainGoal /\ HandlersRunNothing'
<1> USE SchedLabels, ChainParts DEF ChainHyp, ChainGoal, DependencyInv, TypeOK, QueueTypeOK
<1>1. c \in Proc /\ c # Sched /\ LocalTypeOK /\ Pending(c)
  BY Constants DEF PendingInv
<1>2. UNCHANGED tickVars
  BY DEF HandleCreateJob, EnqueueResolve, HandleCancelJob, CancelRead, Respond, CancelWrite,
         EnqueueCreate
<1>3. pc'[c] \in {"idle", "create", "cancel"} /\ \A q \in Proc \ {c} : Stays(q)
  <2>1. CASE HandleCreateJob(c)
    BY <2>1, <1>1 DEF HandleCreateJob, EnqueueResolve, LocalTypeOK, Stays
  <2> QED
    BY <1>1, <2>1, EnterMoves, LeaveMoves
       DEF HandleCancelJob, CancelRead, Respond, CancelWrite, EnqueueCreate
<1>4. HandlersRunNothing'
  BY <1>3 DEF HandlersRunNothing, Stays
<1>5. Stays(Sched)
  BY <1>1, <1>3
<1>6. CASE UNCHANGED tableVars
  <2>1. TableChain'
    BY <1>6, TableChainStutter
  <2>2. LoopChain'
    BY <1>2, <1>5, <1>6, LoopStays DEF tableVars
  <2> QED
    BY <1>4, <2>1, <2>2
<1>7. CASE EnqueueCreate(c)
  <2>1. PICK ds \in Seq(JobId), o \in Origin, s \in Writable :
           CreateJob(ds, o, FALSE, s) /\ o.parent = NoJob
    BY <1>7, UserRow
  <2>2. TableChain'
    BY <2>1, RowAdded
  <2>3. LoopChain'
    <3>1. /\ \A j \in Jobs : UNCHANGED <<dependsOn[j], session[j], origin[j]>>
          /\ count + 1 \notin Jobs /\ succeeded' = succeeded
          /\ released' = IF s = "queued" THEN released \cup {count + 1} ELSE released
      BY <2>1, RowInserted
    <3> QED
      BY <1>2, <1>5, <3>1, LoopStays
  <2> QED
    BY <1>4, <2>2, <2>3
<1>8. CASE CancelWrite(c)
  <2>1. target[c] \in Jobs /\ UpdateStatus(target[c], "cancelled")
    BY <1>1, <1>8 DEF CancelWrite, Pending
  <2>2. /\ TableChain'
        /\ UNCHANGED <<count, dependsOn, session, origin, released, succeeded>>
    BY <2>1, StatusWritten DEF Dispatchable
  <2>3. LoopChain'
    BY <1>2, <1>5, <2>2, LoopStays
  <2> QED
    BY <1>4, <2>2, <2>3
<1> QED
  BY <1>6, <1>7, <1>8
     DEF HandleCreateJob, EnqueueResolve, HandleCancelJob, CancelRead, Respond

(* A run: the scheduler loop's. *)
LEMMA ChainRun ==
    ASSUME ChainHyp, NEW p \in Proc, Run(p) \/ EndRun(p)
    PROVE  ChainGoal /\ HandlersRunNothing'
<1> USE SchedLabels, ChainParts DEF ChainHyp, ChainGoal, DependencyInv, TypeOK, QueueTypeOK
<1>1. LocalTypeOK
  OBVIOUS
<1>2. p = Sched /\ pc[p] \in {"mark", "finishHalted", "register"} \cup RunLabel
  <2>1. pc[p] \in {"mark", "finishHalted", "register"} \cup RunLabel
    BY DEF Run, EndRun, MarkWrite, RefuseHalted, FinishHalted, Register, RefuseExhausted,
           StartFails, StartRun, FinishSession, FinishStatus, Unregister, RunError, RunResult,
           RunLabel
  <2> QED
    BY <2>1 DEF HandlersRunNothing, Proc, RunLabel
<1>3. HandlersRunNothing'
  <2>1. \A q \in Proc \ {Sched} : Stays(q)
    BY <1>1, <1>2, GotoMoves, EnterMoves, ReturnMoves
       DEF Run, EndRun, MarkWrite, RefuseHalted, FinishHalted, Register, RefuseExhausted,
           StartFails, StartRun, FinishSession, FinishStatus, Unregister, RunError, RunResult
  <2> QED
    BY <2>1, Constants DEF HandlersRunNothing, Stays
<1>4. target[Sched] \in released /\ target[Sched] \in Jobs
  BY <1>2 DEF PendingInv, Pending, HoldsReleased, ActiveLabel, HistoryInv
<1>5. pc[Sched] # "unregister" => pc[Sched] \in NotYetSucceeded /\ target[Sched] \notin succeeded
  BY <1>2 DEF NotYetSucceeded, RunLabel, LoopChain
<1> SUFFICES ChainGoal
  BY <1>3
<1>6. CASE MarkWrite(p)
  <2>1. UpdateStatus(target[Sched], "running") /\ pc[Sched] = "mark"
    BY <1>2, <1>6 DEF MarkWrite, PendingInv, Pending
  <2>2. TableChain' /\ succeeded' = succeeded
    BY <1>4, <1>5, <2>1, StatusWritten
  <2>3. pc'[Sched] = "register" /\ target'[Sched] = target[Sched] /\ todo' = todo
    BY <1>1, <1>2, <1>6, GotoMoves DEF MarkWrite, tickVars
  <2> QED
    BY <1>5, <2>1, <2>2, <2>3, LoopRuns
<1>7. CASE RefuseHalted(p) \/ Register(p) \/ RefuseExhausted(p) \/ StartFails(p) \/ StartRun(p)
           \/ EndRun(p)
  <2>1. UNCHANGED tableVars /\ todo' = todo /\ pc[Sched] # "unregister"
    BY <1>2, <1>7 DEF RefuseHalted, Register, RefuseExhausted, StartFails, StartRun, EndRun,
                      RunError, RunResult, tickVars
  <2>2. /\ target'[Sched] = target[Sched]
        /\ pc'[Sched] \in {"register", "finishHalted"} \cup RunLabel
        /\ ~(pc'[Sched] = "finishStatus" /\ verdict'[Sched] = "succeeded")
    BY <1>1, <1>2, <1>7, GotoMoves, EnterMoves
       DEF RefuseHalted, Register, RefuseExhausted, StartFails, StartRun, EndRun, RunError,
           RunResult, RunLabel
  <2>3. TableChain' /\ succeeded' = succeeded
    BY <2>1, TableChainStutter DEF tableVars
  <2> QED
    BY <1>5, <2>1, <2>2, <2>3, LoopRuns
<1>8. CASE FinishHalted(p)
  <2>1. UpdateStatus(target[Sched], "failed") /\ pc[Sched] = "finishHalted" /\ EndTick
    BY <1>2, <1>8 DEF FinishHalted, PendingInv, Pending, Return
  <2> QED
    BY <1>4, <1>5, <2>1, StatusWritten, LoopRests DEF Dispatchable
<1>9. CASE FinishSession(p)
  <2>1. TableChain' /\ session'[target[Sched]] /\ succeeded' = succeeded
    BY <1>2, <1>4, <1>9, SessionWritten DEF FinishSession
  <2>2. /\ pc'[Sched] = "finishStatus" /\ target'[Sched] = target[Sched] /\ todo' = todo
        /\ pc[Sched] # "unregister"
    BY <1>1, <1>2, <1>9, GotoMoves DEF FinishSession, tickVars
  <2> QED
    BY <1>5, <2>1, <2>2, LoopRuns DEF RunLabel
<1>10. CASE FinishStatus(p)
  <2>1. /\ UpdateStatus(target[Sched], verdict[Sched]) /\ pc[Sched] = "finishStatus"
        /\ verdict[Sched] \in {"succeeded", "failed", "paused_budget"}
    BY <1>2, <1>10 DEF FinishStatus, PendingInv, Pending
  <2>2. pc'[Sched] = "unregister"
    BY <1>1, <1>2, <1>10, GotoMoves DEF FinishStatus
  <2>3. LoopChain'
    BY <2>2 DEF LoopChain, NotYetSucceeded, KidsLabel, RewireLabel, PromoteLabel
  <2>4. TableChain'
    <3>1. CASE verdict[Sched] # "succeeded"
      BY <1>4, <1>5, <2>1, <3>1, StatusWritten
    <3>2. CASE verdict[Sched] = "succeeded"
      <4>1. /\ UNCHANGED <<count, dependsOn, session, origin, released, Jobs>>
            /\ succeeded' = succeeded \cup {target[Sched]}
        BY <2>1, <3>2 DEF UpdateStatus, Remember, Dispatchable, Jobs
      <4>2. succeeded \subseteq JobId /\ target[Sched] \in JobId /\ status \in [JobId -> Status]
        BY <1>4 DEF StoreTypeOK
      <4>3. \A j \in succeeded' : session[j] /\ status'[j] \in {"succeeded", "cancelled"}
        BY <2>1, <3>2, <4>1, <4>2 DEF UpdateStatus, TableChain, LoopChain
      <4>4. InTurn' /\ ChainConversation'
        BY <4>1 DEF TableChain, InTurn, ChainConversation
      <4> QED
        BY <1>4, <4>1, <4>3, <4>4 DEF TableChain
    <3> QED
      BY <3>1, <3>2
  <2> QED
    BY <2>3, <2>4
<1>11. CASE Unregister(p)
  <2>1. UNCHANGED tableVars /\ EndTick
    BY <1>2, <1>11 DEF Unregister, Return
  <2> QED
    BY <2>1, TableChainStutter, LoopRests
<1> QED
  BY <1>6, <1>7, <1>8, <1>9, <1>10, <1>11 DEF Run

(* PromoteReady: a job is released when all it waits for have succeeded,    *)
(* and a child has its predecessor's session by then. *)
LEMMA ChainSweep ==
    ASSUME ChainHyp, Sweep
    PROVE  ChainGoal
<1> USE SchedLabels, ChainParts DEF ChainHyp, ChainGoal, DependencyInv, TypeOK, QueueTypeOK
<1>1. LocalTypeOK
  OBVIOUS
<1>2. pc[Sched] \in SweepLabel =>
          \A j \in todo : j \in Jobs \ released /\ listed[j] = dependsOn[j]
  BY DEF SweepInv
<1>3. CASE SweepList
  <2>1. pc'[Sched] = "sweep" /\ todo' = InStatus({"blocked"}) /\ UNCHANGED tableVars
    BY <1>1, <1>3, GotoMoves DEF SweepList
  <2>2. todo' \cap succeeded' = {}
    BY <2>1 DEF tableVars, InStatus, TableChain
  <2>3. LoopChain'
    BY <2>1, <2>2 DEF LoopChain, NotYetSucceeded, KidsLabel, RewireLabel, PromoteLabel
  <2> QED
    BY <2>1, <2>3, TableChainStutter
<1>4. ASSUME NEW j \in todo, SweepPass(j)
      PROVE  ChainGoal
  <2>1. /\ pc[Sched] = "sweep" /\ pc'[Sched] = "sweep" /\ todo' \subseteq todo
        /\ UNCHANGED tableVars
    BY <1>4 DEF SweepPass, procVars
  <2> QED
    BY <2>1, TableChainStutter, LoopWalks DEF tableVars
<1>5. ASSUME NEW j \in todo, SweepResolve(j)
      PROVE  ChainGoal
  <2> DEFINE ds == dependsOn[j]
  <2>1. /\ pc[Sched] = "sweep" /\ listed[j] = ds /\ j \in Jobs \ released
    BY <1>2, <1>5 DEF SweepResolve, SweepLabel
  <2>2. /\ pc'[Sched] = IF ComputeStatus(ds) = "queued" /\ Inherits(j, ds)
                        THEN "sweepSession" ELSE "sweepStatus"
        /\ target'[Sched] = j /\ verdict'[Sched] = ComputeStatus(ds)
    BY <1>1, <1>5, <2>1, EnterMoves DEF SweepResolve
  <2>3. /\ UNCHANGED <<count, status, dependsOn, session, origin, released, succeeded>>
        /\ todo' \subseteq todo
    BY <1>5 DEF SweepResolve, tableVars
  <2>4. ASSUME ComputeStatus(ds) = "queued", origin[j].parent # NoJob, ds # <<>>
        PROVE  Inherits(j, ds)
    <3>1. ChainLink(j) /\ origin[j] \in Origin /\ ds \in Seq(JobId)
      BY <2>1, JobsInJobId DEF StepsInv, StoreTypeOK
    <3>2. origin[j].step > 1
      BY <2>4, <3>1 DEF ChainLink, Origin
    <3>3. DOMAIN ds = {1}
      BY <2>4, <3>1, <3>2 DEF ChainLink
    <3>4. Len(ds) = 1
      <4>1. PICK n \in Nat : n = Len(ds) /\ 1 .. n = {1}
        BY <3>1, <3>3, LenProperties
      <4>2. 1 \in 1 .. n
        BY <4>1
      <4>3. n \in 1 .. n
        BY <4>2
      <4> QED
        BY <4>1, <4>3
    <3>5. ds[1] \in JobId /\ status[ds[1]] = "succeeded"
      BY <2>4, <3>1, <3>3, ElementOfSeq DEF ComputeStatus
    <3>6. session[ds[1]]
      BY <3>5 DEF HistoryInv, TableChain
    <3> QED
      BY <2>4, <3>4, <3>6 DEF Inherits
  <2>5. LoopChain'
    <3>1. pc'[Sched] \in {"sweepSession", "sweepStatus"}
      BY <2>2
    <3>2. todo' \cap succeeded' = {}
      BY <2>1, <2>3 DEF LoopChain
    <3>3. ASSUME pc'[Sched] = "sweepStatus", verdict'[Sched] = "queued",
                 origin[j].parent # NoJob, ds # <<>>
          PROVE  FALSE
      BY <2>2, <2>4, <3>3
    <3> QED
      BY <2>1, <2>2, <2>3, <3>1, <3>2, <3>3
         DEF LoopChain, NotYetSucceeded, KidsLabel, RewireLabel, PromoteLabel
  <2> QED
    BY <2>3, <2>5, TableChainStutter DEF tableVars
<1>6. CASE SweepSession
  <2>1. /\ target[Sched] \in Jobs /\ pc[Sched] = "sweepSession"
        /\ target[Sched] \notin released
    BY <1>6 DEF SweepSession, SweepInv, LoopChain
  <2>2. /\ TableChain' /\ session'[target[Sched]]
        /\ UNCHANGED <<released, succeeded>>
    BY <1>6, <2>1, SessionWritten DEF SweepSession
  <2>3. pc'[Sched] = "sweepStatus" /\ target'[Sched] = target[Sched] /\ todo' = todo
    BY <1>1, <1>6, GotoMoves DEF SweepSession, tickVars
  <2> QED
    BY <2>1, <2>2, <2>3 DEF LoopChain, NotYetSucceeded, KidsLabel, RewireLabel, PromoteLabel
<1>7. CASE SweepStatus
  <2> DEFINE t == target[Sched]
  <2>1. PICK s : s = verdict[Sched]
    OBVIOUS
  <2>2. /\ t \in Jobs /\ t \notin released /\ pc[Sched] = "sweepStatus"
        /\ s \in {"queued", "cancelled"} /\ UpdateStatus(t, s)
        /\ s = "queued" => Elements(dependsOn[t]) \subseteq succeeded
    BY <1>7, <2>1 DEF SweepStatus, SweepInv, SweepLabel, LoopChain
  <2>3. pc'[Sched] = "sweep" /\ todo' = todo
    BY <1>1, <1>7, LeaveMoves DEF SweepStatus, tickVars
  <2>4. CASE s = "cancelled"
    <3>1. TableChain' /\ succeeded' = succeeded
      BY <2>2, <2>4, StatusWritten DEF Dispatchable, TableChain
    <3> QED
      BY <2>2, <2>3, <3>1, LoopWalks
  <2>5. CASE s = "queued"
    <3>1. /\ UNCHANGED <<count, dependsOn, session, origin, succeeded, Jobs>>
          /\ released' = released \cup {t}
      BY <2>2, <2>5 DEF UpdateStatus, Remember, Dispatchable, Jobs
    <3>2. \A j \in succeeded : status'[j] = status[j]
      <4>1. status \in [JobId -> Status] /\ t \notin succeeded
        BY <2>2 DEF StoreTypeOK, TableChain
      <4> QED
        BY <2>2, <4>1 DEF UpdateStatus, StoreTypeOK
    <3>3. ChainConversation'
      <4>1. origin[t].parent # NoJob /\ dependsOn[t] # <<>> => session[t]
        BY <2>1, <2>2, <2>5 DEF LoopChain
      <4> QED
        BY <3>1, <4>1 DEF TableChain, ChainConversation
    <3>4. InTurn'
      <4> SUFFICES ASSUME NEW c \in Jobs, origin[c].parent # NoJob,
                          origin[c].parent = origin[t].parent, origin[c].step < origin[t].step
                   PROVE  c \in succeeded
        BY <3>1 DEF InTurn, TableChain
      <4> DEFINE e == dependsOn[t][1]
      <4>1. /\ ChainLink(t) /\ ChainLink(c) /\ origin[t].step \in Nat
            /\ origin[c].step \in Nat
        BY <2>2, JobsInJobId DEF StepsInv, StoreTypeOK, Origin
      <4>2. origin[c].step > 0 /\ origin[t].step > 1
        BY <4>1 DEF ChainLink
      <4>3. /\ 1 \in DOMAIN dependsOn[t]
            /\ origin[e].parent = origin[t].parent /\ origin[e].step = origin[t].step - 1
        BY <4>1, <4>2 DEF ChainLink
      <4>4. e \in succeeded /\ e \in released /\ e \in Jobs
        BY <2>2, <2>5, <4>3, ElementsMember DEF TableChain, HistoryInv
      <4>5. CASE origin[c].step = origin[e].step
        BY <4>3, <4>4, <4>5 DEF StepsInv, StepsCreatedOnce
      <4>6. CASE origin[c].step < origin[e].step
        BY <4>3, <4>4, <4>6 DEF TableChain, InTurn
      <4> QED
        BY <4>1, <4>2, <4>3, <4>5, <4>6
    <3>5. TableChain'
      BY <3>1, <3>2, <3>3, <3>4 DEF TableChain
    <3> QED
      BY <2>2, <2>3, <3>1, <3>5, LoopWalks
  <2> QED
    BY <2>2, <2>4, <2>5
<1> QED
  BY <1>3, <1>4, <1>5, <1>6, <1>7 DEF Sweep

(* The walk over the candidates. *)
LEMMA ChainTick ==
    ASSUME ChainHyp,
           TickHold \/ TickAdmit \/ TickDone \/ Fit \/ Defer \/ DispatchOne \/ SchedMark
    PROVE  ChainGoal
<1> USE SchedLabels, ChainParts DEF ChainHyp, ChainGoal, DependencyInv, TypeOK, QueueTypeOK
<1>1. LocalTypeOK
  OBVIOUS
<1>2. UNCHANGED tableVars /\ EndTick => ChainGoal
  BY TableChainStutter, LoopRests
<1>3. CASE TickHold \/ TickDone
  BY <1>2, <1>3 DEF TickHold, TickDone
<1>4. CASE TickAdmit
  <2>1. pc'[Sched] = "fit" /\ todo' \subseteq InStatus(Dispatchable) /\ UNCHANGED tableVars
    BY <1>1, <1>4, GotoMoves DEF TickAdmit
  <2>2. todo' \cap succeeded' = {}
    BY <2>1 DEF tableVars, InStatus, TableChain, Dispatchable
  <2>3. LoopChain'
    BY <2>1, <2>2 DEF LoopChain, NotYetSucceeded, KidsLabel, RewireLabel, PromoteLabel
  <2> QED
    BY <2>1, <2>3, TableChainStutter
<1>5. CASE Fit
  <2>1. PICK j \in First(todo) : FitDispatch(j) \/ DeferRead(j) \/ PromoteRead(j)
                                \/ (EndTick /\ UNCHANGED tableVars)
    BY <1>5 DEF Fit, FitCapBudget, FitDefer, FitPromoteSteps, FitRefused
  <2>2. j \in todo /\ pc[Sched] = "fit"
    BY <1>5 DEF First, Fit
  <2>3. ASSUME FitDispatch(j) \/ DeferRead(j) \/ PromoteRead(j)
        PROVE  /\ UNCHANGED tableVars /\ todo' \subseteq todo
               /\ \/ pc'[Sched] = "fit"
                  \/ /\ target'[Sched] = j
                     /\ pc'[Sched] \in {"dispatch", "deferWrite", "promoteList"}
    <3>1. CASE FitDispatch(j)
      BY <1>1, <3>1, EnterMoves DEF FitDispatch
    <3>2. CASE DeferRead(j)
      BY <1>1, <2>2, <3>2, EnterMoves DEF DeferRead, procVars
    <3>3. CASE PromoteRead(j)
      BY <1>1, <3>3 DEF PromoteRead, LocalTypeOK, tableVars
    <3> QED
      BY <2>3, <3>1, <3>2, <3>3
  <2>4. UNCHANGED tableVars
    BY <2>1, <2>3
  <2> QED
    BY <1>2, <2>1, <2>2, <2>3, <2>4, TableChainStutter, LoopWalks, LoopTakes DEF tableVars
<1>6. CASE Defer
  <2>1. /\ UpdateStatus(target[Sched], "deferred_oversized") /\ pc[Sched] = "deferWrite"
        /\ target[Sched] \in released /\ target[Sched] \in Jobs
        /\ target[Sched] \notin succeeded
    BY <1>6 DEF Defer, DeferWrite, PendingInv, Pending, HoldsReleased, HistoryInv, LoopChain,
                NotYetSucceeded
  <2>2. TableChain' /\ succeeded' = succeeded
    BY <2>1, StatusWritten
  <2>3. pc'[Sched] = "fit" /\ todo' = todo
    BY <1>1, <1>6, LeaveMoves DEF Defer, DeferWrite, tickVars
  <2> QED
    BY <2>1, <2>2, <2>3, LoopWalks
<1>7. CASE DispatchOne \/ SchedMark
  <2>1. CASE EndTick
    BY <1>2, <1>7, <2>1 DEF DispatchOne, SchedMark
  <2>2. CASE ~EndTick
    <3>1. pc'[Sched] \in {"markRead", "mark"} /\ target'[Sched] = target[Sched]
      BY <1>1, <1>7, <2>2, GotoMoves, EnterMoves DEF DispatchOne, SchedMark, MarkRead
    <3>2. pc[Sched] \in NotYetSucceeded /\ todo' = todo /\ UNCHANGED tableVars
      BY <1>7, <2>2 DEF DispatchOne, SchedMark, NotYetSucceeded, tickVars
    <3> QED
      BY <3>1, <3>2, LoopRuns, TableChainStutter DEF tableVars
  <2> QED
    BY <2>1, <2>2
<1> QED
  BY <1>3, <1>4, <1>5, <1>6, <1>7

(* PromoteSteps. *)
LEMMA ChainPromote ==
    ASSUME ChainHyp, Promote
    PROVE  ChainGoal
<1> USE SchedLabels, ChainParts DEF ChainHyp, ChainGoal, DependencyInv, TypeOK, QueueTypeOK
<1>1. LocalTypeOK
  OBVIOUS
<1>2. pc[Sched] \in PromoteLabel
  BY DEF Promote, PromoteExisting, PromoteRefused, PromoteBegin, PromoteResolve,
         PromoteCreate, PromoteBlankStep, RewireList, RewireJob, PromoteMark,
         PromoteLabel, RewireLabel
<1>3. target[Sched] \in released /\ target[Sched] \in Jobs /\ target[Sched] \notin succeeded
  BY <1>2, ParentAtWork DEF LoopChain, NotYetSucceeded
<1>4. pc[Sched] # "unregister"
  BY <1>2 DEF PromoteLabel
<1>5. CASE PromoteExisting
  <2>1. UNCHANGED tableVars /\ todo' = todo
    BY <1>5 DEF PromoteExisting, tickVars
  <2>2. \/ pc'[Sched] = "fit"
        \/ pc'[Sched] = "promoteMark" /\ target'[Sched] = target[Sched]
    BY <1>1, <1>5, GotoMoves, LeaveMoves DEF PromoteExisting
  <2> QED
    BY <1>2, <1>4, <2>1, <2>2, TableChainStutter, LoopWalks, LoopPromotes
       DEF tableVars, PromoteLabel, KidsLabel, RewireLabel
<1>6. CASE PromoteRefused \/ PromoteBlankStep
  BY <1>6, TableChainStutter, LoopRests DEF PromoteRefused, PromoteBlankStep
<1>7. CASE PromoteBegin \/ PromoteResolve \/ RewireList
  <2>1. UNCHANGED <<todo, kids, tableVars>>
    BY <1>7 DEF PromoteBegin, PromoteResolve, RewireList, tickVars
  <2>2. target'[Sched] = target[Sched] /\ pc'[Sched] \in PromoteLabel
    <3>1. CASE PromoteResolve
      BY <1>1, <3>1 DEF PromoteResolve, LocalTypeOK, PromoteLabel
    <3> QED
      BY <1>1, <1>7, <3>1, GotoMoves DEF PromoteBegin, RewireList, PromoteLabel
  <2>3. Elements(kids)' \cap succeeded = {}
    <3>1. CASE pc[Sched] \in KidsLabel
      BY <2>1, <3>1 DEF LoopChain, Elements
    <3>2. CASE pc[Sched] \notin KidsLabel
      BY <2>1, <3>2 DEF TickInv, Elements
    <3> QED
      BY <3>1, <3>2
  <2> QED
    BY <1>2, <2>1, <2>2, <2>3, TableChainStutter, LoopPromotes DEF tableVars
<1>8. CASE PromoteCreate
  <2> DEFINE n == Len(kids)
  <2>1. PICK o \in Origin :
           /\ o.parent = target[Sched] /\ o.step = n + 1
           /\ CreateJob(StepDeps, o, n = 0 /\ convo[Sched], verdict[Sched])
    BY <1>8, NextChild
  <2>2. /\ (n = 0 /\ convo[Sched]) \in BOOLEAN
        /\ StepDeps \in Seq(JobId) /\ verdict[Sched] \in Writable
        /\ n \in Nat /\ DOMAIN kids = 1 .. n /\ DOMAIN kids' = 1 .. n + 1
        /\ (\A k \in 1 .. n : kids'[k] = kids[k]) /\ kids'[n + 1] = count + 1
        /\ target'[Sched] = target[Sched] /\ pc'[Sched] \in PromoteLabel
    BY <1>8, NextChild DEF PromoteLabel
  <2>3. count + 1 \notin released /\ succeeded' = succeeded
    BY <2>1, <2>2, RowInserted
  <2>4. pc[Sched] = "promoteCreate" /\ Elements(kids) \cap succeeded = {} /\ todo' = todo
    BY <1>8 DEF PromoteCreate, LoopChain, KidsLabel
  <2>5. ASSUME verdict[Sched] = "queued"
        PROVE  StepDeps = <<>> /\ o.step = 1
    <3>1. Elements(StepDeps) \subseteq succeeded
      BY <2>4, <2>5 DEF TickInv
    <3>2. ASSUME kids # <<>> PROVE FALSE
      <4>1. n \in DOMAIN kids /\ StepDeps = <<kids[n]>>
        BY <3>2, LastKid DEF StepDeps
      <4>2. kids[n] \in Elements(kids) /\ kids[n] \in Elements(StepDeps)
        BY <4>1 DEF Elements
      <4> QED
        BY <2>4, <3>1, <4>2
    <3>3. kids = <<>>
      BY <3>2
    <3> QED
      BY <2>1, <3>3 DEF StepDeps
  <2>6. \A j \in Jobs : origin[j].parent = o.parent => origin[j].step < o.step
    <3> SUFFICES ASSUME NEW j \in Jobs, origin[j].parent = target[Sched]
                 PROVE  origin[j].step < n + 1
      BY <2>1
    <3>1. j \in Elements(kids)
      BY <2>4 DEF StepsInv, KidsAreChildren, KidsLabel, Children
    <3>2. PICK k \in 1 .. n : j = kids[k]
      BY <2>2, <3>1 DEF Elements
    <3>3. origin[j].step = k
      BY <2>2, <2>4, <3>2 DEF StepsInv, KidsAreChildren, KidsLabel
    <3> QED
      BY <2>2, <3>3
  <2>7. TableChain'
    BY <2>1, <2>2, <2>5, <2>6, RowAdded
  <2>8. Elements(kids)' \cap succeeded = {}
    <3> SUFFICES ASSUME NEW k \in 1 .. n + 1 PROVE kids'[k] \notin succeeded
      BY <2>2 DEF Elements
    <3>1. CASE k = n + 1
      BY <2>2, <2>3, <3>1 DEF TableChain
    <3>2. CASE k \in 1 .. n
      BY <2>2, <2>4, <3>2 DEF Elements
    <3> QED
      BY <2>2, <3>1, <3>2
  <2> QED
    BY <1>2, <2>2, <2>3, <2>4, <2>7, <2>8, LoopPromotes
<1>9. ASSUME NEW j \in rewires, RewireJob(j)
      PROVE  ChainGoal
  <2>1. /\ UNCHANGED <<procVars, todo, kids, count, status, session, origin, released, succeeded>>
        /\ pc[Sched] \in RewireLabel
        /\ dependsOn' = [dependsOn EXCEPT ![j] =
                            Repoint(listed[j], target[Sched], kids[Len(kids)])]
    BY <1>9 DEF RewireJob, UpdateDependsOn
  <2>2. \A i \in released : dependsOn'[i] = dependsOn[i]
    <3>1. j \notin released /\ released \subseteq JobId /\ dependsOn \in [JobId -> Seq(JobId)]
      BY DEF TickInv, StoreTypeOK
    <3> QED
      BY <2>1, <3>1
  <2>3. TableChain'
    <3>1. \A i \in succeeded : status'[i] \in {"succeeded", "cancelled"}
      BY <2>1 DEF TableChain
    <3> QED
      BY <2>1, <2>2, <3>1, TableChainKept
  <2>4. LoopChain'
    BY <1>2, <2>1, LoopPromotes DEF procVars, LoopChain, Elements, KidsLabel
  <2> QED
    BY <2>3, <2>4
<1>10. CASE PromoteMark
  <2>1. UpdateStatus(target[Sched], "promoted")
    BY <1>10 DEF PromoteMark
  <2>2. TableChain' /\ succeeded' = succeeded
    BY <1>3, <2>1, StatusWritten DEF Dispatchable
  <2>3. CASE EndTick
    BY <2>2, <2>3, LoopRests
  <2>4. CASE ~EndTick
    <3>1. pc'[Sched] = "fit" /\ todo' = todo
      BY <1>1, <1>10, <2>4, LeaveMoves DEF PromoteMark
    <3> QED
      BY <1>4, <2>2, <3>1, LoopWalks
  <2> QED
    BY <2>3, <2>4
<1> QED
  BY <1>5, <1>6, <1>7, <1>8, <1>9, <1>10 DEF Promote

(* Failed statements and crashes. *)
LEMMA ChainFault ==
    ASSUME ChainHyp, (\E p \in Proc : StoreError(p)) \/ Crash
    PROVE  ChainGoal /\ HandlersRunNothing'
<1> USE SchedLabels, ChainParts DEF ChainHyp, ChainGoal, DependencyInv, TypeOK, QueueTypeOK
<1>1. LocalTypeOK
  OBVIOUS
<1>2. UNCHANGED tableVars /\ TableChain' /\ succeeded' = succeeded
  <2>1. UNCHANGED tableVars
    BY DEF StoreError, Crash
  <2> QED
    BY <2>1, TableChainStutter DEF tableVars
<1>3. CASE Crash
  <2>1. todo' = {} /\ \A p \in Proc : pc'[p] = "idle"
    BY <1>3 DEF Crash
  <2> QED
    BY <1>2, <2>1 DEF LoopChain, HandlersRunNothing, NotYetSucceeded, KidsLabel, RewireLabel,
                      PromoteLabel
<1>4. ASSUME NEW p \in Proc, StoreError(p), p # Sched
      PROVE  ChainGoal /\ HandlersRunNothing'
  <2>1. Return(p) /\ UNCHANGED tickVars
    <3>1. pc[p] \in {"idle", "create", "cancel"}
      BY <1>4 DEF HandlersRunNothing, Proc
    <3> QED
      BY <1>4, <3>1 DEF StoreError, Return, RewireLabel
  <2>2. pc'[p] = "idle" /\ \A q \in Proc \ {p} : Stays(q)
    BY <1>1, <2>1, ReturnMoves
  <2>3. HandlersRunNothing'
    BY <2>2 DEF HandlersRunNothing, Stays
  <2>4. LoopChain'
    BY <1>2, <1>4, <2>1, <2>2, LoopStays DEF tableVars
  <2> QED
    BY <1>2, <2>3, <2>4
<1>5. CASE StoreError(Sched)
  <2>1. \A q \in Proc \ {Sched} : Stays(q)
    BY <1>1, <1>5, GotoMoves, LeaveMoves, ReturnMoves DEF StoreError, procVars, Stays
  <2>2. HandlersRunNothing'
    BY <2>1, Constants DEF HandlersRunNothing, Stays
  <2>3. CASE Return(Sched)
    BY <1>2, <2>2, <2>3, LoopRests DEF Return
  <2>4. CASE pc[Sched] \in {"check", "finishSession", "finishStatus"} /\ Goto(Sched, "unregister")
    <3>1. pc'[Sched] = "unregister"
      BY <1>1, <2>4, GotoMoves
    <3>2. LoopChain'
      BY <3>1 DEF LoopChain, NotYetSucceeded, KidsLabel, RewireLabel, PromoteLabel
    <3> QED
      BY <1>2, <2>2, <3>2
  <2>5. CASE /\ pc[Sched] \in {"idle", "sweep", "sweepSession", "sweepStatus"}
             /\ pc'[Sched] = "sweep" /\ todo' \subseteq todo
    BY <1>2, <2>2, <2>5, LoopWalks
  <2>6. CASE /\ pc[Sched] \in {"rewireList"} \cup RewireLabel
             /\ Goto(Sched, "rewireFailed") /\ UNCHANGED <<todo, kids>>
    <3>1. pc'[Sched] = "rewireFailed" /\ target'[Sched] = target[Sched]
      BY <1>1, <2>6, GotoMoves
    <3>2. LoopChain'
      BY <1>2, <2>6, <3>1, LoopPromotes DEF PromoteLabel, RewireLabel, KidsLabel, LoopChain, Elements
    <3> QED
      BY <1>2, <2>2, <3>2
  <2> QED
    BY <1>1, <1>5, <2>3, <2>4, <2>5, <2>6, GotoMoves, LeaveMoves
       DEF StoreError, tickVars, procVars
<1> QED
  BY <1>3, <1>4, <1>5

-----------------------------------------------------------------------------

(* ChainInv is inductive, next to DependencyInv and StepsInv, where nobody  *)
(* dispatches by hand. *)
LEMMA ChainInvNext ==
    ASSUME "dispatch" \notin Requests, ChainHyp, [Next]_vars
    PROVE  ChainInv'
<1> SUFFICES ChainGoal /\ HandlersRunNothing'
  BY DEF ChainGoal, ChainInv, SucceededInv, TableChain, HandlersRunNothing, LoopChain
<1> USE ChainParts DEF ChainHyp
<1>1. CASE SchedStep
  <2>1. ChainGoal
    BY <1>1, ChainSweep, ChainTick, ChainPromote DEF SchedStep
  <2>2. \A c \in Clients : pc'[c] = pc[c]
    BY <1>1, SchedMovesAlone, Constants DEF Proc, DependencyInv
  <2> QED
    BY <2>1, <2>2 DEF HandlersRunNothing
<1>2. CASE HandleHalt \/ HandleResume \/ UNCHANGED vars
  <2>1. UNCHANGED <<tableVars, procVars, tickVars>>
    BY <1>2 DEF HandleHalt, Halt, HandleResume, Resume, vars
  <2>2. TableChain'
    BY <2>1, TableChainStutter
  <2>3. HandlersRunNothing' /\ LoopChain'
    BY <2>1 DEF HandlersRunNothing, LoopChain, procVars, tickVars, tableVars, Elements
  <2> QED
    BY <2>2, <2>3 DEF ChainGoal
<1>3. ASSUME NEW c \in Clients PROVE ~HandleDispatchJob(c)
  BY DEF HandleDispatchJob, Ask
<1> QED
  BY <1>1, <1>2, <1>3, ChainHandler, ChainRun, ChainFault DEF Next

LEMMA ChainInvInit == Init => ChainInv
<1> SUFFICES ASSUME Init PROVE ChainInv
  OBVIOUS
<1>1. \A j \in Jobs : origin[j].parent = NoJob
  BY Constants DEF Init, StoreInit, Jobs, JobId
<1>2. released \subseteq Jobs /\ succeeded = {}
  BY InvInit DEF Init, StoreInit, DependencyInv, HistoryInv
<1>3. TableChain
  BY <1>1, <1>2 DEF TableChain, InTurn, ChainConversation
<1>4. todo = {} /\ \A p \in Proc : pc[p] = "idle"
  BY DEF Init, QueueInit
<1>5. HandlersRunNothing
  BY <1>4, SchedLabels DEF HandlersRunNothing
<1>6. LoopChain
  BY <1>4, SchedLabels DEF LoopChain, NotYetSucceeded, KidsLabel, RewireLabel, PromoteLabel
<1> QED
  BY <1>3, <1>5, <1>6, ChainParts

(* How the steps of a promoted job take turns, where nobody dispatches by   *)
(* hand: a manual dispatch of a job the loop is running already lets a      *)
(* finished step run again beside its successor. *)
THEOREM ChainInvariant ==
    ASSUME "dispatch" \notin Requests
    PROVE  Spec => []ChainInv
<1>1. DependencyInv /\ StepsInv /\ ChainInv /\ [Next]_vars => ChainInv'
  BY ChainInvNext DEF ChainHyp
<1> QED
  BY <1>1, ChainInvInit, DependencyInvariant, StepsInvariant, PTL DEF Spec

(* A step of a chain has its predecessor's session before it is dispatchable*)
(* (PromoteReady hands it over first), whatever fails or crashes. *)
THEOREM StepsShareSession ==
    ASSUME "dispatch" \notin Requests
    PROVE  Spec => []ChainConversation
<1>1. ChainInv => ChainConversation
  BY DEF ChainInv
<1> QED
  BY <1>1, ChainInvariant, PTL

(* Of the steps of one promoted job at most one is dispatchable or running. *)
THEOREM StepsTakeTurns ==
    ASSUME "dispatch" \notin Requests
    PROVE  Spec => []OneStepAtATime
<1>1. DependencyInv /\ StepsInv /\ ChainInv => OneStepAtATime
  <2> SUFFICES ASSUME DependencyInv, StepsInv, ChainInv,
                      NEW c \in InStatus(Dispatchable \cup {"running"}),
                      NEW d \in InStatus(Dispatchable \cup {"running"}),
                      origin[c].parent # NoJob, origin[c].parent = origin[d].parent
               PROVE  c = d
    BY DEF OneStepAtATime
  <2>1. /\ c \in Jobs /\ d \in Jobs /\ c \in released /\ d \in released
        /\ c \notin succeeded /\ d \notin succeeded
        /\ origin[c].step \in Nat /\ origin[d].step \in Nat
    <3>1. /\ c \in Jobs /\ d \in Jobs /\ c \in JobId /\ d \in JobId
          /\ status[c] \notin {"succeeded", "cancelled"}
          /\ status[d] \notin {"succeeded", "cancelled"}
      BY JobsInJobId DEF InStatus, Dispatchable, DependencyInv, TypeOK
    <3>2. c \in released /\ d \in released
      BY <3>1 DEF InStatus, DependencyInv, HistoryInv
    <3> QED
      BY <3>1, <3>2 DEF ChainInv, SucceededInv, DependencyInv, TypeOK, StoreTypeOK, Origin
  <2>2. ~(origin[c].step < origin[d].step) /\ ~(origin[d].step < origin[c].step)
    BY <2>1 DEF ChainInv, InTurn
  <2>3. origin[c].step = origin[d].step
    BY <2>1, <2>2
  <2> QED
    BY <2>1, <2>3 DEF StepsInv, StepsCreatedOnce
<1> QED
  BY <1>1, DependencyInvariant, StepsInvariant, ChainInvariant, PTL

-----------------------------------------------------------------------------
(***************************************************************************)
(* A division that has ended is complete, and nobody is left waiting for    *)
(* the divided job: DivisionInv, PromotionInv and RepointedInv are          *)
(* inductive, the last two as long as nothing has failed.                   *)
(***************************************************************************)

(* A status is written over another. *)
LEMMA StatusAfter ==
    ASSUME TypeOK, NEW k \in Jobs, NEW s, UpdateStatus(k, s)
    PROVE  Jobs' = Jobs /\ \A j \in Jobs : status'[j] = IF j = k THEN s ELSE status[j]
<1>1. Jobs \subseteq JobId /\ status \in [JobId -> Status]
  BY JobsInJobId DEF TypeOK, StoreTypeOK
<1> QED
  BY <1>1 DEF UpdateStatus, Jobs

(* What becomes of the statuses in one step: no job is blocked again, and   *)
(* PromoteSteps alone records one as promoted. *)
StatusesMove ==
    \A j \in Jobs' :
        \/ j \in Jobs /\ status'[j] = status[j]
        \/ j \in Jobs /\ status'[j] \notin {"blocked", "promoted"}
        \/ j \in Jobs /\ j = target[Sched] /\ PromoteMark /\ status'[j] = "promoted"
        \/ j \notin Jobs /\ status'[j] \in Writable

LEMMA StatusesStay == UNCHANGED <<count, status>> => StatusesMove
BY DEF StatusesMove, Jobs

LEMMA WhatIsWritten ==
    ASSUME DependencyInv, [Next]_vars
    PROVE  StatusesMove
<1> USE SchedLabels DEF DependencyInv
<1>1. ASSUME NEW k \in Jobs, NEW s, UpdateStatus(k, s), s \notin {"blocked", "promoted"}
      PROVE  StatusesMove
  BY <1>1, StatusAfter DEF StatusesMove
<1>2. ASSUME NEW ds \in Seq(JobId), NEW o \in Origin, NEW h \in BOOLEAN, NEW s \in Writable,
             CreateJob(ds, o, h, s)
      PROVE  StatusesMove
  BY <1>2, RowInserted DEF StatusesMove
<1>3. CASE SchedStep
  <2>1. CASE PromoteMark
    <3>1. UpdateStatus(target[Sched], "promoted") /\ pc[Sched] \in PromoteLabel
      BY <2>1 DEF PromoteMark, PromoteLabel, RewireLabel
    <3> QED
      BY <2>1, <3>1, ParentAtWork, StatusAfter DEF StatusesMove
  <2>2. CASE PromoteCreate
    <3>1. (Len(kids) = 0 /\ convo[Sched]) \in BOOLEAN
      OBVIOUS
    <3> QED
      BY <1>2, <2>2, <3>1, NextChild
  <2>3. CASE SweepStatus
    BY <1>1, <2>3 DEF SweepStatus, SweepInv
  <2>4. CASE DeferWrite
    BY <1>1, <2>4 DEF DeferWrite, PendingInv, Pending, HoldsReleased, HistoryInv
  <2>5. CASE UNCHANGED <<count, status>>
    BY <2>5, StatusesStay
  <2>6. ASSUME UNCHANGED tableVars PROVE StatusesMove
    BY <2>6, StatusesStay DEF tableVars
  <2>7. Sweep => UNCHANGED <<count, status>> \/ SweepStatus
    BY DEF Sweep, SweepList, SweepPass, SweepResolve, SweepSession, UpdateSessionID, tableVars
  <2>8. Promote => UNCHANGED <<count, status>> \/ PromoteCreate \/ PromoteMark
    BY DEF Promote, PromoteExisting, PromoteRefused, PromoteBegin, PromoteResolve,
           PromoteBlankStep, RewireList, RewireJob, UpdateDependsOn, tableVars
  <2>9. TickHold \/ TickAdmit \/ TickDone \/ Fit \/ DispatchOne \/ SchedMark => UNCHANGED tableVars
    BY DEF TickHold, TickAdmit, TickDone, Fit, FitDispatch, FitCapBudget, FitDefer,
           FitPromoteSteps, FitRefused, DeferRead, PromoteRead, DispatchOne, SchedMark, MarkRead
  <2> QED
    BY <1>3, <2>1, <2>2, <2>3, <2>4, <2>5, <2>6, <2>7, <2>8, <2>9 DEF SchedStep, Defer
<1>4. ASSUME NEW c \in Clients,
             HandleCreateJob(c) \/ HandleCancelJob(c) \/ HandleDispatchJob(c) \/ Respond(c)
      PROVE  StatusesMove
  <2>1. CASE EnqueueCreate(c)
    <3>1. FALSE \in BOOLEAN
      OBVIOUS
    <3> QED
      BY <1>2, <2>1, <3>1, UserRow
  <2>2. CASE CancelWrite(c)
    BY <1>1, <2>2 DEF CancelWrite, PendingInv, Pending
  <2>3. CASE UNCHANGED tableVars
    BY <2>3, StatusesStay DEF tableVars
  <2> QED
    BY <1>4, <2>1, <2>2, <2>3
       DEF HandleCreateJob, EnqueueResolve, HandleCancelJob, CancelRead, HandleDispatchJob,
           Respond
<1>5. ASSUME NEW p \in Proc, Run(p) \/ EndRun(p)
      PROVE  StatusesMove
  <2>1. CASE MarkWrite(p) \/ FinishHalted(p) \/ FinishStatus(p)
    <3>1. /\ UpdateStatus(target[p], verdict[p])
          /\ pc[p] \in {"mark", "finishHalted", "finishStatus"}
      BY <2>1 DEF MarkWrite, FinishHalted, FinishStatus
    <3>2. target[p] \in Jobs /\ verdict[p] \notin {"blocked", "promoted"}
      BY <3>1 DEF PendingInv, Pending, HoldsReleased, ActiveLabel, RunLabel, HistoryInv
    <3> QED
      BY <1>1, <3>1, <3>2
  <2>2. CASE UNCHANGED <<count, status>>
    BY <2>2, StatusesStay
  <2> QED
    BY <1>5, <2>1, <2>2
       DEF Run, EndRun, RefuseHalted, Register, RefuseExhausted, StartFails, StartRun,
           FinishSession, UpdateSessionID, Unregister, RunError, RunResult, tableVars
<1>6. CASE \/ HandleHalt \/ HandleResume \/ UNCHANGED vars
           \/ Crash \/ \E p \in Proc : StoreError(p)
  <2>1. UNCHANGED <<count, status>>
    BY <1>6 DEF HandleHalt, Halt, HandleResume, Resume, vars, Crash, StoreError, tableVars
  <2> QED
    BY <2>1, StatusesStay
<1> QED
  BY <1>3, <1>4, <1>5, <1>6 DEF Next

(* What becomes of the rows: the parent of a new one is what PromoteSteps   *)
(* is at work on. *)
LEMMA RowsGrow ==
    ASSUME DependencyInv, [Next]_vars
    PROVE  /\ Jobs \subseteq Jobs' /\ \A j \in Jobs : origin'[j] = origin[j]
           /\ \A p \in Jobs : \/ Children(p)' = Children(p)
                              \/ PromoteCreate /\ p = target[Sched]
           /\ \A p \in Jobs' \ Jobs : Children(p)' = {}
<1> SUFFICES /\ Jobs \subseteq Jobs' /\ \A j \in Jobs : origin'[j] = origin[j]
             /\ \/ Jobs' = Jobs
                \/ \E new \in Jobs' :
                      /\ Jobs' = Jobs \cup {new} /\ new \notin Jobs
                      /\ \/ origin'[new].parent = NoJob
                         \/ PromoteCreate /\ origin'[new].parent = target[Sched]
  <2>1. \A p \in Jobs : p # NoJob
    BY DEF Jobs, NoJob
  <2>2. \A p \in Jobs' \ Jobs, c \in Jobs' : origin'[c].parent # p
    <3> SUFFICES ASSUME NEW p \in Jobs', p \notin Jobs, NEW c \in Jobs', origin'[c].parent = p
                 PROVE  FALSE
      OBVIOUS
    <3>1. p < c /\ c \in Nat /\ p \in Nat \ {0}
      <4>1. TypeOK' /\ ParentBefore(c)' /\ p # NoJob
        BY InvNext, JobsPrime DEF DependencyInv, OrderInv, NoJob
      <4> QED
        BY <4>1, JobsPrime DEF ParentBefore
    <3>2. c \notin Jobs
      BY <3>1 DEF Jobs, DependencyInv, TypeOK, StoreTypeOK
    <3> QED
      BY <3>1, <3>2
  <2> QED
    BY <2>1, <2>2 DEF Children
<1>1. CASE RowsStay
  BY <1>1 DEF RowsStay, Jobs
<1>2. ASSUME NEW c \in Clients, EnqueueCreate(c)
      PROVE  /\ Jobs \subseteq Jobs' /\ \A j \in Jobs : origin'[j] = origin[j]
             /\ \E new \in Jobs' : /\ Jobs' = Jobs \cup {new} /\ new \notin Jobs
                                   /\ origin'[new].parent = NoJob
  <2>1. PICK ds \in Seq(JobId), o \in Origin, s \in Writable :
           CreateJob(ds, o, FALSE, s) /\ o.parent = NoJob
    BY <1>2, UserRow
  <2> QED
    BY <2>1, RowInserted DEF DependencyInv
<1>3. CASE PromoteExisting \/ PromoteBegin
  BY <1>3 DEF PromoteExisting, PromoteBegin, tableVars, Jobs
<1>4. CASE PromoteCreate
  <2>1. PICK o \in Origin :
           /\ o.parent = target[Sched]
           /\ CreateJob(StepDeps, o, Len(kids) = 0 /\ convo[Sched], verdict[Sched])
    BY <1>4, NextChild
  <2>2. /\ (Len(kids) = 0 /\ convo[Sched]) \in BOOLEAN
        /\ StepDeps \in Seq(JobId) /\ verdict[Sched] \in Writable
    BY <1>4, NextChild
  <2>3. /\ count + 1 \notin Jobs /\ Jobs' = Jobs \cup {count + 1}
        /\ \A j \in Jobs : origin'[j] = origin[j]
        /\ origin'[count + 1] = o
    BY <2>1, <2>2, RowInserted DEF DependencyInv
  <2> QED
    BY <1>4, <2>1, <2>3
<1>5. CASE \E j \in rewires : RewireJob(j)
  BY <1>5 DEF RewireJob, UpdateDependsOn, Jobs
<1> QED
  BY <1>1, <1>2, <1>3, <1>4, <1>5, WhatStepsDo DEF DependencyInv

-----------------------------------------------------------------------------

(* The children created so far bear the numbers of the steps so far. *)
LEMMA KidsNumbered ==
    ASSUME DependencyInv, StepsInv, pc[Sched] \in KidsLabel
    PROVE  /\ Len(kids) \in Nat /\ DOMAIN kids = 1 .. Len(kids)
           /\ {origin[c].step : c \in Children(target[Sched])} = 1 .. Len(kids)
<1>1. Len(kids) \in Nat /\ DOMAIN kids = 1 .. Len(kids)
  BY LenProperties DEF DependencyInv, TypeOK, QueueTypeOK, TickTypeOK
<1>2. /\ Children(target[Sched]) = {kids[i] : i \in 1 .. Len(kids)}
      /\ \A i \in 1 .. Len(kids) : origin[kids[i]].step = i
  BY <1>1 DEF StepsInv, KidsAreChildren, Elements
<1> QED
  BY <1>1, <1>2

(* PromoteSteps marks its parent after dividing it. *)
LEMMA MarkedDivided ==
    ASSUME DependencyInv, StepsInv, DivisionInv, PromoteMark
    PROVE  Children(target[Sched]) # {}
<1>1. CASE pc[Sched] = "promoteMark"
  BY <1>1 DEF DivisionInv
<1>2. CASE pc[Sched] \in RewireLabel
  <2>1. kids # <<>> /\ pc[Sched] \in KidsLabel
    BY <1>2 DEF DependencyInv, TickInv, KidsLabel
  <2>2. kids[Len(kids)] \in Elements(kids)
    BY <2>1, LastKid DEF DependencyInv, Elements
  <2> QED
    BY <2>1, <2>2 DEF StepsInv, KidsAreChildren
<1> QED
  BY <1>1, <1>2 DEF PromoteMark

LEMMA DivisionInvNext ==
    ASSUME DependencyInv, StepsInv, DivisionInv, [Next]_vars
    PROVE  DivisionInv'
<1> USE SchedLabels DEF DependencyInv, TypeOK, QueueTypeOK
<1>1. LocalTypeOK
  OBVIOUS
<1>2. \A p \in Jobs : Children(p) # {} => Children(p)' # {}
  BY RowsGrow DEF Children
<1>3. \A p \in InStatus({"promoted"})' : Children(p)' # {}
  <2> SUFFICES ASSUME NEW p \in Jobs', status'[p] = "promoted"
               PROVE  Children(p)' # {}
    BY DEF InStatus
  <2>1. p \in Jobs /\ (status[p] = "promoted" \/ (PromoteMark /\ p = target[Sched]))
    BY WhatIsWritten DEF StatusesMove, Writable
  <2>2. CASE status[p] = "promoted"
    BY <1>2, <2>1, <2>2 DEF DivisionInv, InStatus
  <2>3. CASE PromoteMark /\ p = target[Sched]
    BY <1>2, <2>1, <2>3, MarkedDivided
  <2> QED
    BY <2>1, <2>2, <2>3
<1>4. ASSUME KidsStay PROVE DivisionInv'
  <2>1. \A L \in Phases : pc'[Sched] \in L =>
          /\ pc[Sched] \in L /\ target'[Sched] = target[Sched] /\ kids' = kids
          /\ target[Sched] \in Jobs /\ origin'[target[Sched]] = origin[target[Sched]]
    <3>1. \A L \in Phases : L \subseteq PromoteLabel
      BY DEF Phases, CreateLabel, RepointLabel, RewireLabel, PromoteLabel
    <3> QED
      BY <1>4, <3>1, ParentAtWork, RowsGrow DEF KidsStay
  <2>2. pc'[Sched] \in CreateLabel => Len(kids') < Len(origin'[target'[Sched]].steps)
    BY <2>1 DEF Phases, CreateLabel, DivisionInv
  <2>3. pc'[Sched] \in RepointLabel => Len(kids') = Len(origin'[target'[Sched]].steps)
    BY <2>1 DEF Phases, RepointLabel, DivisionInv
  <2>4. pc'[Sched] = "promoteMark" => Children(target[Sched])' # {} /\ target'[Sched] = target[Sched]
    BY <1>2, <2>1 DEF Phases, DivisionInv
  <2> QED
    BY <1>3, <2>2, <2>3, <2>4 DEF DivisionInv, CreateLabel, RepointLabel, Children
<1>5. CASE PromoteExisting
  <2>1. /\ pc'[Sched] \in {"fit", "promoteMark"} /\ Children(target[Sched]) # {}
        /\ pc'[Sched] = "promoteMark" => target'[Sched] = target[Sched]
        /\ pc[Sched] \in PromoteLabel
    BY <1>1, <1>5, GotoMoves, LeaveMoves DEF PromoteExisting, PromoteLabel
  <2>2. pc'[Sched] = "promoteMark" => Children(target[Sched])' # {}
    BY <1>2, <2>1, ParentAtWork
  <2> QED
    BY <1>3, <2>1, <2>2 DEF DivisionInv, RewireLabel
<1>6. CASE PromoteBegin
  <2>1. /\ pc[Sched] = "promoteList" /\ pc'[Sched] = "promoteResolve"
        /\ target'[Sched] = target[Sched] /\ kids' = kids /\ origin' = origin
    BY <1>1, <1>6, GotoMoves DEF PromoteBegin, tickVars, tableVars
  <2>2. kids = <<>> /\ pc[Sched] \in PromoteLabel
    BY <2>1 DEF TickInv, KidsLabel, RewireLabel, PromoteLabel
  <2>3. 0 < Len(origin[target[Sched]].steps)
    <3>1. origin[target[Sched]].steps \in Seq(Prompt) /\ origin[target[Sched]].steps # <<>>
      BY <2>2, ParentAtWork
    <3> QED
      BY <3>1, EmptySeq, LenProperties
  <2> QED
    BY <1>3, <2>1, <2>2, <2>3 DEF DivisionInv, RewireLabel
<1>7. CASE PromoteCreate
  <2> DEFINE n == Len(kids)  m == Len(origin[target[Sched]].steps)
  <2>1. /\ Len(kids') = n + 1 /\ target'[Sched] = target[Sched] /\ n \in Nat
        /\ pc'[Sched] = IF n + 1 = m THEN "rewireList" ELSE "promoteResolve"
    BY <1>7, NextChild
  <2>2. n < m /\ m \in Nat
    <3>1. pc[Sched] = "promoteCreate" /\ pc[Sched] \in PromoteLabel
      BY <1>7 DEF PromoteCreate, PromoteLabel
    <3> QED
      BY <3>1, ParentAtWork, LenProperties DEF DivisionInv
  <2>3. origin'[target[Sched]] = origin[target[Sched]]
    <3>1. pc[Sched] \in PromoteLabel
      BY <1>7 DEF PromoteCreate, PromoteLabel
    <3> QED
      BY <3>1, ParentAtWork, RowsGrow
  <2> QED
    BY <1>3, <2>1, <2>2, <2>3 DEF DivisionInv, RewireLabel
<1>8. CASE KidsStay
  BY <1>4, <1>8
<1> QED
  BY <1>5, <1>6, <1>7, <1>8, WhatStepsDo

LEMMA DivisionInvInit == Init => DivisionInv
<1> SUFFICES ASSUME Init PROVE DivisionInv
  OBVIOUS
<1>1. pc[Sched] = "idle"
  BY SchedLabels DEF Init, QueueInit
<1>2. \A j \in Jobs : status[j] # "promoted"
  BY Constants DEF Init, StoreInit, Jobs, JobId
<1> QED
  BY <1>1, <1>2 DEF DivisionInv, RewireLabel, InStatus

-----------------------------------------------------------------------------

(* As long as no statement fails and the process does not die, the          *)
(* scheduler loop takes its own next step or none. *)
LEMMA NoFaultYet ==
    ASSUME TypeOK, [Next]_vars, faults' = 0
    PROVE  faults = 0 /\ (SchedStep \/ Run(Sched) \/ EndRun(Sched) \/ LoopStands)
<1>1. ~Crash /\ \A p \in Proc : ~StoreError(p)
  BY DEF Crash, StoreError, Fault, TypeOK
<1>2. CASE SchedStep
  BY <1>2 DEF SchedStep, Sweep, TickHold, TickAdmit, TickDone, Fit, Defer, Promote,
              DispatchOne, SchedMark, SchedQuiet, boundVars
<1>3. ASSUME NEW p \in Proc, Run(p) \/ EndRun(p)
      PROVE  faults = 0 /\ (Run(Sched) \/ EndRun(Sched) \/ LoopStands)
  BY <1>3, OtherRuns DEF Run, EndRun, boundVars
<1>4. ASSUME NEW c \in Clients,
             HandleCreateJob(c) \/ HandleCancelJob(c) \/ HandleDispatchJob(c) \/ Respond(c)
      PROVE  faults = 0 /\ LoopStands
  BY <1>4, Handlers
     DEF HandleCreateJob, HandleCancelJob, HandleDispatchJob, Respond, Ask, boundVars
<1>5. CASE HandleHalt \/ HandleResume \/ UNCHANGED vars
  BY <1>5 DEF HandleHalt, Halt, HandleResume, Resume, Ask, vars, boundVars, procVars,
              LoopStands, Stays
<1> QED
  BY <1>1, <1>2, <1>3, <1>4, <1>5 DEF Next

(* Then PromoteSteps, once it has begun, ends by marking its parent unless  *)
(* a step is refused, *)
LEMMA PromotionGoesOn ==
    ASSUME TypeOK, [Next]_vars, faults' = 0, pc[Sched] \in KidsLabel
    PROVE  \/ pc'[Sched] \in KidsLabel /\ target'[Sched] = target[Sched]
           \/ PromoteMark
           \/ PromoteBlankStep
<1> USE SchedLabels DEF TypeOK, QueueTypeOK
<1>1. LocalTypeOK
  OBVIOUS
<1>2. CASE LoopStands
  BY <1>2 DEF LoopStands, Stays
<1>3. ~Run(Sched) /\ ~EndRun(Sched)
  BY DEF KidsLabel, RewireLabel, Run, EndRun, MarkWrite, RefuseHalted, FinishHalted, Register,
         RefuseExhausted, StartFails, StartRun, FinishSession, FinishStatus, Unregister,
         RunError, RunResult
<1>4. CASE SchedStep
  <2>1. Promote
    BY <1>4 DEF KidsLabel, RewireLabel, SchedStep, Sweep, SweepList, SweepPass, SweepResolve,
                SweepSession, SweepStatus, TickHold, TickAdmit, TickDone, Fit, Defer,
                DeferWrite, DispatchOne, SchedMark
  <2>2. CASE PromoteResolve \/ PromoteCreate \/ RewireList
    BY <1>1, <2>2, GotoMoves
       DEF PromoteResolve, PromoteCreate, RewireList, LocalTypeOK, KidsLabel, RewireLabel
  <2>3. ASSUME NEW j \in rewires, RewireJob(j)
        PROVE  pc'[Sched] \in KidsLabel /\ target'[Sched] = target[Sched]
    BY <2>3 DEF RewireJob, procVars
  <2> QED
    BY <2>1, <2>2, <2>3
       DEF KidsLabel, RewireLabel, Promote, PromoteExisting, PromoteRefused, PromoteBegin
<1> QED
  BY <1>2, <1>3, <1>4, NoFaultYet

(* and it repoints the dependents that it listed. *)
LEMMA RewiringGoesOn ==
    ASSUME TypeOK, [Next]_vars, faults' = 0, pc'[Sched] \in RewireLabel
    PROVE  /\ target'[Sched] = target[Sched]
           /\ \/ pc[Sched] \in RewireLabel /\ rewires' = rewires
              \/ \E j \in rewires : RewireJob(j)
              \/ RewireList
<1> USE SchedLabels DEF TypeOK, QueueTypeOK
<1>1. LocalTypeOK
  OBVIOUS
<1>2. CASE LoopStands
  BY <1>2 DEF LoopStands, Stays, tickVars
<1>3. ~Run(Sched) /\ ~EndRun(Sched)
  BY <1>1, GotoMoves, EnterMoves, ReturnMoves
     DEF RewireLabel, Run, EndRun, MarkWrite, RefuseHalted, FinishHalted, Register,
         RefuseExhausted, StartFails, StartRun, FinishSession, FinishStatus, Unregister,
         RunError, RunResult
<1>4. CASE SchedStep
  <2>1. /\ \A l : Goto(Sched, l) \/ Leave(Sched, l) => l \in RewireLabel
        /\ \A l, j, s : Enter(Sched, l, j, s) => l \in RewireLabel
    BY <1>1, GotoMoves, LeaveMoves, EnterMoves
  <2>2. ~EndTick
    BY <2>1 DEF EndTick, RewireLabel
  <2>3. CASE Sweep
    BY <2>1, <2>3
       DEF RewireLabel, Sweep, SweepList, SweepPass, SweepResolve, SweepSession, SweepStatus,
           procVars
  <2>4. CASE TickHold \/ TickAdmit \/ TickDone \/ Defer \/ DispatchOne \/ SchedMark
    BY <2>1, <2>2, <2>4
       DEF RewireLabel, TickHold, TickAdmit, TickDone, Defer, DeferWrite, DispatchOne,
           SchedMark, MarkRead
  <2>5. CASE Fit
    <3>1. \A j : ~FitDispatch(j) /\ ~DeferRead(j)
      BY <2>1, <2>5 DEF FitDispatch, DeferRead, RewireLabel, procVars, Fit
    <3>2. \A j : ~PromoteRead(j)
      BY <1>1 DEF PromoteRead, LocalTypeOK, RewireLabel
    <3> QED
      BY <2>2, <2>5, <3>1, <3>2
         DEF Fit, FitCapBudget, FitDefer, FitPromoteSteps, FitRefused
  <2>6. CASE Promote
    <3>1. ~PromoteExisting /\ ~PromoteRefused /\ ~PromoteBegin /\ ~PromoteBlankStep
          /\ ~PromoteMark
      BY <2>1, <2>2
         DEF RewireLabel, PromoteExisting, PromoteRefused, PromoteBegin, PromoteBlankStep,
             PromoteMark
    <3>2. ~PromoteResolve /\ ~PromoteCreate
      BY <1>1, GotoMoves
         DEF RewireLabel, PromoteResolve, PromoteCreate, LocalTypeOK
    <3>3. RewireList => target'[Sched] = target[Sched]
      BY <1>1, GotoMoves DEF RewireList
    <3> QED
      BY <2>6, <3>1, <3>2, <3>3 DEF Promote, RewireJob, procVars
  <2> QED
    BY <1>4, <2>3, <2>4, <2>5, <2>6 DEF SchedStep
<1> QED
  BY <1>2, <1>3, <1>4, NoFaultYet

(* A promotion that has ended has created a child for every step. *)
LEMMA AllStepsThere ==
    ASSUME DependencyInv, StepsInv, PromotionInv, [Next]_vars, faults' = 0,
           NEW p \in Jobs', Divisible(p)', Children(p)' # {}, ~Dividing(p)'
    PROVE  {origin'[c].step : c \in Children(p)'} = DOMAIN origin'[p].steps
<1>1. p \in Jobs /\ Divisible(p) /\ origin'[p] = origin[p]
  BY RowsGrow DEF Divisible, Elements
<1>2. CASE Dividing(p)
  <2>1. pc[Sched] \in KidsLabel /\ target[Sched] = p
    BY <1>2 DEF Dividing
  <2>2. ~PromoteBlankStep
    BY <1>1, <2>1 DEF PromoteBlankStep, Divisible, Elements
  <2>3. PromoteMark /\ pc[Sched] \in RewireLabel
    BY <2>1, <2>2, PromotionGoesOn
       DEF DependencyInv, Dividing, PromoteMark, KidsLabel, RewireLabel
  <2>4. Children(p)' = Children(p) /\ origin' = origin
    BY <2>3 DEF PromoteMark, UpdateStatus, Children, Jobs
  <2>5. Len(kids) = Len(origin[p].steps)
    BY <2>1, <2>3 DEF PromotionInv, DivisionInv
  <2>6. {origin[c].step : c \in Children(p)} = 1 .. Len(kids)
    BY <2>1, KidsNumbered
  <2>7. DOMAIN origin[p].steps = 1 .. Len(origin[p].steps)
    <3>1. origin[p].steps \in Seq(Prompt)
      BY <2>1, <2>3, ParentAtWork DEF RewireLabel, PromoteLabel
    <3> QED
      BY <3>1, LenProperties
  <2> QED
    BY <1>1, <2>4, <2>5, <2>6, <2>7
<1>3. CASE ~Dividing(p)
  <2>1. Children(p)' = Children(p)
    BY <1>1, <1>3, RowsGrow DEF Dividing, PromoteCreate, KidsLabel
  <2>2. \A c \in Children(p) : origin'[c] = origin[c]
    BY RowsGrow DEF Children
  <2>3. {origin[c].step : c \in Children(p)} = DOMAIN origin[p].steps
    BY <1>1, <1>3, <2>1 DEF PromotionInv
  <2> QED
    BY <1>1, <2>1, <2>2, <2>3
<1> QED
  BY <1>2, <1>3

LEMMA PromotionInvNext ==
    ASSUME DependencyInv, StepsInv, PromotionInv, [Next]_vars, faults' = 0
    PROVE  PromotionInv'
<1>1. DivisionInv'
  BY DivisionInvNext DEF PromotionInv
<1>2. ASSUME NEW p \in Jobs', status'[p] = "promoted", Divisible(p)'
      PROVE  {origin'[c].step : c \in Children(p)'} = DOMAIN origin'[p].steps
  <2>1. Children(p)' # {}
    BY <1>1, <1>2 DEF DivisionInv, InStatus
  <2>2. CASE Dividing(p)'
    <3>1. ~PromoteMark
      BY <2>2, SchedLabels, LeaveMoves
         DEF Dividing, PromoteMark, EndTick, KidsLabel, RewireLabel, DependencyInv, TypeOK,
             QueueTypeOK
    <3>2. p \in Jobs /\ status[p] = "promoted"
      BY <1>2, <3>1, WhatIsWritten DEF StatusesMove, Writable
    <3>3. /\ Divisible(p) /\ origin'[p] = origin[p]
          /\ \A c \in Children(p) : origin'[c] = origin[c]
      BY <1>2, <3>2, RowsGrow DEF Divisible, Elements, Children
    <3>4. {origin[c].step : c \in Children(p)} = DOMAIN origin[p].steps
      BY <3>2, <3>3 DEF PromotionInv, PromotionComplete, InStatus
    <3>5. ~(PromoteCreate /\ p = target[Sched])
      <4> SUFFICES ASSUME PromoteCreate, p = target[Sched] PROVE FALSE
        OBVIOUS
      <4>1. pc[Sched] = "promoteCreate" /\ pc[Sched] \in KidsLabel
        BY DEF PromoteCreate, KidsLabel
      <4>2. Len(kids) < Len(origin[p].steps) /\ Len(kids) \in Nat
        BY <4>1, KidsNumbered DEF PromotionInv, DivisionInv
      <4>3. origin[p].steps \in Seq(Prompt)
        BY <4>1, ParentAtWork DEF PromoteLabel
      <4>4. 1 .. Len(kids) = 1 .. Len(origin[p].steps) /\ Len(origin[p].steps) \in Nat
        BY <3>4, <4>1, <4>3, KidsNumbered, LenProperties
      <4>5. Len(origin[p].steps) \in 1 .. Len(kids)
        BY <4>2, <4>4
      <4> QED
        BY <4>2, <4>4, <4>5
    <3> QED
      BY <3>2, <3>3, <3>4, <3>5, RowsGrow
  <2> QED
    BY <1>2, <2>1, <2>2, AllStepsThere
<1>3. PromotionComplete'
  BY <1>2 DEF PromotionComplete, InStatus
<1> QED
  BY <1>1, <1>3, AllStepsThere DEF PromotionInv

LEMMA PromotionInvInit == Init => PromotionInv
<1> SUFFICES ASSUME Init PROVE PromotionInv
  OBVIOUS
<1>1. \A j \in Jobs : status[j] # "promoted" /\ j # NoJob /\ origin[j].parent = NoJob
  BY Constants DEF Init, StoreInit, Jobs, JobId, NoJob
<1> QED
  BY <1>1, DivisionInvInit DEF PromotionInv, PromotionComplete, InStatus, Children

(* A promoted job has been divided before it is marked, whatever fails. *)
THEOREM DivisionInvariant == Spec => []DivisionInv
<1>1. DependencyInv /\ StepsInv /\ DivisionInv /\ [Next]_vars => DivisionInv'
  BY DivisionInvNext
<1> QED
  BY <1>1, DivisionInvInit, DependencyInvariant, StepsInvariant, PTL DEF Spec

(* As long as no statement has failed and the process has not died, a       *)
(* promoted job has one child for each of its steps, unless one of them is  *)
(* refused: PromoteSteps marks its parent last. *)
THEOREM PromotedInFull == Spec => [](faults = 0 => PromotionComplete)
<1>1. DependencyInv /\ [Next]_vars /\ faults' = 0 => faults = 0
  BY NoFaultYet DEF DependencyInv
<1>2. /\ DependencyInv /\ StepsInv /\ (faults = 0 => PromotionInv) /\ [Next]_vars
      => (faults = 0 => PromotionInv)'
  BY <1>1, PromotionInvNext
<1>3. Init => (faults = 0 => PromotionInv)
  BY PromotionInvInit
<1>4. (faults = 0 => PromotionInv) => (faults = 0 => PromotionComplete)
  BY DEF PromotionInv
<1> QED
  BY <1>2, <1>3, <1>4, DependencyInvariant, StepsInvariant, PTL DEF Spec

-----------------------------------------------------------------------------

(* No goroutine comes to insert a user's row but by resolving one. *)
LEMMA CreatesAsked ==
    ASSUME TypeOK, [Next]_vars, NEW c \in Clients, pc'[c] = "create"
    PROVE  HandleCreateJob(c) \/ (pc[c] = "create" /\ wish'[c] = wish[c])
<1> USE SchedLabels DEF TypeOK, QueueTypeOK
<1>1. c \in Proc /\ c # Sched /\ LocalTypeOK
  BY Constants
<1>2. CASE SchedStep
  BY <1>1, <1>2
     DEF LocalTypeOK, SchedStep, Sweep, SweepList, SweepPass, SweepResolve,
         SweepSession, SweepStatus, TickHold, TickAdmit, TickDone, Fit, FitDispatch,
         FitCapBudget, FitDefer, FitPromoteSteps, FitRefused, DeferRead, PromoteRead, Defer,
         DeferWrite, Promote, PromoteExisting, PromoteRefused, PromoteBegin, PromoteResolve,
         PromoteCreate, PromoteBlankStep, RewireList, RewireJob, PromoteMark, DispatchOne,
         SchedMark, MarkRead, Goto, Enter, Leave, EndTick, procVars
<1>3. ASSUME NEW d \in Clients, HandleCreateJob(d), d # c
      PROVE  Stays(c)
  BY <1>1, <1>3 DEF HandleCreateJob, EnqueueResolve, LocalTypeOK, Stays
<1>4. ASSUME NEW d \in Clients, HandleCancelJob(d) \/ HandleDispatchJob(d) \/ Respond(d)
      PROVE  pc'[d] # "create" /\ \A q \in Proc \ {d} : Stays(q)
  <2>1. d \in Proc /\ LocalTypeOK
    OBVIOUS
  <2>2. \/ \E j : Enter(d, "cancel", j, "cancelled") \/ Enter(d, "mark", j, "running")
        \/ Leave(d, "idle")
    BY <1>4 DEF HandleCancelJob, CancelRead, HandleDispatchJob, MarkRead, Respond,
                CancelWrite, EnqueueCreate
  <2> QED
    BY <2>1, <2>2, EnterMoves, LeaveMoves
<1>5. ASSUME NEW p \in Proc, Run(p) \/ EndRun(p) \/ StoreError(p)
      PROVE  (pc'[p] # "create" \/ Stays(p)) /\ \A q \in Proc \ {p} : Stays(q)
  <2>1. CASE Run(p) \/ EndRun(p)
    BY <1>1, <2>1, GotoMoves, EnterMoves, ReturnMoves
       DEF Run, EndRun, MarkWrite, RefuseHalted, FinishHalted, Register, RefuseExhausted,
           StartFails, StartRun, FinishSession, FinishStatus, Unregister, RunError, RunResult
  <2>2. CASE StoreError(p)
    BY <1>1, <2>2, GotoMoves, LeaveMoves, ReturnMoves DEF StoreError, procVars, Stays
  <2> QED
    BY <1>5, <2>1, <2>2
<1>6. CASE HandleHalt \/ HandleResume \/ UNCHANGED vars \/ Crash
  BY <1>1, <1>6 DEF HandleHalt, Halt, HandleResume, Resume, vars, procVars, Crash
<1> QED
  BY <1>1, <1>2, <1>3, <1>4, <1>5, <1>6 DEF Next, Stays

(* Who writes depends_on, and what. *)
LEMMA ListsKept ==
    ASSUME DependencyInv, [Next]_vars
    PROVE  /\ \A j \in Jobs : dependsOn'[j] = dependsOn[j] \/ (j \in rewires /\ RewireJob(j))
           /\ \A j \in Jobs' \ Jobs :
                 \/ \E c \in Clients : EnqueueCreate(c) /\ dependsOn'[j] = wish[c].deps
                 \/ PromoteCreate /\ dependsOn'[j] = StepDeps
<1> USE DEF DependencyInv
<1>1. CASE RowsStay
  BY <1>1 DEF RowsStay, Jobs
<1>2. ASSUME NEW c \in Clients, EnqueueCreate(c)
      PROVE  /\ \A j \in Jobs : dependsOn'[j] = dependsOn[j]
             /\ \A j \in Jobs' \ Jobs : dependsOn'[j] = wish[c].deps
  <2>1. PICK ds \in Seq(JobId), o \in Origin, s \in Writable :
           CreateJob(ds, o, FALSE, s) /\ ds = wish[c].deps
    BY <1>2, UserRow
  <2> QED
    BY <2>1, RowInserted
<1>3. CASE PromoteExisting \/ PromoteBegin
  BY <1>3 DEF PromoteExisting, PromoteBegin, tableVars, Jobs
<1>4. CASE PromoteCreate
  <2>1. PICK o \in Origin : CreateJob(StepDeps, o, Len(kids) = 0 /\ convo[Sched], verdict[Sched])
    BY <1>4, NextChild
  <2>2. /\ (Len(kids) = 0 /\ convo[Sched]) \in BOOLEAN
        /\ StepDeps \in Seq(JobId) /\ verdict[Sched] \in Writable
    BY <1>4, NextChild
  <2>3. /\ \A j \in Jobs : dependsOn'[j] = dependsOn[j]
        /\ \A j \in Jobs' \ Jobs : dependsOn'[j] = StepDeps
    BY <2>1, <2>2, RowInserted
  <2> QED
    BY <1>4, <2>3
<1>5. ASSUME NEW i \in rewires, RewireJob(i)
      PROVE  Jobs' = Jobs /\ \A j \in Jobs \ {i} : dependsOn'[j] = dependsOn[j]
  BY <1>5, JobsInJobId DEF RewireJob, UpdateDependsOn, Jobs, TypeOK, StoreTypeOK
<1> QED
  BY <1>1, <1>2, <1>3, <1>4, <1>5, WhatStepsDo

(* A child has no children. *)
LEMMA ChildHasNone ==
    ASSUME OrderInv, NEW j \in Jobs, origin[j].parent # NoJob
    PROVE  Children(j) = {}
<1>1. j # NoJob
  BY DEF Jobs, NoJob
<1> QED
  BY <1>1 DEF OrderInv, ParentBefore, Children

(* What a repointed job waits for afterwards: no longer for the parent, but *)
(* for one of its children. *)
LEMMA Repointed ==
    ASSUME DependencyInv, NEW j \in rewires, RewireJob(j)
    PROVE  \A d \in Elements(dependsOn'[j]) :
              /\ d \in Elements(dependsOn[j]) \/ (d \in Jobs /\ origin[d].parent # NoJob)
              /\ d # target[Sched]
<1> DEFINE p == target[Sched]  last == kids[Len(kids)]
<1>1. /\ j \in JobId /\ listed[j] = dependsOn[j] /\ pc[Sched] \in KidsLabel
      /\ p \in Jobs /\ origin[p].parent = NoJob /\ p # NoJob
  <2>1. j \in JobId /\ listed[j] = dependsOn[j] /\ pc[Sched] \in RewireLabel
    BY JobsInJobId DEF DependencyInv, TypeOK, TickInv, RewireJob
  <2> QED
    BY <2>1, ParentAtWork DEF RewireLabel, PromoteLabel, KidsLabel, Jobs, NoJob
<1>2. last \in Jobs /\ origin[last].parent = p
  BY <1>1, LastKid DEF RewireJob, DependencyInv, TickInv
<1>3. dependsOn'[j] = Repoint(dependsOn[j], p, last)
  BY <1>1 DEF RewireJob, UpdateDependsOn, DependencyInv, TypeOK, StoreTypeOK
<1> QED
  BY <1>1, <1>2, <1>3 DEF Repoint, Elements

LEMMA RepointedInvNext ==
    ASSUME MaxDeps = 0 \/ "create" \notin Requests,
           DependencyInv, StepsInv, DivisionInv, RepointedInv, [Next]_vars, faults' = 0
    PROVE  RepointedInv'
<1>1. \A c \in Clients : pc'[c] = "create" => Elements(wish[c].deps)' = {}
  <2> SUFFICES ASSUME NEW c \in Clients, pc'[c] = "create"
               PROVE  Elements(wish'[c].deps) = {}
    BY DEF Elements
  <2>1. CASE HandleCreateJob(c)
    <3>1. PICK ds \in DepLists, t \in Templates : EnqueueResolve(c, ds, t)
      BY <2>1 DEF HandleCreateJob
    <3>2. MaxDeps = 0
      BY <2>1 DEF HandleCreateJob, Ask
    <3>3. DOMAIN ds = {}
      BY <3>2 DEF DepLists
    <3>4. wish'[c].deps = ds
      BY <3>1, SchedLabels DEF EnqueueResolve, DependencyInv, TypeOK, QueueTypeOK, LocalTypeOK
    <3> QED
      BY <3>3, <3>4 DEF Elements
  <2> QED
    BY <2>1, CreatesAsked DEF RepointedInv, DependencyInv
<1>2. ASSUME NEW j \in Jobs', j \notin Jobs, NEW d \in Elements(dependsOn'[j])
      PROVE  PromoteCreate /\ d \in Jobs /\ origin[d].parent # NoJob
  <2>1. ~\E c \in Clients : EnqueueCreate(c) /\ dependsOn'[j] = wish[c].deps
    BY <1>2 DEF RepointedInv, EnqueueCreate
  <2>2. PromoteCreate /\ d \in Elements(StepDeps)
    BY <1>2, <2>1, ListsKept
  <2>3. kids # <<>> /\ d = kids[Len(kids)] /\ pc[Sched] \in PromoteLabel \cap KidsLabel
    BY <2>2 DEF StepDeps, Elements, PromoteCreate, KidsLabel, PromoteLabel
  <2>4. target[Sched] # NoJob
    BY <2>3, ParentAtWork DEF Jobs, NoJob
  <2> QED
    BY <2>2, <2>3, <2>4, LastKid DEF DependencyInv, TickInv
<1>3. ASSUME NEW p \in Jobs', NEW j \in Jobs', status'[j] = "blocked",
             Divisible(p)', Children(p)' # {}, ~Dividing(p)', p \in Elements(dependsOn'[j])
      PROVE  FALSE
  <2>1. p \in Jobs /\ Divisible(p)
    BY <1>3, RowsGrow DEF Divisible, Elements
  <2>2. origin[p].parent = NoJob
    <3>1. Children(p)' = Children(p) \/ p = target[Sched]
      BY <2>1, RowsGrow
    <3>2. PromoteCreate /\ p = target[Sched] => origin[p].parent = NoJob
      BY ParentAtWork DEF PromoteCreate, PromoteLabel
    <3>3. Children(p)' = Children(p) => origin[p].parent = NoJob
      BY <1>3, <2>1, ChildHasNone DEF DependencyInv
    <3> QED
      BY <2>1, <3>2, <3>3, RowsGrow
  <2>3. j \in Jobs
    BY <1>2, <1>3, <2>2
  <2>4. status[j] = "blocked"
    BY <1>3, <2>3, WhatIsWritten DEF StatusesMove
  <2>5. p \in Elements(dependsOn[j])
    BY <1>3, <2>2, <2>3, ListsKept, Repointed
  <2>6. CASE ~Dividing(p)
    <3>1. Children(p) # {}
      BY <1>3, <2>1, <2>6, RowsGrow DEF Dividing, PromoteCreate, KidsLabel
    <3> QED
      BY <2>1, <2>3, <2>4, <2>5, <2>6, <3>1 DEF RepointedInv, InStatus
  <2>7. CASE Dividing(p)
    <3>1. ~PromoteBlankStep
      BY <2>1, <2>7 DEF PromoteBlankStep, Dividing, Divisible, Elements
    <3>2. PromoteMark /\ pc[Sched] \in RewireLabel /\ rewires = {}
      BY <1>3, <2>7, <3>1, PromotionGoesOn
         DEF DependencyInv, Dividing, PromoteMark, KidsLabel, RewireLabel
    <3> QED
      BY <2>3, <2>4, <2>5, <2>7, <3>2 DEF RepointedInv, InStatus, Dividing
  <2> QED
    BY <2>6, <2>7
<1>4. ASSUME pc'[Sched] \in RewireLabel, NEW j \in Jobs', status'[j] = "blocked",
             target'[Sched] \in Elements(dependsOn'[j])
      PROVE  j \in rewires'
  <2>1. /\ target'[Sched] = target[Sched]
        /\ \/ pc[Sched] \in RewireLabel /\ rewires' = rewires
           \/ \E i \in rewires : RewireJob(i)
           \/ RewireList
    BY <1>4, RewiringGoesOn DEF DependencyInv
  <2>2. pc[Sched] \in RewireLabel \cup {"rewireList"}
    BY <2>1 DEF RewireList, RewireJob
  <2>3. j \in Jobs
    BY <1>2, <1>4, <2>2 DEF PromoteCreate, RewireLabel
  <2>4. status[j] = "blocked"
    BY <1>4, <2>3, WhatIsWritten DEF StatusesMove
  <2>5. dependsOn'[j] = dependsOn[j] /\ ~(j \in rewires /\ RewireJob(j))
    BY <1>4, <2>1, <2>3, ListsKept, Repointed
  <2>6. CASE RewireList
    BY <1>4, <2>1, <2>3, <2>4, <2>5, <2>6 DEF RewireList, InStatus
  <2>7. CASE pc[Sched] \in RewireLabel
    <3>1. j \in rewires
      BY <1>4, <2>1, <2>3, <2>4, <2>5, <2>7 DEF RepointedInv, InStatus
    <3> QED
      BY <2>1, <2>5, <2>7, <3>1 DEF RewireJob, RewireList, RewireLabel
  <2> QED
    BY <2>1, <2>6, <2>7 DEF RewireJob
<1> QED
  BY <1>1, <1>3, <1>4 DEF RepointedInv, InStatus

LEMMA RepointedInvInit == Init => RepointedInv
<1> SUFFICES ASSUME Init PROVE RepointedInv
  OBVIOUS
<1>1. \A p \in Proc : pc[p] = "idle"
  BY DEF Init, QueueInit
<1>2. \A j \in Jobs : j # NoJob /\ origin[j].parent = NoJob
  BY Constants DEF Init, StoreInit, Jobs, JobId, NoJob
<1> QED
  BY <1>1, <1>2, SchedLabels DEF RepointedInv, Children, RewireLabel

(* Nor, if users name no dependencies meanwhile, does any blocked job still *)
(* wait for a promoted one when a sweep looks at it, unless one of its      *)
(* steps is refused: PromoteSteps repoints the dependents first. *)
THEOREM DependentsRepointed ==
    ASSUME MaxDeps = 0 \/ "create" \notin Requests
    PROVE  Spec => [](faults = 0 => NoPromotedDependency)
<1>1. DependencyInv /\ [Next]_vars /\ faults' = 0 => faults = 0
  BY NoFaultYet DEF DependencyInv
<1>2. /\ DependencyInv /\ StepsInv /\ DivisionInv
      /\ (faults = 0 => RepointedInv) /\ [Next]_vars
      => (faults = 0 => RepointedInv)'
  BY <1>1, RepointedInvNext
<1>3. Init => (faults = 0 => RepointedInv)
  BY RepointedInvInit
<1>4. DependencyInv /\ DivisionInv /\ (faults = 0 => RepointedInv)
      => (faults = 0 => NoPromotedDependency)
  <2> SUFFICES ASSUME DependencyInv, DivisionInv, RepointedInv, pc[Sched] \in {"idle", "sweep"},
                      NEW j \in InStatus({"blocked"}), NEW d \in Elements(dependsOn[j]),
                      status[d] = "promoted", Divisible(d)
               PROVE  FALSE
    BY DEF NoPromotedDependency
  <2>1. d \in Jobs
    BY DEF DependencyInv, OrderInv, DepsBefore, Elements, InStatus
  <2>2. Children(d) # {} /\ ~Dividing(d)
    BY <2>1 DEF DivisionInv, InStatus, Dividing, KidsLabel, RewireLabel
  <2> QED
    BY <2>1, <2>2 DEF RepointedInv
<1> QED
  BY <1>2, <1>3, <1>4, DependencyInvariant, StepsInvariant, DivisionInvariant, PTL DEF Spec
=============================================================================
