---------------------------- MODULE DaemonProofs ----------------------------
(***************************************************************************)
(* Proofs about Daemon, for any number of jobs, clients, requests and       *)
(* faults: type correctness; DependencyInv, with DependencySafety,          *)
(* NoCircularWait and the refinement of Precedence, which follow from it;   *)
(* and HaltInv, with what the kill switch promises.                         *)
(***************************************************************************)
EXTENDS DaemonInvariant, DaemonOrder, SequenceTheorems, WellFoundedInduction, TLAPS

-----------------------------------------------------------------------------
(***************************************************************************)
(* Type correctness.                                                        *)
(***************************************************************************)

(* The assumptions on the constants, by one name. *)
LEMMA Constants ==
    /\ MaxJobs \in Nat
    /\ Sched \notin Clients
    /\ None \notin Proc
    /\ Templates \subseteq Template
    /\ InitialJobs \in Seq([deps : Seq(JobId), job : Template])
    /\ Len(InitialJobs) <= MaxJobs
    /\ \A j \in DOMAIN InitialJobs : \A i \in DOMAIN InitialJobs[j].deps :
          InitialJobs[j].deps[i] < j
BY MaxJobsAssumption, SchedAssumption, NoneAssumption, TemplatesAssumption,
   InitialJobsAssumption

LEMMA InitType == Init => TypeOK
<1> SUFFICES ASSUME Init PROVE TypeOK
  OBVIOUS
<1> DEFINE n == Len(InitialJobs)
<1>1. n \in Nat /\ n <= MaxJobs /\ DOMAIN InitialJobs = 1 .. n
  BY Constants
<1>2. \A j \in 1 .. n : /\ InitialJobs[j].deps \in Seq(JobId)
                        /\ InitialJobs[j].job.steps \in Seq(Prompt)
                        /\ InitialJobs[j].job.resumable \in BOOLEAN
  <2> SUFFICES ASSUME NEW j \in 1 .. n
               PROVE  /\ InitialJobs[j].deps \in Seq(JobId)
                      /\ InitialJobs[j].job \in Template
    BY DEF Template
  <2>1. InitialJobs[j] \in [deps : Seq(JobId), job : Template]
    BY Constants, <1>1, ElementOfSeq
  <2> QED
    BY <2>1
<1>3. 1 .. n \subseteq JobId
  BY <1>1, Constants DEF JobId
<1>4. StoreTypeOK
  <2>1. count \in 0 .. MaxJobs
    BY <1>1, Constants DEF Init, StoreInit
  <2>2. status \in [JobId -> Status]
    BY DEF Init, StoreInit, Status
  <2>3. dependsOn \in [JobId -> Seq(JobId)]
    <3>1. ASSUME NEW j \in JobId
          PROVE  (IF j <= n THEN InitialJobs[j].deps ELSE <<>>) \in Seq(JobId)
      <4>1. CASE j <= n
        BY <4>1, <1>1, <1>2, Constants DEF JobId
      <4>2. CASE ~(j <= n)
        BY <4>2
      <4> QED
        BY <4>1, <4>2
    <3> QED
      BY <3>1 DEF Init, StoreInit
  <2>4. origin \in [JobId -> Origin]
    BY <1>2, <1>1, Constants DEF Init, StoreInit, Origin, NoOrigin, NoJob, JobId
  <2>5. released \in SUBSET JobId /\ succeeded \in SUBSET JobId /\ session \in [JobId -> BOOLEAN]
    BY <1>3 DEF Init, StoreInit
  <2> QED
    BY <2>1, <2>2, <2>3, <2>4, <2>5 DEF StoreTypeOK
<1>5. QueueTypeOK
  <2>1. LocalTypeOK
    BY DEF Init, QueueInit, LocalTypeOK, LabelOf, NoTargetLabel, SchedLabel, ClientLabel,
           RunLabel, Status, NoWish, Template
  <2>2. TickTypeOK
    BY DEF Init, QueueInit, TickTypeOK, NoList
  <2> QED
    BY <2>1, <2>2 DEF QueueTypeOK
<1>6. DispatcherTypeOK
  BY DEF Init, DispatcherInit, DispatcherTypeOK
<1> QED
  BY <1>4, <1>5, <1>6 DEF Init, TypeOK

-----------------------------------------------------------------------------

(* What a record of CreateJob is made of. *)
LEMMA OriginType ==
    ASSUME NEW st \in Seq(Prompt), NEW r \in BOOLEAN,
           NEW p \in JobId \cup {NoJob}, NEW i \in Nat
    PROVE  [steps |-> st, resumable |-> r, parent |-> p, step |-> i] \in Origin
BY DEF Origin

(* Types of the store statements. *)

LEMMA UpdateStatusType ==
    ASSUME StoreTypeOK, NEW j \in JobId, NEW s \in Status, UpdateStatus(j, s)
    PROVE  StoreTypeOK'
BY DEF StoreTypeOK, UpdateStatus, Remember

LEMMA UpdateSessionIDType ==
    ASSUME StoreTypeOK, NEW j \in JobId, UpdateSessionID(j)
    PROVE  StoreTypeOK'
BY DEF StoreTypeOK, UpdateSessionID

LEMMA UpdateDependsOnType ==
    ASSUME StoreTypeOK, NEW j \in JobId, NEW ds \in Seq(JobId), UpdateDependsOn(j, ds)
    PROVE  StoreTypeOK'
BY DEF StoreTypeOK, UpdateDependsOn

LEMMA CreateJobType ==
    ASSUME StoreTypeOK, NEW ds \in Seq(JobId), NEW o \in Origin, NEW h \in BOOLEAN,
           NEW s \in Status, CreateJob(ds, o, h, s)
    PROVE  StoreTypeOK' /\ count + 1 \in JobId
<1>1. count + 1 \in JobId /\ count' \in 0 .. MaxJobs
  BY Constants DEF StoreTypeOK, CreateJob, JobId
<1> QED
  BY <1>1 DEF StoreTypeOK, CreateJob, Remember

LEMMA TableKept ==
    StoreTypeOK /\ UNCHANGED tableVars => StoreTypeOK'
BY DEF StoreTypeOK, tableVars

(* Types of the moves of a goroutine from one statement to the next. *)

LEMMA GotoType ==
    ASSUME LocalTypeOK, NEW p \in Proc, NEW l \in LabelOf(p), Goto(p, l),
           l \notin NoTargetLabel => target[p] \in JobId
    PROVE  LocalTypeOK'
<1>1. l \in SchedLabel \cup ClientLabel
  BY DEF LabelOf
<1> QED
  BY <1>1 DEF LocalTypeOK, Goto

LEMMA EnterType ==
    ASSUME LocalTypeOK, NEW p \in Proc, NEW l \in LabelOf(p),
           NEW j \in JobId, NEW s \in Status, Enter(p, l, j, s)
    PROVE  LocalTypeOK'
<1>1. l \in SchedLabel \cup ClientLabel
  BY DEF LabelOf
<1> QED
  BY <1>1 DEF LocalTypeOK, Enter

LEMMA LeaveType ==
    ASSUME LocalTypeOK, NEW p \in Proc, NEW l \in LabelOf(p) \cap NoTargetLabel, Leave(p, l)
    PROVE  LocalTypeOK'
<1>1. l \in SchedLabel \cup ClientLabel
  BY DEF LabelOf
<1>2. NoWish \in [deps : Seq(JobId), job : Template]
  BY DEF NoWish, Template
<1>3. "queued" \in Status
  BY DEF Status
<1> QED
  BY <1>1, <1>2, <1>3 DEF LocalTypeOK, Leave, NoJob

LEMMA EndTickType ==
    LocalTypeOK /\ EndTick => LocalTypeOK' /\ TickTypeOK'
<1>1. Sched \in Proc /\ "idle" \in LabelOf(Sched) \cap NoTargetLabel
  BY DEF Proc, LabelOf, SchedLabel, NoTargetLabel
<1> QED
  BY <1>1, LeaveType DEF EndTick, TickTypeOK, NoList

LEMMA ReturnType ==
    ASSUME LocalTypeOK, TickTypeOK, NEW p \in Proc, Return(p)
    PROVE  LocalTypeOK' /\ TickTypeOK'
<1>1. CASE p = Sched
  BY <1>1, EndTickType DEF Return
<1>2. CASE p # Sched
  <2>1. "idle" \in LabelOf(p) \cap NoTargetLabel
    BY <1>2 DEF LabelOf, ClientLabel, NoTargetLabel
  <2> QED
    BY <1>2, <2>1, LeaveType DEF Return, TickTypeOK, tickVars
<1> QED
  BY <1>1, <1>2
(* A statement that only the scheduler loop executes. *)
LEMMA SchedAt ==
    ASSUME LocalTypeOK, NEW p \in Proc, pc[p] \notin ClientLabel
    PROVE  p = Sched
BY DEF LocalTypeOK, LabelOf

LEMMA SchedLabels ==
    Sched \in Proc /\ LabelOf(Sched) = SchedLabel /\ \A c \in Clients : c \in Proc /\ LabelOf(c) = ClientLabel
BY Constants DEF Proc, LabelOf

LEMMA JobsInJobId == StoreTypeOK => Jobs \subseteq JobId
BY Constants DEF StoreTypeOK, Jobs, JobId

LEMMA ComputeStatusType == \A ds : ComputeStatus(ds) \in {"queued", "blocked", "cancelled"}
BY DEF ComputeStatus

LEMMA StepDepsType == kids \in Seq(JobId) => StepDeps \in Seq(JobId)
<1> SUFFICES ASSUME kids \in Seq(JobId), kids # <<>> PROVE kids[Len(kids)] \in JobId
  BY DEF StepDeps
<1>1. Len(kids) \in 1 .. Len(kids)
  BY EmptySeq, LenProperties
<1> QED
  BY <1>1, ElementOfSeq

(* The scheduler's sweep. *)
LEMMA SweepType ==
    ASSUME TypeOK, Sweep
    PROVE  StoreTypeOK' /\ LocalTypeOK' /\ TickTypeOK'
<1> USE SchedLabels DEF TypeOK, QueueTypeOK
<1>1. Jobs \subseteq JobId
  BY JobsInJobId
<1>2. CASE SweepList
  <2>1. InStatus({"blocked"}) \subseteq JobId
    BY <1>1 DEF InStatus
  <2>2. TickTypeOK'
    <3>1. todo' \in SUBSET JobId
      BY <1>2, <2>1 DEF SweepList
    <3>2. listed' \in [JobId -> Seq(JobId)]
      BY <1>2 DEF SweepList, StoreTypeOK
    <3> QED
      BY <1>2, <3>1, <3>2 DEF SweepList, TickTypeOK
  <2> QED
    BY <1>2, <2>2, TableKept, GotoType DEF SweepList, SchedLabel, NoTargetLabel
<1>3. ASSUME NEW j \in todo, SweepPass(j)
      PROVE  StoreTypeOK' /\ LocalTypeOK' /\ TickTypeOK'
  BY <1>3, TableKept DEF SweepPass, TickTypeOK, LocalTypeOK, procVars
<1>4. ASSUME NEW j \in todo, SweepResolve(j)
      PROVE  StoreTypeOK' /\ LocalTypeOK' /\ TickTypeOK'
  <2>1. j \in JobId /\ ComputeStatus(listed[j]) \in Status
    BY ComputeStatusType DEF TickTypeOK, Status
  <2>2. {"sweepSession", "sweepStatus"} \subseteq SchedLabel
    BY DEF SchedLabel
  <2>3. LocalTypeOK'
    BY <1>4, <2>1, <2>2, EnterType DEF SweepResolve
  <2> QED
    BY <1>4, <2>3, TableKept DEF SweepResolve, TickTypeOK
<1>5. CASE SweepSession
  <2>1. target[Sched] \in JobId
    BY <1>5 DEF SweepSession, LocalTypeOK, NoTargetLabel
  <2> QED
    BY <1>5, <2>1, UpdateSessionIDType, GotoType
       DEF SweepSession, SchedLabel, TickTypeOK, tickVars
<1>6. CASE SweepStatus
  <2>1. target[Sched] \in JobId /\ verdict[Sched] \in Status
    BY <1>6 DEF SweepStatus, LocalTypeOK, NoTargetLabel
  <2> QED
    BY <1>6, <2>1, UpdateStatusType, LeaveType
       DEF SweepStatus, SchedLabel, NoTargetLabel, TickTypeOK, tickVars
<1> QED
  BY <1>2, <1>3, <1>4, <1>5, <1>6 DEF Sweep

(* The scheduler's walk over the candidates. *)
LEMMA FitType ==
    ASSUME TypeOK, Fit
    PROVE  StoreTypeOK' /\ LocalTypeOK' /\ TickTypeOK'
<1> USE SchedLabels DEF TypeOK, QueueTypeOK
<1>1. PICK j \in todo : \/ FitDispatch(j) \/ FitCapBudget(j) \/ FitDefer(j)
                        \/ FitPromoteSteps(j) \/ FitRefused(j)
  BY DEF Fit, First
<1>2. j \in JobId /\ status[j] \in Status
  BY DEF TickTypeOK, StoreTypeOK
<1>3. ASSUME FitDispatch(j)
      PROVE  StoreTypeOK' /\ LocalTypeOK' /\ TickTypeOK'
  <2>1. LocalTypeOK'
    BY <1>2, <1>3, EnterType DEF FitDispatch, SchedLabel, Status
  <2> QED
    BY <1>3, <2>1, TableKept DEF FitDispatch, TickTypeOK
<1>4. CASE FitDefer(j)
  <2>1. LocalTypeOK'
    <3>1. CASE Enter(Sched, "deferWrite", j, "deferred_oversized")
      BY <1>2, <3>1, EnterType DEF SchedLabel, Status
    <3>2. CASE UNCHANGED procVars
      BY <3>2 DEF LocalTypeOK, procVars
    <3> QED
      BY <1>4, <3>1, <3>2 DEF FitDefer, DeferRead
  <2> QED
    BY <1>4, <2>1, TableKept DEF FitDefer, DeferRead, TickTypeOK
<1>5. CASE FitPromoteSteps(j)
  <2>1. LocalTypeOK'
    BY <1>2, <1>5 DEF FitPromoteSteps, PromoteRead, LocalTypeOK, StoreTypeOK,
                      SchedLabel, PromoteLabel
  <2> QED
    BY <1>5, <2>1, TableKept DEF FitPromoteSteps, PromoteRead, TickTypeOK
<1>6. CASE FitRefused(j)
  BY <1>6, TableKept, EndTickType DEF FitRefused
<1> QED
  BY <1>1, <1>3, <1>4, <1>5, <1>6 DEF FitCapBudget

(* PromoteSteps, from its reading of the children on. *)
LEMMA PromoteType ==
    ASSUME TypeOK, Promote
    PROVE  StoreTypeOK' /\ LocalTypeOK' /\ TickTypeOK'
<1> USE SchedLabels DEF TypeOK, QueueTypeOK
<1>1. pc[Sched] \in PromoteLabel => target[Sched] \in JobId
  BY DEF LocalTypeOK, PromoteLabel, NoTargetLabel
<1>2. verdict[Sched] \in Status
  BY DEF LocalTypeOK
<1>3. PromoteLabel \subseteq SchedLabel /\ "fit" \in SchedLabel \cap NoTargetLabel
  BY DEF SchedLabel, NoTargetLabel
<1>4. StepDeps \in Seq(JobId)
  BY StepDepsType DEF TickTypeOK
<1>5. CASE PromoteExisting
  <2>1. LocalTypeOK'
    <3>1. CASE verdict[Sched] = "promoted"
      BY <1>3, <1>5, <3>1, LeaveType DEF PromoteExisting
    <3>2. CASE verdict[Sched] # "promoted"
      BY <1>1, <1>3, <1>5, <3>2, GotoType DEF PromoteExisting, PromoteLabel
    <3> QED
      BY <3>1, <3>2
  <2> QED
    BY <1>5, <2>1, TableKept DEF PromoteExisting, TickTypeOK, tickVars
<1>6. CASE PromoteRefused
  BY <1>6, TableKept, EndTickType DEF PromoteRefused
<1>7. CASE PromoteBegin
  <2>1. LocalTypeOK'
    BY <1>1, <1>3, <1>7, GotoType DEF PromoteBegin, PromoteLabel
  <2> QED
    BY <1>7, <2>1, TableKept DEF PromoteBegin, TickTypeOK, tickVars
<1>8. CASE PromoteResolve
  <2>1. ComputeStatus(StepDeps) \in Status
    BY ComputeStatusType DEF Status
  <2>2. target[Sched] \in JobId
    BY <1>1, <1>8 DEF PromoteResolve, PromoteLabel
  <2>3. "promoteCreate" \in SchedLabel
    BY <1>3 DEF PromoteLabel
  <2>4. LocalTypeOK'
    BY <1>8, <2>1, <2>2, <2>3 DEF PromoteResolve, LocalTypeOK
  <2> QED
    BY <1>8, <2>4, TableKept DEF PromoteResolve, TickTypeOK, tickVars
<1>9. CASE PromoteCreate
  <2> DEFINE p == target[Sched]
             i == Len(kids) + 1
             steps == origin[p].steps
             o == [steps |-> <<>>, resumable |-> origin[p].resumable, parent |-> p, step |-> i]
  <2>1. p \in JobId /\ origin[p] \in Origin
    BY <1>1, <1>9 DEF PromoteCreate, PromoteLabel, StoreTypeOK
  <2>2. o \in Origin
    <3>1. <<>> \in Seq(Prompt) /\ i \in Nat
      BY DEF TickTypeOK
    <3> QED
      BY <2>1, <3>1, OriginType DEF Origin
  <2>3. (i = 1 /\ convo[Sched]) \in BOOLEAN
    OBVIOUS
  <2>4. CreateJob(StepDeps, o, i = 1 /\ convo[Sched], verdict[Sched])
    BY <1>9 DEF PromoteCreate
  <2>5. StoreTypeOK' /\ count + 1 \in JobId
    BY <1>2, <1>4, <2>2, <2>3, <2>4, CreateJobType
  <2>6. TickTypeOK'
    <3>1. kids' \in Seq(JobId)
      BY <1>9, <2>5, AppendProperties DEF PromoteCreate, TickTypeOK
    <3> QED
      BY <1>9, <3>1 DEF PromoteCreate, TickTypeOK
  <2>7. LocalTypeOK'
    <3>1. PICK l \in {"rewireList", "promoteResolve"} : Goto(Sched, l)
      BY <1>9 DEF PromoteCreate
    <3>2. l \in SchedLabel
      BY <1>3 DEF PromoteLabel
    <3> QED
      BY <2>1, <3>1, <3>2, GotoType
  <2> QED
    BY <2>5, <2>6, <2>7
<1>10. CASE PromoteBlankStep
  BY <1>10, TableKept, EndTickType DEF PromoteBlankStep
<1>11. CASE RewireList
  <2>1. InStatus({"blocked"}) \subseteq JobId
    BY JobsInJobId DEF InStatus
  <2>2. rewires' \in SUBSET JobId
    BY <1>11, <2>1 DEF RewireList
  <2>3. listed' \in [JobId -> Seq(JobId)]
    BY <1>11 DEF RewireList, StoreTypeOK
  <2>4. LocalTypeOK'
    BY <1>1, <1>3, <1>11, GotoType DEF RewireList, PromoteLabel
  <2> QED
    BY <1>11, <2>2, <2>3, <2>4, TableKept DEF RewireList, TickTypeOK
<1>12. ASSUME NEW j \in rewires, RewireJob(j)
       PROVE  StoreTypeOK' /\ LocalTypeOK' /\ TickTypeOK'
  <2>1. j \in JobId /\ listed[j] \in Seq(JobId)
    BY DEF TickTypeOK
  <2>2. kids[Len(kids)] \in JobId
    BY <1>12, <1>4 DEF RewireJob, TickTypeOK, StepDeps
  <2>3. Repoint(listed[j], target[Sched], kids[Len(kids)]) \in Seq(JobId)
    BY <2>1, <2>2, SeqDef DEF Repoint
  <2>4. StoreTypeOK'
    BY <1>12, <2>1, <2>3, UpdateDependsOnType DEF RewireJob
  <2> QED
    BY <1>12, <2>4 DEF RewireJob, LocalTypeOK, TickTypeOK, procVars
<1>13. CASE PromoteMark
  <2>1. target[Sched] \in JobId /\ "promoted" \in Status
    BY <1>1, <1>13 DEF PromoteMark, PromoteLabel, RewireLabel, Status
  <2>2. StoreTypeOK'
    BY <1>13, <2>1, UpdateStatusType DEF PromoteMark
  <2>3. CASE pc[Sched] = "rewireFailed"
    BY <1>13, <2>2, <2>3, EndTickType DEF PromoteMark
  <2>4. CASE pc[Sched] # "rewireFailed"
    <3>1. LocalTypeOK'
      BY <1>3, <1>13, <2>4, LeaveType DEF PromoteMark
    <3>2. listed' = NoList /\ kids' = <<>> /\ UNCHANGED <<todo, rewires>>
      BY <1>13, <2>4 DEF PromoteMark
    <3>3. TickTypeOK'
      BY <3>2 DEF TickTypeOK, NoList
    <3> QED
      BY <2>2, <3>1, <3>3
  <2> QED
    BY <2>3, <2>4
<1> QED
  BY <1>5, <1>6, <1>7, <1>8, <1>9, <1>10, <1>11, <1>12, <1>13 DEF Promote

(* The rest of the scheduler's tick. *)
LEMMA TickType ==
    ASSUME TypeOK, TickHold \/ TickAdmit \/ TickDone \/ Defer \/ DispatchOne \/ SchedMark
    PROVE  StoreTypeOK' /\ LocalTypeOK' /\ TickTypeOK'
<1> USE SchedLabels DEF TypeOK, QueueTypeOK
<1>1. CASE TickHold \/ TickDone
  BY <1>1, TableKept, EndTickType DEF TickHold, TickDone
<1>2. CASE TickAdmit
  <2>1. InStatus(Dispatchable) \subseteq JobId
    BY JobsInJobId DEF InStatus
  <2>2. LocalTypeOK'
    BY <1>2, GotoType DEF TickAdmit, SchedLabel, NoTargetLabel
  <2> QED
    BY <1>2, <2>1, <2>2, TableKept DEF TickAdmit, TickTypeOK, NoList
<1>3. CASE Defer
  <2>1. target[Sched] \in JobId /\ verdict[Sched] \in Status
    BY <1>3 DEF Defer, DeferWrite, LocalTypeOK, NoTargetLabel
  <2>2. LocalTypeOK'
    BY <1>3, LeaveType DEF Defer, DeferWrite, SchedLabel, NoTargetLabel
  <2> QED
    BY <1>3, <2>1, <2>2, UpdateStatusType DEF Defer, DeferWrite, TickTypeOK, tickVars
<1>4. CASE DispatchOne
  <2>1. CASE halted
    BY <1>4, <2>1, TableKept, EndTickType DEF DispatchOne
  <2>2. CASE ~halted
    <3>1. target[Sched] \in JobId
      BY <1>4 DEF DispatchOne, LocalTypeOK, NoTargetLabel
    <3>2. LocalTypeOK'
      BY <1>4, <2>2, <3>1, GotoType DEF DispatchOne, SchedLabel
    <3> QED
      BY <1>4, <2>2, <3>2, TableKept DEF DispatchOne, TickTypeOK, tickVars
  <2> QED
    BY <2>1, <2>2
<1>5. CASE SchedMark
  <2>1. CASE MarkRead(Sched, target[Sched]) /\ UNCHANGED tickVars
    <3>1. LocalTypeOK'
      BY <2>1, EnterType, JobsInJobId DEF MarkRead, SchedLabel, Status
    <3> QED
      BY <1>5, <2>1, <3>1, TableKept DEF SchedMark, TickTypeOK, tickVars
  <2>2. CASE EndTick
    BY <1>5, <2>2, TableKept, EndTickType DEF SchedMark
  <2> QED
    BY <1>5, <2>1, <2>2 DEF SchedMark
<1> QED
  BY <1>1, <1>2, <1>3, <1>4, <1>5

(* The API requests. *)
LEMMA RequestType ==
    ASSUME TypeOK, NEW c \in Clients,
           HandleCreateJob(c) \/ HandleCancelJob(c) \/ HandleDispatchJob(c) \/ Respond(c)
    PROVE  StoreTypeOK' /\ LocalTypeOK' /\ TickTypeOK'
<1> USE SchedLabels DEF TypeOK, QueueTypeOK
<1>1. CASE HandleCreateJob(c)
  <2>1. PICK ds \in DepLists, t \in Templates : EnqueueResolve(c, ds, t)
    BY <1>1 DEF HandleCreateJob
  <2>2. ds \in Seq(JobId) /\ t \in Template
    <3>1. PICK n \in 0 .. MaxDeps : ds \in [1 .. n -> JobId]
      BY DEF DepLists
    <3>2. n \in Nat
      BY <3>1
    <3> QED
      BY <3>1, <3>2, SeqDef, Constants
  <2>3. ComputeStatus(ds) \in Status
    BY ComputeStatusType DEF Status
  <2>4. LocalTypeOK'
    BY <2>1, <2>2, <2>3 DEF EnqueueResolve, LocalTypeOK, NoTargetLabel, ClientLabel
  <2> QED
    BY <2>1, <2>4, TableKept DEF EnqueueResolve, TickTypeOK, tickVars
<1>2. CASE HandleCancelJob(c)
  <2>1. LocalTypeOK'
    BY <1>2, EnterType, JobsInJobId DEF HandleCancelJob, CancelRead, ClientLabel, Status
  <2> QED
    BY <1>2, <2>1, TableKept DEF HandleCancelJob, CancelRead, TickTypeOK, tickVars
<1>3. CASE HandleDispatchJob(c)
  <2>1. LocalTypeOK'
    BY <1>3, EnterType, JobsInJobId DEF HandleDispatchJob, MarkRead, ClientLabel, Status
  <2> QED
    BY <1>3, <2>1, TableKept DEF HandleDispatchJob, TickTypeOK, tickVars
<1>4. CASE EnqueueCreate(c)
  <2>1. wish[c] \in [deps : Seq(JobId), job : Template] /\ verdict[c] \in Status
    BY DEF LocalTypeOK
  <2>2. [steps |-> wish[c].job.steps, resumable |-> wish[c].job.resumable,
         parent |-> NoJob, step |-> 0] \in Origin
    BY <2>1, OriginType DEF Template
  <2>3. StoreTypeOK'
    BY <1>4, <2>1, <2>2, CreateJobType DEF EnqueueCreate
  <2>4. LocalTypeOK'
    BY <1>4, LeaveType DEF EnqueueCreate, ClientLabel, NoTargetLabel
  <2> QED
    BY <1>4, <2>3, <2>4 DEF EnqueueCreate, TickTypeOK, tickVars
<1>5. CASE CancelWrite(c)
  <2>1. target[c] \in JobId /\ verdict[c] \in Status
    BY <1>5 DEF CancelWrite, LocalTypeOK, NoTargetLabel
  <2>2. LocalTypeOK'
    BY <1>5, LeaveType DEF CancelWrite, ClientLabel, NoTargetLabel
  <2> QED
    BY <1>5, <2>1, <2>2, UpdateStatusType DEF CancelWrite, TickTypeOK, tickVars
<1> QED
  BY <1>1, <1>2, <1>3, <1>4, <1>5 DEF Respond

(* Runs. *)
LEMMA RunType ==
    ASSUME TypeOK, NEW p \in Proc, Run(p) \/ EndRun(p)
    PROVE  StoreTypeOK' /\ LocalTypeOK' /\ TickTypeOK'
<1> USE DEF TypeOK, QueueTypeOK
<1>1. RunLabel \cup {"register", "finishHalted"} \subseteq LabelOf(p)
  BY DEF LabelOf, SchedLabel, ClientLabel
<1>2. pc[p] \in RunLabel \cup {"mark", "register", "finishHalted"} => target[p] \in JobId
  BY DEF LocalTypeOK, RunLabel, NoTargetLabel
<1>3. verdict[p] \in Status
  BY DEF LocalTypeOK
<1>4. CASE \/ RefuseHalted(p) \/ RefuseExhausted(p) \/ StartFails(p) \/ EndRun(p)
  <2>1. PICK l \in RunLabel \cup {"finishHalted"}, s \in Status :
           Enter(p, l, target[p], s)
    BY <1>4 DEF RefuseHalted, RefuseExhausted, StartFails, EndRun, RunError, RunResult,
                RunLabel, Status
  <2>2. target[p] \in JobId
    BY <1>2, <1>4 DEF RefuseHalted, RefuseExhausted, StartFails, EndRun, RunError, RunResult,
                RunLabel
  <2>3. LocalTypeOK'
    BY <1>1, <2>1, <2>2, EnterType
  <2> QED
    BY <1>4, <2>3, TableKept
       DEF RefuseHalted, RefuseExhausted, StartFails, EndRun, RunError, RunResult,
           TickTypeOK, tickVars
<1>5. CASE Register(p) \/ StartRun(p)
  <2>1. PICK l \in RunLabel : Goto(p, l)
    BY <1>5 DEF Register, StartRun, RunLabel
  <2>2. LocalTypeOK'
    BY <1>1, <1>2, <1>5, <2>1, GotoType DEF Register, StartRun, RunLabel
  <2> QED
    BY <1>5, <2>2, TableKept DEF Register, StartRun, TickTypeOK, tickVars
<1>6. CASE MarkWrite(p)
  <2>1. LocalTypeOK'
    BY <1>1, <1>2, <1>6, GotoType DEF MarkWrite
  <2> QED
    BY <1>2, <1>3, <1>6, <2>1, UpdateStatusType DEF MarkWrite, TickTypeOK, tickVars
<1>7. CASE FinishSession(p)
  <2>1. LocalTypeOK'
    BY <1>1, <1>2, <1>7, GotoType DEF FinishSession, RunLabel
  <2> QED
    BY <1>2, <1>7, <2>1, UpdateSessionIDType DEF FinishSession, RunLabel, TickTypeOK, tickVars
<1>8. CASE FinishStatus(p)
  <2>1. LocalTypeOK'
    BY <1>1, <1>2, <1>8, GotoType DEF FinishStatus, RunLabel
  <2> QED
    BY <1>2, <1>3, <1>8, <2>1, UpdateStatusType
       DEF FinishStatus, RunLabel, TickTypeOK, tickVars
<1>9. CASE FinishHalted(p)
  BY <1>2, <1>3, <1>9, UpdateStatusType, ReturnType DEF FinishHalted
<1>10. CASE Unregister(p)
  BY <1>10, TableKept, ReturnType DEF Unregister
<1> QED
  BY <1>4, <1>5, <1>6, <1>7, <1>8, <1>9, <1>10 DEF Run

(* Failed statements and crashes. *)
LEMMA FaultType ==
    ASSUME TypeOK, (\E p \in Proc : StoreError(p)) \/ Crash
    PROVE  StoreTypeOK' /\ LocalTypeOK' /\ TickTypeOK'
<1> USE SchedLabels DEF TypeOK, QueueTypeOK
<1>1. ASSUME NEW p \in Proc, StoreError(p)
      PROVE  StoreTypeOK' /\ LocalTypeOK' /\ TickTypeOK'
  <2>1. StoreTypeOK'
    BY <1>1, TableKept DEF StoreError
  <2>2. CASE Return(p)
    BY <2>1, <2>2, ReturnType
  <2>3. CASE /\ pc[p] \in {"check", "finishSession", "finishStatus"}
             /\ Goto(p, "unregister") /\ UNCHANGED tickVars
    <3>1. target[p] \in JobId
      BY <2>3 DEF LocalTypeOK, NoTargetLabel
    <3>2. "unregister" \in LabelOf(p)
      BY DEF LabelOf, SchedLabel, ClientLabel, RunLabel
    <3> QED
      BY <2>1, <2>3, <3>1, <3>2, GotoType DEF TickTypeOK, tickVars
  <2>4. CASE /\ pc[p] \in {"sweepSession", "sweepStatus"}
             /\ Leave(p, "sweep") /\ UNCHANGED tickVars
    <3>1. p = Sched
      BY <2>4, SchedAt DEF ClientLabel, RunLabel
    <3> QED
      BY <2>1, <2>4, <3>1, LeaveType DEF SchedLabel, NoTargetLabel, TickTypeOK, tickVars
  <2>5. CASE /\ pc[p] = "rewireList"
             /\ Goto(p, "rewireFailed") /\ UNCHANGED tickVars
    <3>1. p = Sched
      BY <2>5, SchedAt DEF ClientLabel, RunLabel
    <3>2. target[p] \in JobId
      BY <2>5 DEF LocalTypeOK, NoTargetLabel
    <3> QED
      BY <2>1, <2>5, <3>1, <3>2, GotoType DEF SchedLabel, PromoteLabel, TickTypeOK, tickVars
  <2>6. CASE /\ pc[p] = "idle" /\ p = Sched
             /\ Goto(p, "sweep") /\ UNCHANGED tickVars
    BY <2>1, <2>6, GotoType DEF SchedLabel, NoTargetLabel, TickTypeOK, tickVars
  <2>7. CASE /\ pc[p] = "sweep"
             /\ \E j \in todo : todo' = todo \ {j}
             /\ UNCHANGED <<procVars, listed, kids, rewires>>
    BY <2>1, <2>7 DEF LocalTypeOK, TickTypeOK, procVars
  <2>8. CASE /\ pc[p] \in RewireLabel
             /\ \E j \in rewires : rewires' = rewires \ {j}
             /\ Goto(p, "rewireFailed")
             /\ UNCHANGED <<todo, listed, kids>>
    <3>1. p = Sched
      BY <2>8, SchedAt DEF RewireLabel, ClientLabel, RunLabel
    <3>2. target[p] \in JobId
      BY <2>8 DEF RewireLabel, LocalTypeOK, NoTargetLabel
    <3>3. LocalTypeOK'
      BY <2>8, <3>1, <3>2, GotoType DEF SchedLabel, PromoteLabel
    <3> QED
      BY <2>1, <2>8, <3>3 DEF TickTypeOK
  <2> QED
    BY <1>1, <2>2, <2>3, <2>4, <2>5, <2>6, <2>7, <2>8 DEF StoreError
<1>2. CASE Crash
  <2>1. LocalTypeOK'
    BY <1>2 DEF Crash, LocalTypeOK, LabelOf, NoTargetLabel, SchedLabel, ClientLabel,
                Status, NoWish, Template
  <2> QED
    BY <1>2, <2>1, TableKept DEF Crash, TickTypeOK, NoList
<1> QED
  BY <1>1, <1>2

(* The dispatcher's own variables. *)
LEMMA DispatcherType ==
    ASSUME TypeOK, [Next]_vars
    PROVE  DispatcherTypeOK' /\ requests' \in Nat /\ faults' \in Nat
<1> USE DEF TypeOK
<1>1. CASE UNCHANGED dispVars /\ (UNCHANGED boundVars \/ (\E k : Ask(k)) \/ Fault)
  BY <1>1 DEF DispatcherTypeOK, dispVars, boundVars, Ask, Fault
<1>2. CASE HandleHalt \/ HandleResume
  <2>1. requests' \in Nat /\ faults' \in Nat
    BY <1>2 DEF HandleHalt, HandleResume, Ask
  <2> QED
    BY <1>2, <2>1 DEF HandleHalt, HandleResume, Halt, Resume, Registered, DispatcherTypeOK
<1>3. ASSUME NEW p \in Proc, Register(p) \/ Unregister(p), UNCHANGED boundVars
      PROVE  DispatcherTypeOK' /\ requests' \in Nat /\ faults' \in Nat
  BY <1>3 DEF Register, Unregister, DispatcherTypeOK, boundVars, Rivals
<1>4. CASE Crash
  <2>1. requests' \in Nat /\ faults' \in Nat
    BY <1>4 DEF Crash, Fault
  <2>2. running' \in [JobId -> Proc \cup {None}]
    BY <1>4 DEF Crash
  <2>3. halted' \in BOOLEAN /\ cancelled' \in SUBSET Proc /\ shared' \in SUBSET Proc
    BY <1>4 DEF Crash
  <2> QED
    BY <2>1, <2>2, <2>3 DEF DispatcherTypeOK
<1>5. CASE SchedStep
  <2>1. UNCHANGED <<dispVars, boundVars>>
    BY <1>5 DEF SchedStep, Sweep, TickHold, TickAdmit, TickDone, Fit, Defer, Promote,
                DispatchOne, SchedMark, SchedQuiet
  <2> QED
    BY <1>1, <2>1
<1>6. ASSUME NEW c \in Clients,
             HandleCreateJob(c) \/ HandleCancelJob(c) \/ HandleDispatchJob(c) \/ Respond(c)
      PROVE  DispatcherTypeOK' /\ requests' \in Nat /\ faults' \in Nat
  <2>1. UNCHANGED dispVars /\ (UNCHANGED boundVars \/ \E k : Ask(k))
    BY <1>6 DEF HandleCreateJob, HandleCancelJob, HandleDispatchJob, Respond
  <2> QED
    BY <1>1, <2>1
<1>7. ASSUME NEW p \in Proc, Run(p) \/ EndRun(p) \/ StoreError(p)
      PROVE  DispatcherTypeOK' /\ requests' \in Nat /\ faults' \in Nat
  <2>1. CASE StoreError(p)
    BY <1>1, <2>1 DEF StoreError
  <2>2. CASE EndRun(p)
    BY <1>1, <2>2 DEF EndRun, RunError, RunResult
  <2>3. CASE Run(p) /\ ~(Register(p) \/ Unregister(p))
    <3>1. UNCHANGED dispVars /\ UNCHANGED boundVars
      BY <2>3 DEF Run, RefuseHalted, FinishHalted, RefuseExhausted, StartFails, StartRun
    <3> QED
      BY <1>1, <3>1
  <2> QED
    BY <1>3, <1>7, <2>1, <2>2, <2>3 DEF Run
<1>8. CASE UNCHANGED vars
  BY <1>1, <1>8 DEF vars
<1> QED
  BY <1>2, <1>4, <1>5, <1>6, <1>7, <1>8 DEF Next

LEMMA TypeNext == TypeOK /\ [Next]_vars => TypeOK'
<1> SUFFICES ASSUME TypeOK, [Next]_vars PROVE TypeOK'
  OBVIOUS
<1>1. StoreTypeOK' /\ LocalTypeOK' /\ TickTypeOK'
  <2>1. CASE UNCHANGED vars
    BY <2>1 DEF vars, TypeOK, StoreTypeOK, QueueTypeOK, LocalTypeOK, TickTypeOK,
                tableVars, procVars, tickVars
  <2>2. CASE SchedStep
    BY <2>2, SweepType, FitType, PromoteType, TickType DEF SchedStep
  <2>3. CASE HandleHalt \/ HandleResume
    BY <2>3 DEF HandleHalt, HandleResume, Halt, Resume, TypeOK, StoreTypeOK, QueueTypeOK,
                LocalTypeOK, TickTypeOK, tableVars, procVars, tickVars
  <2> QED
    BY <2>1, <2>2, <2>3, RequestType, RunType, FaultType DEF Next
<1> QED
  BY <1>1, DispatcherType DEF TypeOK, QueueTypeOK

(* Type correctness: every variable of the daemon keeps its type, and each  *)
(* goroutine stays within its own statements, with a job at hand wherever   *)
(* the statement needs one. *)
THEOREM TypeCorrect == Spec => []TypeOK
<1>1. Init => TypeOK
  BY InitType
<1>2. TypeOK /\ [Next]_vars => TypeOK'
  BY TypeNext
<1> QED
  BY <1>1, <1>2, PTL DEF Spec

-----------------------------------------------------------------------------
(***************************************************************************)
(* DependencyInv is inductive.                                              *)
(***************************************************************************)

(* What DependencyInv says of the table alone. *)
TableInv == DependencySafety /\ HistoryInv /\ OrderInv

(* What every step leaves to those in the middle of an operation... *)
TableGrows ==
    /\ Jobs \subseteq Jobs'
    /\ released \subseteq released'
    /\ succeeded \subseteq succeeded'
    /\ \A j \in Jobs : origin'[j] = origin[j]

(* ...and what every step but the sweep's and the rewiring's writes do: no   *)
(* waiting job is released, and no job waits for others than before. *)
WaitersKept ==
    \A j \in Jobs : (j \in released' => j \in released) /\ dependsOn'[j] = dependsOn[j]

LEMMA JobsPrime == Jobs' = 1 .. count'
BY DEF Jobs

(* A status other than blocked is written, which makes no job dispatchable  *)
(* or running that was not so before. *)
LEMMA StatusStep ==
    ASSUME TypeOK, TableInv, NEW j \in Jobs, NEW s \in Status \ {"blocked"},
           UpdateStatus(j, s), s \in Dispatchable \cup {"running"} => j \in released
    PROVE  TableInv' /\ TableGrows /\ WaitersKept
<1>1. j \in JobId /\ status \in [JobId -> Status]
  BY JobsInJobId DEF TypeOK, StoreTypeOK
<1>2. /\ UNCHANGED <<count, dependsOn, origin, Jobs>>
      /\ released' = released
      /\ succeeded \subseteq succeeded' /\ (s = "succeeded" => j \in succeeded')
  BY DEF UpdateStatus, Remember, Jobs
<1>3. TableGrows /\ WaitersKept
  BY <1>2 DEF TableGrows, WaitersKept
<1>4. DependencySafety'
  BY <1>2 DEF TableInv, DependencySafety, Elements
<1>5. HistoryInv'
  <2>1. \A i \in JobId : status'[i] = IF i = j THEN s ELSE status[i]
    BY <1>1 DEF UpdateStatus
  <2> QED
    BY <1>1, <1>2, <2>1 DEF TableInv, HistoryInv
<1>6. OrderInv'
  BY <1>2 DEF TableInv, OrderInv, DepsBefore, ParentBefore, Precedes, Root
<1> QED
  BY <1>3, <1>4, <1>5, <1>6 DEF TableInv

(* Nothing the invariant is about is written. *)
LEMMA QuietStep ==
    ASSUME TypeOK, TableInv,
           UNCHANGED <<count, status, dependsOn, origin, released, succeeded>>
    PROVE  TableInv' /\ TableGrows /\ WaitersKept
<1>1. UNCHANGED Jobs
  BY DEF Jobs
<1>2. TableGrows /\ WaitersKept
  BY <1>1 DEF TableGrows, WaitersKept
<1>3. DependencySafety' /\ HistoryInv'
  BY <1>1 DEF TableInv, DependencySafety, HistoryInv, Elements
<1>4. OrderInv'
  BY <1>1 DEF TableInv, OrderInv, DepsBefore, ParentBefore, Precedes, Root
<1> QED
  BY <1>2, <1>3, <1>4 DEF TableInv

LEMMA ElementsMember == \A ds, i : i \in DOMAIN ds => ds[i] \in Elements(ds)
BY DEF Elements

(* The root of a job is never a later job. *)
LEMMA RootBelow ==
    ASSUME TypeOK, OrderInv, NEW j \in Jobs
    PROVE  j \in Nat /\ Root(j) \in Nat /\ Root(j) <= j
<1>1. j \in JobId /\ j \in Nat /\ origin[j] \in Origin
  BY JobsInJobId, Constants DEF TypeOK, StoreTypeOK, JobId
<1>2. CASE origin[j].parent = NoJob
  BY <1>1, <1>2 DEF Root
<1>3. CASE origin[j].parent # NoJob
  <2>1. origin[j].parent \in JobId
    BY <1>1, <1>3 DEF Origin
  <2> QED
    BY <1>1, <1>3, <2>1, Constants DEF OrderInv, ParentBefore, Root, JobId
<1> QED
  BY <1>2, <1>3

(* A row is inserted, with a status that fits the dependencies and an       *)
(* origin that fits the existing rows. *)
LEMMA CreateStep ==
    ASSUME TypeOK, TableInv, NEW ds \in Seq(JobId), NEW o \in Origin, NEW h \in BOOLEAN,
           NEW s \in Writable, CreateJob(ds, o, h, s),
           Elements(ds) \subseteq Jobs,
           s = "queued" => Elements(ds) \subseteq succeeded,
           \/ o.parent = NoJob
           \/ /\ o.parent \in Jobs
              /\ origin[o.parent].parent = NoJob
              /\ o.steps = <<>>
              /\ \A i \in DOMAIN ds : origin[ds[i]].parent = o.parent
    PROVE  /\ TableInv' /\ TableGrows /\ WaitersKept
           /\ count + 1 \in Jobs' /\ origin'[count + 1] = o
<1> SUFFICES ASSUME NEW new, new = count + 1
             PROVE  /\ TableInv' /\ TableGrows /\ WaitersKept
                    /\ count + 1 \in Jobs' /\ origin'[count + 1] = o
  OBVIOUS
<1>1. count \in Nat /\ new \in JobId /\ new \notin Jobs /\ Jobs' = Jobs \cup {new}
  <2>1. count \in Nat /\ count' = count + 1
    BY Constants DEF TypeOK, StoreTypeOK, CreateJob
  <2>2. new \in JobId
    BY CreateJobType, Constants DEF TypeOK, Writable, Status
  <2> QED
    BY <2>1, <2>2 DEF Jobs
<1>2. Jobs \subseteq JobId
  BY JobsInJobId DEF TypeOK
<1>3. /\ \A j \in Jobs : j # new /\ dependsOn'[j] = dependsOn[j] /\ origin'[j] = origin[j]
      /\ dependsOn'[new] = ds
      /\ origin'[new] = o
      /\ \A j \in JobId : status'[j] = IF j = new THEN s ELSE status[j]
  BY <1>1, <1>2 DEF CreateJob, TypeOK, StoreTypeOK
<1>4. /\ released' = IF s = "queued" THEN released \cup {new} ELSE released
      /\ succeeded' = succeeded
  BY DEF CreateJob, Remember, Writable, Dispatchable
<1>5. released \subseteq Jobs
  BY DEF TableInv, HistoryInv
<1>6. TableGrows
  BY <1>1, <1>3, <1>4 DEF TableGrows
<1>7. WaitersKept
  BY <1>3, <1>4 DEF WaitersKept
<1>8. DependencySafety'
  <2> SUFFICES ASSUME NEW j \in released' PROVE Elements(dependsOn'[j]) \subseteq succeeded'
    BY DEF DependencySafety, Elements
  <2>1. CASE j \in released
    BY <1>3, <1>4, <1>5, <2>1 DEF TableInv, DependencySafety
  <2>2. CASE j = new /\ s = "queued"
    BY <1>3, <1>4, <2>2
  <2> QED
    BY <1>4, <2>1, <2>2
<1>9. HistoryInv'
  BY <1>1, <1>3, <1>4, <1>5 DEF TableInv, HistoryInv, Writable, Dispatchable
<1>10. OrderInv'
  <2>1. \A j \in Jobs : Root(j)' = Root(j)
    BY <1>3 DEF Root
  <2>2. Root(new)' = IF o.parent = NoJob THEN new ELSE o.parent
    BY <1>3 DEF Root
  <2>3. ASSUME NEW d \in Jobs, NEW j \in Jobs, Precedes(d, j)
        PROVE  Precedes(d, j)'
    BY <1>3, <2>1, <2>3 DEF Precedes
  <2>4. ASSUME NEW j \in Jobs
        PROVE  DepsBefore(j)' /\ ParentBefore(j)'
    <3>1. DepsBefore(j) /\ ParentBefore(j)
      BY DEF TableInv, OrderInv
    <3>2. DepsBefore(j)'
      <4> SUFFICES ASSUME NEW i \in DOMAIN dependsOn[j], NEW d, d = dependsOn[j][i]
                   PROVE  d \in Jobs' /\ Precedes(d, j)'
        BY <1>3 DEF DepsBefore, Precedes, Root
      <4>1. d \in Jobs /\ Precedes(d, j)
        BY <3>1 DEF DepsBefore
      <4> QED
        BY <1>1, <2>3, <4>1
    <3>3. ParentBefore(j)'
      <4> SUFFICES ASSUME origin[j].parent # NoJob
                   PROVE  origin'[origin[j].parent].parent = NoJob
        BY <1>3, <3>1 DEF ParentBefore
      <4>1. origin[j].parent < j /\ origin[origin[j].parent].parent = NoJob
        BY <3>1 DEF ParentBefore
      <4>2. origin[j] \in Origin /\ origin[j].parent # NoJob
        BY <1>2 DEF TypeOK, StoreTypeOK
      <4>3. origin[j].parent \in JobId
        BY <4>2 DEF Origin
      <4>4. origin[j].parent \in Jobs
        BY <1>1, <1>2, <4>1, <4>3, Constants DEF Jobs, JobId
      <4> QED
        BY <1>3, <4>1, <4>4
    <3> QED
      BY <3>2, <3>3
  <2>5. DepsBefore(new)'
    <3> SUFFICES ASSUME NEW i \in DOMAIN ds, NEW d, d = ds[i]
                 PROVE  d \in Jobs' /\ Precedes(d, new)'
      BY <1>3 DEF DepsBefore, Precedes, Root
    <3>1. d \in Jobs
      BY ElementsMember
    <3>2. d \in Nat /\ Root(d) \in Nat /\ Root(d) <= d /\ d < new
      BY <1>1, <3>1, RootBelow DEF TableInv, Jobs
    <3>3. CASE o.parent = NoJob
      BY <1>1, <2>1, <2>2, <3>1, <3>2, <3>3 DEF Precedes
    <3>4. CASE o.parent # NoJob
      <4>1. origin'[d].parent = o.parent /\ origin'[new].parent = o.parent
        BY <1>3, <3>1, <3>4
      <4> QED
        BY <1>1, <3>1, <3>2, <3>4, <4>1 DEF Precedes
    <3> QED
      BY <1>1, <3>1, <3>3, <3>4
  <2>6. ParentBefore(new)'
    BY <1>1, <1>3 DEF Jobs, ParentBefore
  <2> QED
    BY <1>1, <2>4, <2>5, <2>6 DEF OrderInv
<1> QED
  BY <1>1, <1>3, <1>6, <1>7, <1>8, <1>9, <1>10 DEF TableInv

-----------------------------------------------------------------------------

(* Goroutine q is where it was, with what it had read. *)
Stays(q) == UNCHANGED <<pc[q], target[q], verdict[q], wish[q]>>

LEMMA GotoMoves ==
    ASSUME LocalTypeOK, NEW p \in Proc, NEW l, Goto(p, l)
    PROVE  /\ pc'[p] = l /\ UNCHANGED <<target[p], verdict[p], wish[p]>>
           /\ \A q \in Proc \ {p} : Stays(q)
BY DEF LocalTypeOK, Goto, Stays

LEMMA EnterMoves ==
    ASSUME LocalTypeOK, NEW p \in Proc, NEW l, NEW j, NEW s, Enter(p, l, j, s)
    PROVE  /\ pc'[p] = l /\ target'[p] = j /\ verdict'[p] = s /\ UNCHANGED wish[p]
           /\ \A q \in Proc \ {p} : Stays(q)
BY DEF LocalTypeOK, Enter, Stays

LEMMA LeaveMoves ==
    ASSUME LocalTypeOK, NEW p \in Proc, NEW l, Leave(p, l)
    PROVE  pc'[p] = l /\ \A q \in Proc \ {p} : Stays(q)
BY DEF LocalTypeOK, Leave, Stays

LEMMA ReturnMoves ==
    ASSUME LocalTypeOK, NEW p \in Proc, Return(p)
    PROVE  pc'[p] = "idle" /\ \A q \in Proc \ {p} : Stays(q)
BY LeaveMoves DEF Return, EndTick

(* Statements at which a goroutine relies on nothing. *)
LEMMA PendingNothing ==
    ASSUME NEW p \in Proc, pc'[p] \in {"idle", "sweep", "sweepSession", "sweepStatus", "fit"}
    PROVE  Pending(p)'
BY DEF Pending, HoldsReleased, ActiveLabel, RunLabel, PromoteLabel

(* What a goroutine relies on outlives the steps of the others. *)
LEMMA PendingKept ==
    ASSUME PendingInv, TableGrows, NEW q \in Proc, Stays(q)
    PROVE  Pending(q)'
<1>1. Pending(q)
  BY DEF PendingInv
<1>2. /\ pc'[q] = pc[q] /\ target'[q] = target[q] /\ verdict'[q] = verdict[q]
      /\ wish'[q] = wish[q]
  BY DEF Stays
<1> QED
  BY <1>1, <1>2 DEF Pending, TableGrows, Elements

LEMMA PendingOne ==
    ASSUME PendingInv, TableGrows, NEW p \in Proc, Pending(p)',
           \A q \in Proc \ {p} : Stays(q)
    PROVE  PendingInv'
<1>1. \A q \in Proc : Pending(q)'
  BY PendingKept
<1> QED
  BY <1>1 DEF PendingInv

(* So does what the scheduler loop has listed, if no waiter is released. *)
LEMMA TickKept ==
    ASSUME TypeOK, DependencyInv, TableGrows, WaitersKept, Stays(Sched), UNCHANGED tickVars
    PROVE  SweepInv' /\ TickInv'
<1>1. /\ pc'[Sched] = pc[Sched] /\ target'[Sched] = target[Sched]
      /\ verdict'[Sched] = verdict[Sched]
      /\ todo' = todo /\ listed' = listed /\ kids' = kids /\ rewires' = rewires
  BY DEF Stays, tickVars
<1>2. StepDeps' = StepDeps
  BY <1>1 DEF StepDeps
<1>3. pc[Sched] \in PromoteLabel => target[Sched] \in Jobs
  BY SchedLabels DEF DependencyInv, PendingInv, Pending, HistoryInv, HoldsReleased
<1>4. SweepInv'
  BY <1>1 DEF DependencyInv, SweepInv, TableGrows, WaitersKept, Elements
<1>5. TickInv'
  <2>1. pc'[Sched] \in TickLabel => todo' \subseteq released'
    BY <1>1 DEF DependencyInv, TickInv, TableGrows
  <2>2. pc'[Sched] \in PromoteLabel => origin'[target'[Sched]].steps # <<>>
    BY <1>1, <1>3 DEF DependencyInv, TickInv, TableGrows
  <2>3. pc'[Sched] \in KidsLabel =>
          \A i \in DOMAIN kids' :
             kids'[i] \in Jobs' /\ origin'[kids'[i]].parent = target'[Sched]
    BY <1>1 DEF DependencyInv, TickInv, TableGrows
  <2>4. pc'[Sched] = "promoteCreate" =>
          /\ verdict'[Sched] \in Writable
          /\ verdict'[Sched] = "queued" => Elements(StepDeps)' \subseteq succeeded'
    BY <1>1, <1>2 DEF DependencyInv, TickInv, TableGrows, Elements
  <2>5. \A j \in rewires' :
          /\ j \in Jobs' \ released'
          /\ listed'[j] = dependsOn'[j]
          /\ target'[Sched] \in Elements(dependsOn'[j])
    BY <1>1 DEF DependencyInv, TickInv, TableGrows, WaitersKept, Elements
  <2> QED
    BY <1>1, <2>1, <2>2, <2>3, <2>4, <2>5 DEF DependencyInv, TickInv
<1> QED
  BY <1>4, <1>5

(* The scheduler loop at rest. *)
LEMMA TickEnded ==
    ASSUME EndTick, LocalTypeOK
    PROVE  SweepInv' /\ TickInv'
<1>1. pc'[Sched] = "idle" /\ todo' = {} /\ kids' = <<>> /\ rewires' = {}
  BY LeaveMoves, SchedLabels DEF EndTick
<1> QED
  BY <1>1 DEF SweepInv, TickInv, SweepLabel, TickLabel, PromoteLabel, RewireLabel, KidsLabel

(* The scheduler loop within a run, or back in the walk over its candidates.*)
LEMMA TickWalks ==
    ASSUME DependencyInv, TableGrows, UNCHANGED <<kids, rewires>>,
           kids = <<>>, rewires = {}, todo' \subseteq released,
           pc'[Sched] \in {"fit", "deferWrite", "dispatch", "markRead"} \cup ActiveLabel
    PROVE  SweepInv' /\ TickInv'
BY DEF TableGrows, SweepInv, TickInv, ActiveLabel, RunLabel, SweepLabel, PromoteLabel,
       RewireLabel, KidsLabel

-----------------------------------------------------------------------------

(* What is left to prove of DependencyInv once its variables have a type.   *)
Parts == TableInv /\ PendingInv /\ SweepInv /\ TickInv

LEMMA InvParts == DependencyInv <=> TypeOK /\ Parts
BY DEF DependencyInv, Parts, TableInv

LEMMA TableUnchanged ==
    ASSUME TypeOK, TableInv, UNCHANGED tableVars
    PROVE  TableInv' /\ TableGrows /\ WaitersKept
BY QuietStep DEF tableVars

LEMMA SessionStep ==
    ASSUME TypeOK, TableInv, NEW j, UpdateSessionID(j)
    PROVE  TableInv' /\ TableGrows /\ WaitersKept
BY QuietStep DEF UpdateSessionID

(* A goroutine executing a run, or the scheduler loop doing so. *)
LEMMA RunStep ==
    ASSUME DependencyInv, NEW p \in Proc, Run(p) \/ EndRun(p)
    PROVE  Parts'
<1> USE InvParts DEF TypeOK, QueueTypeOK, Parts
<1>1. pc[p] \in ActiveLabel
  BY DEF Run, EndRun, MarkWrite, RefuseHalted, FinishHalted, Register, RefuseExhausted,
         StartFails, StartRun, FinishSession, FinishStatus, Unregister, RunError, RunResult,
         ActiveLabel, RunLabel
<1>2. target[p] \in released /\ target[p] \in Jobs /\ Pending(p)
  BY <1>1 DEF PendingInv, Pending, HoldsReleased, TableInv, HistoryInv
<1>3. TableInv' /\ TableGrows /\ WaitersKept
  <2>1. CASE MarkWrite(p) \/ FinishHalted(p) \/ FinishStatus(p)
    <3>1. verdict[p] \in Status \ {"blocked"} /\ UpdateStatus(target[p], verdict[p])
      BY <1>2, <2>1 DEF MarkWrite, FinishHalted, FinishStatus, Pending, Status
    <3> QED
      BY <1>2, <3>1, StatusStep
  <2>2. CASE FinishSession(p)
    BY <2>2, SessionStep DEF FinishSession
  <2>3. CASE UNCHANGED tableVars
    BY <2>3, TableUnchanged
  <2> QED
    BY <2>1, <2>2, <2>3 DEF Run, EndRun, RefuseHalted, Register, RefuseExhausted,
         StartFails, StartRun, Unregister, RunError, RunResult
<1>4. \/ Return(p)
      \/ /\ UNCHANGED <<tickVars, target[p]>> /\ pc'[p] \in ActiveLabel \ {"mark"}
         /\ pc'[p] = "finishHalted" => verdict'[p] = "failed"
         /\ pc'[p] \in {"finishSession", "finishStatus"} =>
               verdict'[p] \in {"succeeded", "failed", "paused_budget"}
         /\ \A q \in Proc \ {p} : Stays(q)
  <2>1. CASE FinishHalted(p) \/ Unregister(p)
    BY <2>1 DEF FinishHalted, Unregister
  <2>2. CASE MarkWrite(p) \/ Register(p) \/ StartRun(p) \/ FinishSession(p) \/ FinishStatus(p)
    <3>1. PICK l \in {"register", "check", "exec", "finishStatus", "unregister"} :
             /\ Goto(p, l) /\ UNCHANGED tickVars
             /\ l = "finishStatus" => pc[p] = "finishSession"
      BY <2>2 DEF MarkWrite, Register, StartRun, FinishSession, FinishStatus
    <3> QED
      BY <1>2, <3>1, GotoMoves DEF ActiveLabel, RunLabel, Pending
  <2>3. CASE RefuseHalted(p)
    BY <2>3, EnterMoves DEF RefuseHalted, ActiveLabel, RunLabel
  <2>4. CASE RefuseExhausted(p) \/ StartFails(p) \/ RunError(p) \/ RunResult(p)
    <3>1. PICK l \in {"finishSession", "finishStatus"},
               s \in {"succeeded", "failed", "paused_budget"} :
             Enter(p, l, target[p], s) /\ UNCHANGED tickVars
      BY <2>4 DEF RefuseExhausted, StartFails, RunError, RunResult
    <3> QED
      BY <3>1, EnterMoves DEF ActiveLabel, RunLabel
  <2> QED
    BY <2>1, <2>2, <2>3, <2>4 DEF Run, EndRun
<1>5. PendingInv'
  <2>1. CASE Return(p)
    BY <1>3, <2>1, ReturnMoves, PendingNothing, PendingOne
  <2>2. CASE ~Return(p)
    <3>1. target'[p] \in released'
      BY <1>2, <1>3, <1>4, <2>2 DEF TableGrows
    <3>2. Pending(p)'
      BY <1>4, <2>2, <3>1 DEF Pending, ActiveLabel, RunLabel
    <3> QED
      BY <1>3, <1>4, <2>2, <3>2, PendingOne
  <2> QED
    BY <2>1, <2>2
<1>6. SweepInv' /\ TickInv'
  <2>1. CASE p # Sched
    <3>1. Stays(Sched) /\ UNCHANGED tickVars
      BY <1>4, <2>1, ReturnMoves, SchedLabels DEF Return
    <3> QED
      BY <1>3, <3>1, TickKept
  <2>2. CASE p = Sched /\ Return(p)
    BY <2>2, TickEnded DEF Return
  <2>3. CASE p = Sched /\ ~Return(p)
    <3>1. pc[Sched] \in TickLabel \ (KidsLabel \cup RewireLabel)
      BY <1>1, <2>3 DEF ActiveLabel, RunLabel, TickLabel, SchedLabel, SweepLabel, KidsLabel,
                        RewireLabel
    <3>2. kids = <<>> /\ rewires = {} /\ todo \subseteq released
      BY <3>1 DEF TickInv
    <3> QED
      BY <1>3, <1>4, <2>3, <3>2, TickWalks DEF tickVars
  <2> QED
    BY <2>1, <2>2, <2>3
<1> QED
  BY <1>3, <1>5, <1>6

(* The API requests. *)
LEMMA RequestStep ==
    ASSUME DependencyInv, NEW c \in Clients,
           HandleCreateJob(c) \/ HandleCancelJob(c) \/ HandleDispatchJob(c) \/ Respond(c)
    PROVE  Parts'
<1> USE InvParts, SchedLabels DEF TypeOK, QueueTypeOK, Parts
<1>1. c \in Proc /\ c # Sched /\ Pending(c)
  BY Constants DEF PendingInv
<1>2. ASSUME TableInv', TableGrows, WaitersKept, Pending(c)', UNCHANGED tickVars,
             \A q \in Proc \ {c} : Stays(q)
      PROVE  Parts'
  BY <1>1, <1>2, PendingOne, TickKept
<1>3. CASE HandleCreateJob(c)
  <2>1. PICK ds \in DepLists, t \in Templates : EnqueueResolve(c, ds, t)
    BY <1>3 DEF HandleCreateJob
  <2>2. /\ TableInv' /\ TableGrows /\ WaitersKept
        /\ UNCHANGED <<tableVars, tickVars>>
    BY <2>1, TableUnchanged DEF EnqueueResolve
  <2>3. /\ pc'[c] = "create" /\ verdict'[c] = ComputeStatus(ds)
        /\ wish'[c].deps = ds /\ \A q \in Proc \ {c} : Stays(q)
    BY <1>1, <2>1 DEF EnqueueResolve, Stays, LocalTypeOK
  <2>4. Elements(ds) \subseteq Jobs /\ ComputeStatus(ds) \in Writable
    BY <2>1, ComputeStatusType DEF EnqueueResolve, Resolvable, Writable
  <2>5. ComputeStatus(ds) = "queued" => Elements(ds) \subseteq succeeded
    <3> SUFFICES ASSUME ComputeStatus(ds) = "queued", NEW i \in DOMAIN ds
                 PROVE  ds[i] \in succeeded
      BY DEF Elements
    <3>1. status[ds[i]] = "succeeded"
      BY DEF ComputeStatus
    <3>2. ds[i] \in JobId
      BY <2>4, JobsInJobId, ElementsMember
    <3> QED
      BY <3>1, <3>2 DEF TableInv, HistoryInv
  <2>6. Pending(c)'
    BY <2>2, <2>3, <2>4, <2>5
       DEF Pending, TableGrows, Elements, HoldsReleased, ActiveLabel, RunLabel, PromoteLabel,
           tableVars
  <2> QED
    BY <1>2, <2>2, <2>3, <2>6
<1>4. CASE HandleCancelJob(c)
  <2>1. PICK j \in Jobs : CancelRead(c, j)
    BY <1>4 DEF HandleCancelJob
  <2>2. /\ pc'[c] = "cancel" /\ target'[c] = j /\ verdict'[c] = "cancelled"
        /\ \A q \in Proc \ {c} : Stays(q)
    BY <1>1, <2>1, EnterMoves DEF CancelRead
  <2>3. TableInv' /\ TableGrows /\ WaitersKept /\ UNCHANGED tickVars
    BY <2>1, TableUnchanged DEF CancelRead
  <2>4. Pending(c)'
    BY <2>2, <2>3 DEF Pending, TableGrows, HoldsReleased, ActiveLabel, RunLabel, PromoteLabel
  <2> QED
    BY <1>2, <2>2, <2>3, <2>4
<1>5. CASE HandleDispatchJob(c)
  <2>1. PICK j \in Jobs : MarkRead(c, j)
    BY <1>5 DEF HandleDispatchJob
  <2>2. /\ pc'[c] = "mark" /\ target'[c] = j /\ verdict'[c] = "running"
        /\ \A q \in Proc \ {c} : Stays(q)
    BY <1>1, <2>1, EnterMoves DEF MarkRead
  <2>3. TableInv' /\ TableGrows /\ WaitersKept /\ UNCHANGED tickVars
    BY <1>5, TableUnchanged DEF HandleDispatchJob
  <2>4. j \in released'
    BY <2>1, <2>3, JobsInJobId DEF MarkRead, TableInv, HistoryInv, TableGrows
  <2>5. Pending(c)'
    BY <2>2, <2>4 DEF Pending
  <2> QED
    BY <1>2, <2>2, <2>3, <2>5
<1>6. CASE EnqueueCreate(c)
  <2> DEFINE o == [steps |-> wish[c].job.steps, resumable |-> wish[c].job.resumable,
                   parent |-> NoJob, step |-> 0]
  <2>1. wish[c] \in [deps : Seq(JobId), job : Template]
    BY <1>1 DEF LocalTypeOK
  <2>2. o \in Origin /\ o.parent = NoJob
    BY <2>1, OriginType DEF Template
  <2>3. /\ verdict[c] \in Writable
        /\ Elements(wish[c].deps) \subseteq Jobs
        /\ verdict[c] = "queued" => Elements(wish[c].deps) \subseteq succeeded
        /\ CreateJob(wish[c].deps, o, FALSE, verdict[c])
    BY <1>1, <1>6 DEF EnqueueCreate, Pending
  <2>4. TableInv' /\ TableGrows /\ WaitersKept
    BY <2>1, <2>2, <2>3, CreateStep
  <2>5. pc'[c] = "idle" /\ \A q \in Proc \ {c} : Stays(q)
    BY <1>1, <1>6, LeaveMoves DEF EnqueueCreate
  <2> QED
    BY <1>1, <1>2, <1>6, <2>4, <2>5, PendingNothing DEF EnqueueCreate
<1>7. CASE CancelWrite(c)
  <2>1. target[c] \in Jobs /\ verdict[c] = "cancelled" /\ UpdateStatus(target[c], "cancelled")
    BY <1>1, <1>7 DEF CancelWrite, Pending
  <2>2. "cancelled" \in Status \ {"blocked"} /\ "cancelled" \notin Dispatchable \cup {"running"}
    BY DEF Status, Dispatchable
  <2>3. TableInv' /\ TableGrows /\ WaitersKept
    BY <2>1, <2>2, StatusStep
  <2>4. pc'[c] = "idle" /\ \A q \in Proc \ {c} : Stays(q)
    BY <1>1, <1>7, LeaveMoves DEF CancelWrite
  <2> QED
    BY <1>1, <1>2, <1>7, <2>3, <2>4, PendingNothing DEF CancelWrite
<1> QED
  BY <1>3, <1>4, <1>5, <1>6, <1>7 DEF Respond

(* PromoteReady. *)
LEMMA SweepStep ==
    ASSUME DependencyInv, Sweep
    PROVE  Parts'
<1> USE InvParts, SchedLabels DEF TypeOK, QueueTypeOK, Parts
<1>1. ASSUME TableInv', TableGrows, Pending(Sched)', \A q \in Proc \ {Sched} : Stays(q),
             SweepInv', TickInv'
      PROVE  Parts'
  BY <1>1, PendingOne
<1>2. pc[Sched] \in SweepLabel \cup {"idle"} => kids = <<>> /\ rewires = {}
  BY DEF TickInv, SweepLabel, KidsLabel, RewireLabel
<1>3. ASSUME pc'[Sched] \in SweepLabel, kids' = <<>>, rewires' = {}
      PROVE  TickInv'
  BY <1>3 DEF TickInv, SweepLabel, KidsLabel, RewireLabel, TickLabel, PromoteLabel
<1>4. CASE SweepList
  <2>1. pc'[Sched] = "sweep" /\ \A q \in Proc \ {Sched} : Stays(q)
    BY <1>4, GotoMoves DEF SweepList
  <2>2. TableInv' /\ TableGrows /\ UNCHANGED tableVars
    BY <1>4, TableUnchanged DEF SweepList
  <2>3. \A j \in todo' : j \in Jobs \ released /\ listed'[j] = dependsOn[j]
    BY <1>4, JobsInJobId DEF SweepList, InStatus, TableInv, HistoryInv
  <2>4. SweepInv'
    BY <2>1, <2>2, <2>3 DEF SweepInv, tableVars, Jobs
  <2>5. TickInv'
    BY <1>2, <1>3, <1>4, <2>1 DEF SweepList, SweepLabel
  <2> QED
    BY <1>1, <2>1, <2>2, <2>4, <2>5, PendingNothing
<1>5. ASSUME NEW j \in todo, SweepPass(j)
      PROVE  Parts'
  <2>1. TableInv' /\ TableGrows /\ UNCHANGED tableVars
    BY <1>5, TableUnchanged DEF SweepPass
  <2>2. \A q \in Proc : Stays(q)
    BY <1>5 DEF SweepPass, Stays, procVars
  <2>3. SweepInv'
    BY <1>5, <2>1 DEF SweepPass, SweepInv, procVars, tableVars, Jobs
  <2>4. TickInv'
    BY <1>2, <1>3, <1>5 DEF SweepPass, procVars, SweepLabel
  <2> QED
    BY <2>1, <2>2, <2>3, <2>4, PendingKept DEF PendingInv
<1>6. ASSUME NEW j \in todo, SweepResolve(j)
      PROVE  Parts'
  <2> DEFINE ds == listed[j]
  <2>1. PICK l \in {"sweepSession", "sweepStatus"} : Enter(Sched, l, j, ComputeStatus(ds))
    BY <1>6 DEF SweepResolve
  <2>2. /\ pc'[Sched] = l /\ target'[Sched] = j /\ verdict'[Sched] = ComputeStatus(ds)
        /\ \A q \in Proc \ {Sched} : Stays(q)
    BY <2>1, EnterMoves
  <2>3. TableInv' /\ TableGrows /\ UNCHANGED tableVars
    BY <1>6, TableUnchanged DEF SweepResolve
  <2>4. /\ \A i \in todo : i \in Jobs \ released /\ listed[i] = dependsOn[i]
        /\ todo' = todo \ {j} /\ UNCHANGED <<listed, kids, rewires>>
    BY <1>6 DEF SweepResolve, SweepInv, SweepLabel
  <2>5. ComputeStatus(ds) \in {"queued", "cancelled"}
    BY <1>6, ComputeStatusType DEF SweepResolve
  <2>6. ComputeStatus(ds) = "queued" => Elements(dependsOn[j]) \subseteq succeeded
    <3> SUFFICES ASSUME ComputeStatus(ds) = "queued", NEW i \in DOMAIN ds
                 PROVE  ds[i] \in succeeded
      BY <2>4 DEF Elements
    <3>1. status[ds[i]] = "succeeded"
      BY DEF ComputeStatus
    <3>2. ds[i] \in JobId
      BY <1>6, JobsInJobId, ElementsMember DEF SweepResolve, Resolvable
    <3> QED
      BY <3>1, <3>2 DEF TableInv, HistoryInv
  <2>7. SweepInv'
    <3>1. \A i \in todo' : i \in Jobs' \ released' /\ listed'[i] = dependsOn'[i]
      BY <2>3, <2>4 DEF tableVars, Jobs
    <3>2. target'[Sched] \in Jobs' \ todo'
      BY <2>2, <2>3, <2>4 DEF tableVars, Jobs
    <3>3. verdict'[Sched] = "queued" => Elements(dependsOn'[target'[Sched]]) \subseteq succeeded'
      BY <2>2, <2>3, <2>6 DEF tableVars
    <3> QED
      BY <2>2, <2>5, <3>1, <3>2, <3>3 DEF SweepInv, Elements
  <2>8. TickInv'
    BY <1>2, <1>3, <1>6, <2>2, <2>4 DEF SweepResolve, SweepLabel
  <2> QED
    BY <1>1, <2>2, <2>3, <2>7, <2>8, PendingNothing
<1>7. CASE SweepSession
  <2>1. TableInv' /\ TableGrows /\ WaitersKept
    BY <1>7, SessionStep DEF SweepSession
  <2>2. /\ pc'[Sched] = "sweepStatus" /\ UNCHANGED <<target[Sched], verdict[Sched]>>
        /\ \A q \in Proc \ {Sched} : Stays(q)
    BY <1>7, GotoMoves DEF SweepSession
  <2>3. /\ UNCHANGED tickVars
        /\ UNCHANGED <<count, released, succeeded, dependsOn>>
    BY <1>7 DEF SweepSession, UpdateSessionID
  <2>4. SweepInv'
    BY <1>7, <2>2, <2>3 DEF SweepSession, SweepInv, SweepLabel, tickVars, Jobs, Elements
  <2>5. TickInv'
    BY <1>2, <1>3, <1>7, <2>2, <2>3 DEF SweepSession, SweepLabel, tickVars
  <2> QED
    BY <1>1, <2>1, <2>2, <2>4, <2>5, PendingNothing
<1>8. CASE SweepStatus
  <2> DEFINE t == target[Sched]  s == verdict[Sched]
  <2>1. /\ t \in Jobs \ todo /\ s \in {"queued", "cancelled"}
        /\ s = "queued" => Elements(dependsOn[t]) \subseteq succeeded
        /\ \A j \in todo : j \in Jobs \ released /\ listed[j] = dependsOn[j]
    BY <1>8 DEF SweepStatus, SweepInv, SweepLabel
  <2>2. /\ UNCHANGED <<count, dependsOn, origin, tickVars, Jobs, succeeded>>
        /\ released' = IF s = "queued" THEN released \cup {t} ELSE released
        /\ UpdateStatus(t, s)
    BY <1>8, <2>1 DEF SweepStatus, UpdateStatus, Remember, Dispatchable, Jobs
  <2>3. TableGrows
    BY <2>2 DEF TableGrows
  <2>4. DependencySafety'
    BY <2>1, <2>2 DEF TableInv, DependencySafety, Elements
  <2>5. HistoryInv'
    <3>1. t \in JobId
      BY <2>1, JobsInJobId
    <3>2. \A i \in JobId : status'[i] = IF i = t THEN s ELSE status[i]
      BY <2>2, <3>1 DEF UpdateStatus, StoreTypeOK
    <3> QED
      BY <2>1, <2>2, <3>2 DEF TableInv, HistoryInv, Dispatchable
  <2>6. OrderInv'
    BY <2>2 DEF TableInv, OrderInv, DepsBefore, ParentBefore, Precedes, Root
  <2>7. pc'[Sched] = "sweep" /\ \A q \in Proc \ {Sched} : Stays(q)
    BY <1>8, LeaveMoves DEF SweepStatus
  <2>8. SweepInv'
    BY <2>1, <2>2, <2>7 DEF SweepInv, tickVars
  <2>9. TickInv'
    BY <1>2, <1>3, <1>8, <2>2, <2>7 DEF SweepStatus, SweepLabel, tickVars
  <2> QED
    BY <1>1, <2>3, <2>4, <2>5, <2>6, <2>7, <2>8, <2>9, PendingNothing DEF TableInv
<1> QED
  BY <1>4, <1>5, <1>6, <1>7, <1>8 DEF Sweep

(* The tick outside of the sweep, a promotion or a run. *)
LEMMA TickStep ==
    ASSUME DependencyInv,
           TickHold \/ TickAdmit \/ TickDone \/ Defer \/ DispatchOne \/ SchedMark
    PROVE  Parts'
<1> USE InvParts, SchedLabels DEF TypeOK, QueueTypeOK, Parts
<1>1. Pending(Sched)
  BY DEF PendingInv
<1>2. pc[Sched] \in {"sweep", "fit", "deferWrite", "dispatch", "markRead"} =>
          kids = <<>> /\ rewires = {}
  BY DEF TickInv, KidsLabel, RewireLabel
<1>3. pc[Sched] \in {"fit", "deferWrite", "dispatch", "markRead"} => todo \subseteq released
  BY DEF TickInv, TickLabel, SchedLabel, SweepLabel
<1>4. ASSUME UNCHANGED tableVars, EndTick
      PROVE  Parts'
  <2>1. pc'[Sched] = "idle" /\ \A q \in Proc \ {Sched} : Stays(q)
    BY <1>4, ReturnMoves DEF Return
  <2> QED
    BY <1>4, <2>1, TableUnchanged, TickEnded, PendingNothing, PendingOne
<1>5. CASE TickHold \/ TickDone
  BY <1>4, <1>5 DEF TickHold, TickDone
<1>6. CASE TickAdmit
  <2>1. TableInv' /\ TableGrows
    BY <1>6, TableUnchanged DEF TickAdmit
  <2>2. pc'[Sched] = "fit" /\ \A q \in Proc \ {Sched} : Stays(q)
    BY <1>6, GotoMoves DEF TickAdmit
  <2>3. todo' \subseteq released
    BY <1>6, JobsInJobId DEF TickAdmit, InStatus, TableInv, HistoryInv
  <2>4. SweepInv' /\ TickInv'
    BY <1>2, <1>6, <2>1, <2>2, <2>3, TickWalks DEF TickAdmit
  <2> QED
    BY <2>1, <2>2, <2>4, PendingNothing, PendingOne
<1>7. CASE Defer
  <2>1. /\ target[Sched] \in released /\ target[Sched] \in Jobs
        /\ UpdateStatus(target[Sched], "deferred_oversized")
    BY <1>1, <1>7 DEF Defer, DeferWrite, Pending, HoldsReleased, TableInv, HistoryInv
  <2>2. "deferred_oversized" \in Status \ {"blocked"}
    BY DEF Status
  <2>3. TableInv' /\ TableGrows
    BY <2>1, <2>2, StatusStep
  <2>4. pc'[Sched] = "fit" /\ \A q \in Proc \ {Sched} : Stays(q)
    BY <1>7, LeaveMoves DEF Defer, DeferWrite
  <2>5. SweepInv' /\ TickInv'
    BY <1>2, <1>3, <1>7, <2>3, <2>4, TickWalks DEF Defer, DeferWrite, tickVars
  <2> QED
    BY <2>3, <2>4, <2>5, PendingNothing, PendingOne
<1>8. CASE DispatchOne
  <2>1. CASE halted
    BY <1>4, <1>8, <2>1 DEF DispatchOne
  <2>2. CASE ~halted
    <3>1. TableInv' /\ TableGrows
      BY <1>8, TableUnchanged DEF DispatchOne
    <3>2. /\ pc'[Sched] = "markRead" /\ UNCHANGED target[Sched]
          /\ \A q \in Proc \ {Sched} : Stays(q)
      BY <1>8, <2>2, GotoMoves DEF DispatchOne
    <3>3. target[Sched] \in released
      BY <1>1, <1>8 DEF DispatchOne, Pending, HoldsReleased
    <3>4. Pending(Sched)'
      BY <3>1, <3>2, <3>3 DEF Pending, TableGrows
    <3>5. SweepInv' /\ TickInv'
      BY <1>2, <1>3, <1>8, <2>2, <3>1, <3>2, TickWalks DEF DispatchOne, tickVars
    <3> QED
      BY <3>1, <3>2, <3>4, <3>5, PendingOne
  <2> QED
    BY <2>1, <2>2
<1>9. CASE SchedMark
  <2>1. CASE EndTick
    BY <1>4, <1>9, <2>1 DEF SchedMark
  <2>2. CASE MarkRead(Sched, target[Sched]) /\ UNCHANGED tickVars
    <3>1. TableInv' /\ TableGrows
      BY <1>9, TableUnchanged DEF SchedMark
    <3>2. /\ pc'[Sched] = "mark" /\ target'[Sched] = target[Sched]
          /\ verdict'[Sched] = "running" /\ \A q \in Proc \ {Sched} : Stays(q)
      BY <2>2, EnterMoves DEF MarkRead
    <3>3. target[Sched] \in released
      BY <1>1, <1>9 DEF SchedMark, Pending, HoldsReleased
    <3>4. Pending(Sched)'
      BY <3>1, <3>2, <3>3 DEF Pending, TableGrows
    <3>5. SweepInv' /\ TickInv'
      BY <1>2, <1>3, <1>9, <2>2, <3>1, <3>2, TickWalks DEF SchedMark, ActiveLabel, tickVars
    <3> QED
      BY <3>1, <3>2, <3>4, <3>5, PendingOne
  <2> QED
    BY <1>9, <2>1, <2>2 DEF SchedMark
<1> QED
  BY <1>5, <1>6, <1>7, <1>8, <1>9

(* The walk over the candidates. *)
LEMMA FitStep ==
    ASSUME DependencyInv, Fit
    PROVE  Parts'
<1> USE InvParts, SchedLabels DEF TypeOK, QueueTypeOK, Parts
<1>1. PICK j \in todo : \/ FitDispatch(j) \/ FitCapBudget(j) \/ FitDefer(j)
                        \/ FitPromoteSteps(j) \/ FitRefused(j)
  BY DEF Fit, First
<1>2. pc[Sched] = "fit" /\ kids = <<>> /\ rewires = {} /\ todo \subseteq released
  BY DEF Fit, TickInv, KidsLabel, RewireLabel, TickLabel, SchedLabel, SweepLabel
<1>3. j \in released
  BY <1>2
<1>4. TableInv' /\ TableGrows /\ UNCHANGED tableVars
  <2>1. UNCHANGED tableVars
    BY <1>1 DEF FitDispatch, FitCapBudget, FitDefer, DeferRead, FitPromoteSteps, PromoteRead,
                FitRefused
  <2> QED
    BY <2>1, TableUnchanged
<1>5. ASSUME NEW l \in {"dispatch", "deferWrite"}, NEW s, Enter(Sched, l, j, s),
             l = "deferWrite" => s = "deferred_oversized",
             todo' \subseteq todo, UNCHANGED <<kids, rewires>>
      PROVE  Parts'
  <2>1. /\ pc'[Sched] = l /\ target'[Sched] = j /\ verdict'[Sched] = s
        /\ \A q \in Proc \ {Sched} : Stays(q)
    BY <1>5, EnterMoves
  <2>2. Pending(Sched)'
    BY <1>3, <1>4, <1>5, <2>1
       DEF Pending, TableGrows, HoldsReleased, ActiveLabel, RunLabel, PromoteLabel
  <2>3. SweepInv' /\ TickInv'
    BY <1>2, <1>4, <1>5, <2>1, TickWalks
  <2> QED
    BY <1>4, <2>1, <2>2, <2>3, PendingOne
<1>6. CASE FitDispatch(j) \/ FitCapBudget(j)
  BY <1>5, <1>6 DEF FitDispatch, FitCapBudget
<1>7. CASE FitDefer(j)
  <2>1. CASE Enter(Sched, "deferWrite", j, "deferred_oversized")
    BY <1>5, <1>7, <2>1 DEF FitDefer, DeferRead
  <2>2. CASE UNCHANGED procVars
    <3>1. \A q \in Proc : Stays(q)
      BY <2>2 DEF Stays, procVars
    <3>2. todo' \subseteq todo /\ UNCHANGED <<kids, rewires>> /\ pc' = pc
      BY <1>7, <2>2 DEF FitDefer, DeferRead, procVars
    <3>3. SweepInv' /\ TickInv'
      BY <1>2, <1>4, <3>2, TickWalks
    <3> QED
      BY <1>4, <3>1, <3>3, PendingKept DEF PendingInv
  <2> QED
    BY <1>7, <2>1, <2>2 DEF FitDefer, DeferRead
<1>8. CASE FitPromoteSteps(j)
  <2>1. /\ pc'[Sched] = "promoteList" /\ target'[Sched] = j
        /\ \A q \in Proc \ {Sched} : Stays(q)
    BY <1>8 DEF FitPromoteSteps, PromoteRead, LocalTypeOK, Stays
  <2>2. /\ todo' \subseteq released' /\ UNCHANGED <<kids, rewires>>
        /\ origin'[j].steps # <<>>
    BY <1>2, <1>4, <1>8 DEF FitPromoteSteps, PromoteRead, TableGrows, tableVars
  <2>3. Pending(Sched)'
    BY <1>3, <1>4, <2>1
       DEF Pending, TableGrows, HoldsReleased, ActiveLabel, RunLabel, PromoteLabel
  <2>4. SweepInv'
    BY <2>1 DEF SweepInv, SweepLabel
  <2>5. TickInv'
    BY <1>2, <2>1, <2>2 DEF TickInv, KidsLabel, RewireLabel
  <2> QED
    BY <1>4, <2>1, <2>3, <2>4, <2>5, PendingOne
<1>9. CASE FitRefused(j)
  <2>1. EndTick
    BY <1>9 DEF FitRefused
  <2>2. pc'[Sched] = "idle" /\ \A q \in Proc \ {Sched} : Stays(q)
    BY <2>1, ReturnMoves DEF Return
  <2> QED
    BY <1>4, <2>1, <2>2, TickEnded, PendingNothing, PendingOne
<1> QED
  BY <1>1, <1>6, <1>7, <1>8, <1>9

(* The last child of a promoted job, where there is one. *)
LEMMA LastKid ==
    ASSUME TypeOK, kids # <<>>
    PROVE  Len(kids) \in DOMAIN kids /\ kids[Len(kids)] \in JobId
<1>1. kids \in Seq(JobId)
  BY DEF TypeOK, QueueTypeOK, TickTypeOK
<1> QED
  BY <1>1, ElementOfSeq, EmptySeq, LenProperties

(* PromoteSteps. *)
LEMMA PromoteStep ==
    ASSUME DependencyInv, Promote
    PROVE  Parts'
<1> USE InvParts, SchedLabels DEF TypeOK, QueueTypeOK, Parts
<1> DEFINE p == target[Sched]
<1>1. pc[Sched] \in PromoteLabel
  BY DEF Promote, PromoteExisting, PromoteRefused, PromoteBegin, PromoteResolve,
         PromoteCreate, PromoteBlankStep, RewireList, RewireJob, PromoteMark,
         PromoteLabel, RewireLabel
<1>2. /\ p \in released /\ p \in Jobs /\ p \in JobId
      /\ origin[p].steps # <<>>
      /\ todo \subseteq released
  <2>1. p \in released
    BY <1>1 DEF PendingInv, Pending, HoldsReleased
  <2>2. p \in Jobs /\ p \in JobId
    BY <2>1, JobsInJobId DEF TableInv, HistoryInv
  <2>3. pc[Sched] \in TickLabel
    BY <1>1 DEF PromoteLabel, TickLabel, SchedLabel, SweepLabel
  <2> QED
    BY <1>1, <2>1, <2>2, <2>3 DEF TickInv
<1>3. ASSUME UNCHANGED tableVars, EndTick
      PROVE  Parts'
  <2>1. pc'[Sched] = "idle" /\ \A q \in Proc \ {Sched} : Stays(q)
    BY <1>3, ReturnMoves DEF Return
  <2> QED
    BY <1>3, <2>1, TableUnchanged, TickEnded, PendingNothing, PendingOne
<1>4. ASSUME TableInv', TableGrows, Leave(Sched, "fit"), todo' \subseteq todo,
             kids' = <<>>, rewires' = {}
      PROVE  Parts'
  <2>1. pc'[Sched] = "fit" /\ \A q \in Proc \ {Sched} : Stays(q)
    BY <1>4, LeaveMoves
  <2>2. SweepInv'
    BY <2>1 DEF SweepInv, SweepLabel
  <2>3. TickInv'
    BY <1>2, <1>4, <2>1 DEF TickInv, TableGrows, KidsLabel, RewireLabel, PromoteLabel
  <2> QED
    BY <1>4, <2>1, <2>2, <2>3, PendingNothing, PendingOne

<1>5. ASSUME TableInv', TableGrows, pc'[Sched] \in PromoteLabel,
             target'[Sched] = p, todo' = todo,
             \A q \in Proc \ {Sched} : Stays(q), TickInv'
      PROVE  Parts'
  <2>1. Pending(Sched)'
    BY <1>2, <1>5 DEF Pending, TableGrows, PromoteLabel, HoldsReleased
  <2>2. SweepInv'
    BY <1>5 DEF SweepInv, SweepLabel, PromoteLabel
  <2> QED
    BY <1>5, <2>1, <2>2, PendingOne
<1>6. ASSUME TableGrows, target'[Sched] = p, todo' = todo
      PROVE  /\ origin'[target'[Sched]].steps # <<>>
             /\ todo' \subseteq released'
  BY <1>2, <1>6 DEF TableGrows
<1>7. CASE PromoteExisting
  <2>1. TableInv' /\ TableGrows
    BY <1>7, TableUnchanged DEF PromoteExisting
  <2>2. kids = <<>> /\ rewires = {} /\ UNCHANGED <<todo, kids, rewires>>
    BY <1>7 DEF PromoteExisting, TickInv, KidsLabel, RewireLabel, tickVars
  <2>3. CASE Leave(Sched, "fit")
    BY <1>4, <2>1, <2>2, <2>3
  <2>4. CASE Goto(Sched, "promoteMark")
    <3>1. /\ pc'[Sched] = "promoteMark" /\ target'[Sched] = p
          /\ \A q \in Proc \ {Sched} : Stays(q)
      BY <2>4, GotoMoves
    <3>2. TickInv'
      BY <1>6, <2>1, <2>2, <3>1 DEF TickInv, KidsLabel, RewireLabel
    <3> QED
      BY <1>5, <2>1, <2>2, <3>1, <3>2 DEF PromoteLabel
  <2> QED
    BY <1>7, <2>3, <2>4 DEF PromoteExisting
<1>8. CASE PromoteRefused \/ PromoteBlankStep
  BY <1>3, <1>8 DEF PromoteRefused, PromoteBlankStep
<1>9. CASE PromoteBegin
  <2>1. TableInv' /\ TableGrows
    BY <1>9, TableUnchanged DEF PromoteBegin
  <2>2. kids = <<>> /\ rewires = {} /\ UNCHANGED <<todo, kids, rewires>>
    BY <1>9 DEF PromoteBegin, TickInv, KidsLabel, RewireLabel, tickVars
  <2>3. /\ pc'[Sched] = "promoteResolve" /\ target'[Sched] = p
        /\ \A q \in Proc \ {Sched} : Stays(q)
    BY <1>9, GotoMoves DEF PromoteBegin
  <2>4. TickInv'
    BY <1>6, <2>1, <2>2, <2>3 DEF TickInv, KidsLabel, RewireLabel
  <2> QED
    BY <1>5, <2>1, <2>2, <2>3, <2>4 DEF PromoteLabel
<1>10. CASE PromoteResolve
  <2>1. TableInv' /\ TableGrows /\ UNCHANGED tableVars
    BY <1>10, TableUnchanged DEF PromoteResolve
  <2>2. /\ pc'[Sched] = "promoteCreate" /\ target'[Sched] = p
        /\ verdict'[Sched] = ComputeStatus(StepDeps)
        /\ \A q \in Proc \ {Sched} : Stays(q)
    BY <1>10 DEF PromoteResolve, LocalTypeOK, Stays
  <2>3. UNCHANGED <<todo, kids, rewires, StepDeps>>
    BY <1>10 DEF PromoteResolve, tickVars, StepDeps
  <2>4. ComputeStatus(StepDeps) = "queued" => Elements(StepDeps) \subseteq succeeded
    <3> SUFFICES ASSUME ComputeStatus(StepDeps) = "queued", NEW i \in DOMAIN StepDeps
                 PROVE  StepDeps[i] \in succeeded
      BY DEF Elements
    <3>1. status[StepDeps[i]] = "succeeded"
      BY DEF ComputeStatus
    <3>2. StepDeps[i] \in JobId
      BY <1>10, JobsInJobId, ElementsMember DEF PromoteResolve, Resolvable
    <3> QED
      BY <3>1, <3>2 DEF TableInv, HistoryInv
  <2>5. rewires = {} /\ \A i \in DOMAIN kids : kids[i] \in Jobs /\ origin[kids[i]].parent = p
    BY <1>10 DEF PromoteResolve, TickInv, KidsLabel, RewireLabel
  <2>6. TickInv'
    <3>1. verdict'[Sched] \in Writable
      BY <2>2, ComputeStatusType DEF Writable
    <3>2. verdict'[Sched] = "queued" => Elements(StepDeps)' \subseteq succeeded'
      BY <2>1, <2>2, <2>3, <2>4 DEF tableVars, Elements
    <3>3. \A i \in DOMAIN kids' :
             kids'[i] \in Jobs' /\ origin'[kids'[i]].parent = target'[Sched]
      BY <2>1, <2>2, <2>3, <2>5 DEF tableVars, Jobs
    <3> QED
      BY <1>6, <2>1, <2>2, <2>3, <2>5, <3>1, <3>2, <3>3 DEF TickInv, KidsLabel, RewireLabel
  <2> QED
    BY <1>5, <2>1, <2>2, <2>3, <2>6 DEF PromoteLabel

<1>11. CASE PromoteCreate
  <2> DEFINE i == Len(kids) + 1
             o == [steps |-> <<>>, resumable |-> origin[p].resumable, parent |-> p, step |-> i]
  <2>1. /\ rewires = {} /\ verdict[Sched] \in Writable
        /\ verdict[Sched] = "queued" => Elements(StepDeps) \subseteq succeeded
        /\ \A k \in DOMAIN kids : kids[k] \in Jobs /\ origin[kids[k]].parent = p
    BY <1>11 DEF PromoteCreate, TickInv, KidsLabel, RewireLabel
  <2>2. kids \in Seq(JobId) /\ StepDeps \in Seq(JobId)
    BY StepDepsType DEF TickTypeOK
  <2>3. \A k \in DOMAIN StepDeps : StepDeps[k] \in Jobs /\ origin[StepDeps[k]].parent = p
    BY <2>1, LastKid DEF StepDeps
  <2>4. o \in Origin /\ o.parent = p /\ o.steps = <<>>
    <3>1. <<>> \in Seq(Prompt) /\ i \in Nat /\ origin[p].resumable \in BOOLEAN
      BY <1>2, <2>2 DEF StoreTypeOK, Origin
    <3> QED
      BY <1>2, <3>1, OriginType
  <2>5. origin[p].parent = NoJob
    BY <1>2 DEF TableInv, OrderInv, ParentBefore
  <2>6. CreateJob(StepDeps, o, i = 1 /\ convo[Sched], verdict[Sched])
    BY <1>11 DEF PromoteCreate
  <2>7. /\ TableInv' /\ TableGrows /\ WaitersKept
        /\ count + 1 \in Jobs' /\ origin'[count + 1] = o
    <3>1. Elements(StepDeps) \subseteq Jobs
      BY <2>3 DEF Elements
    <3>2. (i = 1 /\ convo[Sched]) \in BOOLEAN
      OBVIOUS
    <3> QED
      BY <1>2, <2>1, <2>2, <2>3, <2>4, <2>5, <2>6, <3>1, <3>2, CreateStep
  <2>8. PICK l \in {"rewireList", "promoteResolve"} : Goto(Sched, l)
    BY <1>11 DEF PromoteCreate
  <2>9. pc'[Sched] = l /\ target'[Sched] = p /\ \A q \in Proc \ {Sched} : Stays(q)
    BY <2>8, GotoMoves
  <2>10. /\ kids' \in Seq(JobId) /\ kids' # <<>>
         /\ \A k \in DOMAIN kids' : kids'[k] \in Jobs' /\ origin'[kids'[k]].parent = p
    <3>1. kids' = Append(kids, count + 1) /\ count + 1 \in JobId
      BY <1>11, <2>1, <2>2, <2>4, <2>6, CreateJobType DEF PromoteCreate, Writable, Status
    <3>2. /\ kids' \in Seq(JobId) /\ Len(kids') = Len(kids) + 1
          /\ \A k \in 1 .. Len(kids) : kids'[k] = kids[k]
          /\ kids'[Len(kids) + 1] = count + 1
      BY <2>2, <3>1, AppendProperties
    <3>3. Len(kids) \in Nat /\ DOMAIN kids = 1 .. Len(kids) /\ DOMAIN kids' = 1 .. Len(kids) + 1
      BY <2>2, <3>2, LenProperties
    <3> QED
      BY <2>1, <2>4, <2>7, <3>2, <3>3, EmptySeq DEF TableGrows
  <2>11. UNCHANGED <<todo, rewires>>
    BY <1>11 DEF PromoteCreate
  <2>12. TickInv'
    BY <1>6, <2>1, <2>7, <2>9, <2>10, <2>11 DEF TickInv, KidsLabel, RewireLabel
  <2> QED
    BY <1>5, <2>7, <2>9, <2>11, <2>12 DEF PromoteLabel
<1>12. CASE RewireList
  <2>1. TableInv' /\ TableGrows /\ UNCHANGED tableVars
    BY <1>12, TableUnchanged DEF RewireList
  <2>2. /\ pc'[Sched] = "rewire" /\ target'[Sched] = p
        /\ \A q \in Proc \ {Sched} : Stays(q)
    BY <1>12, GotoMoves DEF RewireList
  <2>3. /\ kids # <<>> /\ UNCHANGED <<todo, kids>>
        /\ \A i \in DOMAIN kids : kids[i] \in Jobs /\ origin[kids[i]].parent = p
    BY <1>12 DEF RewireList, TickInv, KidsLabel
  <2>4. \A j \in rewires' : /\ j \in Jobs \ released /\ listed'[j] = dependsOn[j]
                            /\ p \in Elements(dependsOn[j])
    BY <1>12, JobsInJobId DEF RewireList, InStatus, TableInv, HistoryInv
  <2>5. TickInv'
    <3>1. \A j \in rewires' : /\ j \in Jobs' \ released' /\ listed'[j] = dependsOn'[j]
                              /\ target'[Sched] \in Elements(dependsOn'[j])
      BY <2>1, <2>2, <2>4 DEF tableVars, Jobs
    <3>2. \A i \in DOMAIN kids' :
             kids'[i] \in Jobs' /\ origin'[kids'[i]].parent = target'[Sched]
      BY <2>1, <2>2, <2>3 DEF tableVars, Jobs
    <3>3. kids' # <<>>
      BY <2>3
    <3> QED
      BY <1>6, <2>1, <2>2, <2>3, <3>1, <3>2, <3>3
         DEF TickInv, KidsLabel, RewireLabel, Elements
  <2> QED
    BY <1>5, <2>1, <2>2, <2>3, <2>5 DEF PromoteLabel
<1>13. ASSUME NEW j \in rewires, RewireJob(j)
       PROVE  Parts'
  <2>1. /\ pc[Sched] \in RewireLabel /\ UNCHANGED <<procVars, todo, listed, kids>>
        /\ rewires' = rewires \ {j} /\ kids # <<>>
        /\ j \in Jobs \ released /\ j \in JobId /\ listed[j] = dependsOn[j]
        /\ p \in Elements(dependsOn[j])
        /\ \A i \in DOMAIN kids : kids[i] \in Jobs /\ origin[kids[i]].parent = p
    BY <1>13, JobsInJobId DEF RewireJob, TickInv, KidsLabel
  <2>2. PICK k : k = kids[Len(kids)]
    OBVIOUS
  <2>3. k \in Jobs /\ origin[k].parent = p
    BY <2>1, <2>2, LastKid
  <2>4. PICK ds : ds = Repoint(dependsOn[j], p, k)
    OBVIOUS
  <2>5. /\ DOMAIN ds = DOMAIN dependsOn[j]
        /\ \A i \in DOMAIN ds : ds[i] = IF dependsOn[j][i] = p THEN k ELSE dependsOn[j][i]
    BY <2>4 DEF Repoint
  <2>6. /\ \A i \in Jobs : dependsOn'[i] = IF i = j THEN ds ELSE dependsOn[i]
        /\ UNCHANGED <<count, status, origin, released, succeeded, Jobs>>
    <3>1. UpdateDependsOn(j, ds)
      BY <1>13, <2>1, <2>2, <2>4 DEF RewireJob
    <3> QED
      BY <2>1, <3>1, JobsInJobId DEF UpdateDependsOn, StoreTypeOK, Jobs
  <2>7. TableGrows
    BY <2>6 DEF TableGrows
  <2>8. TableInv'
    <3>1. DependencySafety'
      BY <2>1, <2>6 DEF TableInv, HistoryInv, DependencySafety, Elements
    <3>2. HistoryInv'
      BY <2>6 DEF TableInv, HistoryInv
    <3>3. \A d, i : Precedes(d, i)' <=> Precedes(d, i)
      BY <2>6 DEF Precedes, Root
    <3>4. Root(k) = p /\ Root(p) = p /\ origin[p].parent = NoJob
      BY <1>2, <2>3, Constants DEF Root, TableInv, OrderInv, ParentBefore, JobId, NoJob
    <3>5. Precedes(p, j)
      BY <2>1 DEF Elements, TableInv, OrderInv, DepsBefore
    <3>6. Precedes(k, j)
      BY <3>4, <3>5 DEF Precedes
    <3>7. DepsBefore(j)'
      <4> SUFFICES ASSUME NEW i \in DOMAIN ds, NEW d, d = ds[i]
                   PROVE  d \in Jobs /\ Precedes(d, j)
        BY <2>1, <2>6, <3>3 DEF DepsBefore
      <4> QED
        BY <2>1, <2>3, <2>5, <3>6 DEF TableInv, OrderInv, DepsBefore
    <3>8. ASSUME NEW i \in Jobs, i # j
          PROVE  DepsBefore(i)'
      <4> SUFFICES ASSUME NEW n \in DOMAIN dependsOn[i], NEW d, d = dependsOn[i][n]
                   PROVE  d \in Jobs /\ Precedes(d, i)
        BY <2>6, <3>3, <3>8 DEF DepsBefore
      <4> QED
        BY DEF TableInv, OrderInv, DepsBefore
    <3>9. OrderInv'
      BY <2>6, <3>7, <3>8 DEF TableInv, OrderInv, ParentBefore
    <3> QED
      BY <3>1, <3>2, <3>9 DEF TableInv
  <2>9. TickInv'
    <3>1. pc'[Sched] \in RewireLabel /\ target'[Sched] = p /\ todo' = todo /\ kids' = kids
      BY <2>1 DEF procVars
    <3>2. \A i \in rewires' : /\ i \in Jobs' \ released' /\ listed'[i] = dependsOn'[i]
                              /\ target'[Sched] \in Elements(dependsOn'[i])
      BY <2>1, <2>6, <3>1 DEF TickInv
    <3>3. \A i \in DOMAIN kids' :
             kids'[i] \in Jobs' /\ origin'[kids'[i]].parent = target'[Sched]
      BY <2>1, <2>6, <3>1
    <3> QED
      BY <1>6, <2>1, <2>7, <3>1, <3>2, <3>3 DEF TickInv, KidsLabel, RewireLabel, Elements
  <2>10. /\ \A q \in Proc \ {Sched} : Stays(q)
         /\ pc'[Sched] \in PromoteLabel /\ target'[Sched] = p /\ todo' = todo
    BY <1>1, <2>1 DEF Stays, procVars
  <2> QED
    BY <1>5, <2>7, <2>8, <2>9, <2>10
<1>14. CASE PromoteMark
  <2>1. TableInv' /\ TableGrows
    <3>1. UpdateStatus(p, "promoted")
      BY <1>14 DEF PromoteMark
    <3>2. "promoted" \in Status \ {"blocked"} /\ "promoted" \notin Dispatchable \cup {"running"}
      BY DEF Status, Dispatchable
    <3> QED
      BY <1>2, <3>1, <3>2, StatusStep
  <2>2. CASE pc[Sched] = "rewireFailed"
    <3>1. EndTick
      BY <1>14, <2>2 DEF PromoteMark
    <3>2. pc'[Sched] = "idle" /\ \A q \in Proc \ {Sched} : Stays(q)
      BY <3>1, ReturnMoves DEF Return
    <3> QED
      BY <2>1, <3>1, <3>2, TickEnded, PendingNothing, PendingOne
  <2>3. CASE pc[Sched] # "rewireFailed"
    <3>1. rewires = {}
      BY <1>14 DEF PromoteMark, TickInv, RewireLabel
    <3> QED
      BY <1>4, <1>14, <2>1, <2>3, <3>1 DEF PromoteMark
  <2> QED
    BY <2>2, <2>3
<1> QED
  BY <1>7, <1>8, <1>9, <1>10, <1>11, <1>12, <1>13, <1>14 DEF Promote

(* Failed statements and crashes. *)
LEMMA FaultStep ==
    ASSUME DependencyInv, (\E p \in Proc : StoreError(p)) \/ Crash
    PROVE  Parts'
<1> USE InvParts, SchedLabels DEF TypeOK, QueueTypeOK, Parts
<1>1. UNCHANGED tableVars
  BY DEF StoreError, Crash
<1>2. TableInv' /\ TableGrows /\ WaitersKept
  BY <1>1, TableUnchanged
<1>3. ASSUME pc'[Sched] \in SweepLabel, kids = <<>>, rewires = {},
             \A j \in todo' : j \in todo /\ j \in Jobs \ released /\ listed[j] = dependsOn[j],
             pc'[Sched] = "sweep", UNCHANGED <<listed, kids, rewires>>
      PROVE  SweepInv' /\ TickInv'
  BY <1>1, <1>3 DEF SweepInv, TickInv, SweepLabel, TickLabel, KidsLabel, RewireLabel,
                    PromoteLabel, tableVars, Jobs
<1>4. CASE Crash
  <2>1. \A q \in Proc : pc'[q] = "idle"
    BY <1>4 DEF Crash
  <2>2. PendingInv'
    BY <2>1, PendingNothing DEF PendingInv
  <2>3. SweepInv' /\ TickInv'
    BY <1>4, <2>1 DEF Crash, SweepInv, TickInv, SweepLabel, TickLabel, PromoteLabel,
                      RewireLabel, KidsLabel
  <2> QED
    BY <1>2, <2>2, <2>3
<1>5. ASSUME NEW p \in Proc, Return(p)
      PROVE  Parts'
  <2>1. pc'[p] = "idle" /\ \A q \in Proc \ {p} : Stays(q)
    BY <1>5, ReturnMoves
  <2>2. PendingInv'
    BY <1>2, <2>1, PendingNothing, PendingOne
  <2>3. CASE p = Sched
    BY <1>2, <1>5, <2>2, <2>3, TickEnded DEF Return
  <2>4. CASE p # Sched
    BY <1>2, <1>5, <2>1, <2>2, <2>4, TickKept DEF Return
  <2> QED
    BY <2>3, <2>4
<1>6. ASSUME NEW p \in Proc, pc[p] \in {"check", "finishSession", "finishStatus"},
             Goto(p, "unregister"), UNCHANGED tickVars
      PROVE  Parts'
  <2>1. /\ pc'[p] = "unregister" /\ target'[p] = target[p]
        /\ \A q \in Proc \ {p} : Stays(q)
    BY <1>6, GotoMoves
  <2>2. pc[p] \in ActiveLabel /\ target[p] \in released
    BY <1>6 DEF PendingInv, Pending, HoldsReleased, ActiveLabel, RunLabel
  <2>3. PendingInv'
    <3>1. Pending(p)'
      BY <1>2, <2>1, <2>2 DEF Pending, TableGrows
    <3> QED
      BY <1>2, <2>1, <3>1, PendingOne
  <2>4. CASE p = Sched
    <3>1. kids = <<>> /\ rewires = {} /\ todo \subseteq released
      BY <1>6, <2>4 DEF TickInv, KidsLabel, RewireLabel, TickLabel, SchedLabel, RunLabel,
                        SweepLabel
    <3> QED
      BY <1>2, <1>6, <2>1, <2>3, <2>4, <3>1, TickWalks DEF tickVars, ActiveLabel, RunLabel
  <2>5. CASE p # Sched
    BY <1>2, <1>6, <2>1, <2>3, <2>5, TickKept
  <2> QED
    BY <2>4, <2>5
<1>7. ASSUME pc[Sched] \in SweepLabel \cup {"idle"}, pc'[Sched] = "sweep",
             \A q \in Proc \ {Sched} : Stays(q), todo' \subseteq todo,
             UNCHANGED <<listed, kids, rewires>>
      PROVE  Parts'
  <2>1. kids = <<>> /\ rewires = {}
    BY <1>7 DEF TickInv, SweepLabel, KidsLabel, RewireLabel
  <2>2. \A j \in todo' : j \in todo /\ j \in Jobs \ released /\ listed[j] = dependsOn[j]
    BY <1>7 DEF SweepInv, SweepLabel
  <2>3. SweepInv' /\ TickInv'
    BY <1>3, <1>7, <2>1, <2>2 DEF SweepLabel
  <2>4. PendingInv'
    BY <1>2, <1>7, PendingNothing, PendingOne
  <2> QED
    BY <1>2, <2>3, <2>4
<1>8. ASSUME pc[Sched] \in {"rewireList"} \cup RewireLabel, Goto(Sched, "rewireFailed"),
             rewires' \subseteq rewires, UNCHANGED <<todo, listed, kids>>
      PROVE  Parts'
  <2>1. /\ pc'[Sched] = "rewireFailed" /\ target'[Sched] = target[Sched]
        /\ \A q \in Proc \ {Sched} : Stays(q)
    BY <1>8, GotoMoves
  <2>2. /\ target[Sched] \in released /\ origin[target[Sched]].steps # <<>>
        /\ todo \subseteq released /\ kids # <<>>
        /\ \A i \in DOMAIN kids :
              kids[i] \in Jobs /\ origin[kids[i]].parent = target[Sched]
    BY <1>8 DEF PendingInv, Pending, HoldsReleased, PromoteLabel, RewireLabel, TickInv,
                TickLabel, SchedLabel, SweepLabel, KidsLabel
  <2>3. PendingInv'
    <3>1. Pending(Sched)'
      BY <1>2, <2>1, <2>2 DEF Pending, TableGrows
    <3> QED
      BY <1>2, <2>1, <3>1, PendingOne
  <2>4. SweepInv'
    BY <2>1 DEF SweepInv, SweepLabel
  <2>5. TickInv'
    BY <1>1, <1>8, <2>1, <2>2 DEF TickInv, KidsLabel, RewireLabel, tableVars, Jobs, Elements
  <2> QED
    BY <1>2, <2>3, <2>4, <2>5
<1>9. ASSUME NEW p \in Proc, StoreError(p)
      PROVE  Parts'
  <2>1. CASE Return(p)
    BY <1>5, <2>1
  <2>2. CASE /\ pc[p] \in {"check", "finishSession", "finishStatus"}
             /\ Goto(p, "unregister") /\ UNCHANGED tickVars
    BY <1>6, <2>2
  <2>3. CASE /\ pc[p] \in {"sweepSession", "sweepStatus"}
             /\ Leave(p, "sweep") /\ UNCHANGED tickVars
    <3>1. p = Sched
      BY <2>3, SchedAt DEF ClientLabel, RunLabel
    <3> QED
      BY <1>7, <2>3, <3>1, LeaveMoves DEF SweepLabel, tickVars
  <2>4. CASE /\ pc[p] = "rewireList"
             /\ Goto(p, "rewireFailed") /\ UNCHANGED tickVars
    <3>1. p = Sched
      BY <2>4, SchedAt DEF ClientLabel, RunLabel
    <3> QED
      BY <1>8, <2>4, <3>1 DEF tickVars
  <2>5. CASE /\ pc[p] = "idle" /\ p = Sched
             /\ Goto(p, "sweep") /\ UNCHANGED tickVars
    BY <1>7, <2>5, GotoMoves DEF tickVars
  <2>6. CASE /\ pc[p] = "sweep"
             /\ \E j \in todo : todo' = todo \ {j}
             /\ UNCHANGED <<procVars, listed, kids, rewires>>
    <3>1. p = Sched
      BY <2>6, SchedAt DEF ClientLabel, RunLabel
    <3> QED
      BY <1>7, <2>6, <3>1 DEF SweepLabel, procVars, Stays
  <2>7. CASE /\ pc[p] \in RewireLabel
             /\ \E j \in rewires : rewires' = rewires \ {j}
             /\ Goto(p, "rewireFailed")
             /\ UNCHANGED <<todo, listed, kids>>
    <3>1. p = Sched
      BY <2>7, SchedAt DEF RewireLabel, ClientLabel, RunLabel
    <3> QED
      BY <1>8, <2>7, <3>1
  <2> QED
    BY <1>9, <2>1, <2>2, <2>3, <2>4, <2>5, <2>6, <2>7 DEF StoreError
<1> QED
  BY <1>4, <1>9

-----------------------------------------------------------------------------

LEMMA InvInit == Init => DependencyInv
<1> SUFFICES ASSUME Init PROVE DependencyInv
  OBVIOUS
<1> USE DEF Init, StoreInit, QueueInit
<1> DEFINE n == Len(InitialJobs)
<1>1. n \in Nat /\ n <= MaxJobs /\ DOMAIN InitialJobs = 1 .. n /\ Jobs = 1 .. n
  BY Constants DEF Jobs
<1>2. 1 .. n \subseteq JobId
  BY <1>1, Constants DEF JobId
<1>3. \A j \in 1 .. n :
         /\ dependsOn[j] = InitialJobs[j].deps
         /\ origin[j].parent = NoJob
         /\ status[j] = IF InitialJobs[j].deps = <<>> THEN "queued" ELSE "blocked"
  BY <1>1, <1>2
<1>4. DependencySafety
  BY <1>3 DEF DependencySafety, Elements
<1>5. HistoryInv
  <2>1. \A j \in JobId : j \notin 1 .. n => status[j] = "blocked"
    BY <1>1, Constants DEF JobId
  <2> QED
    BY <1>1, <1>2, <1>3, <2>1 DEF HistoryInv, Dispatchable
<1>6. PendingInv
  BY DEF PendingInv, Pending, HoldsReleased, ActiveLabel, RunLabel, PromoteLabel
<1>7. SweepInv
  BY SchedLabels DEF SweepInv, SweepLabel
<1>8. TickInv
  BY SchedLabels DEF TickInv, TickLabel, SchedLabel, KidsLabel, RewireLabel, PromoteLabel
<1>9. OrderInv
  <2> SUFFICES ASSUME NEW j \in 1 .. n PROVE DepsBefore(j) /\ ParentBefore(j)
    BY <1>1 DEF OrderInv
  <2>1. ParentBefore(j)
    BY <1>3 DEF ParentBefore
  <2>2. DepsBefore(j)
    <3> SUFFICES ASSUME NEW i \in DOMAIN dependsOn[j], NEW d, d = dependsOn[j][i]
                 PROVE  d \in Jobs /\ Precedes(d, j)
      BY DEF DepsBefore
    <3>1. dependsOn[j] = InitialJobs[j].deps /\ d < j
      BY <1>1, <1>3, Constants
    <3>2. d \in JobId
      BY <1>2, InitType, ElementOfSeq DEF TypeOK, StoreTypeOK
    <3>3. d \in 1 .. n
      BY <1>1, <3>1, <3>2, Constants DEF JobId
    <3> QED
      BY <1>1, <1>3, <3>1, <3>3 DEF Precedes, Root
  <2> QED
    BY <2>1, <2>2
<1> QED
  BY <1>4, <1>5, <1>6, <1>7, <1>8, <1>9, InitType DEF DependencyInv

LEMMA InvNext == DependencyInv /\ [Next]_vars => DependencyInv'
<1> SUFFICES ASSUME DependencyInv, [Next]_vars PROVE DependencyInv'
  OBVIOUS
<1>1. TypeOK'
  BY TypeNext DEF DependencyInv
<1>2. ASSUME UNCHANGED <<tableVars, procVars, tickVars>>
      PROVE  Parts'
  <2>1. TableInv' /\ TableGrows /\ WaitersKept
    BY <1>2, TableUnchanged, InvParts DEF Parts
  <2>2. \A q \in Proc : Stays(q)
    BY <1>2 DEF Stays, procVars
  <2>3. PendingInv'
    BY <2>1, <2>2, PendingKept DEF DependencyInv, PendingInv
  <2>4. SweepInv' /\ TickInv'
    BY <1>2, <2>1, <2>2, TickKept, SchedLabels DEF DependencyInv
  <2> QED
    BY <2>1, <2>3, <2>4 DEF Parts
<1>3. Parts'
  <2>1. CASE SchedStep
    BY <2>1, SweepStep, TickStep, FitStep, PromoteStep DEF SchedStep
  <2>2. CASE HandleHalt \/ HandleResume \/ UNCHANGED vars
    BY <1>2, <2>2 DEF HandleHalt, HandleResume, Halt, Resume, vars
  <2> QED
    BY <2>1, <2>2, RequestStep, RunStep, FaultStep DEF Next
<1> QED
  BY <1>1, <1>3 DEF DependencyInv, Parts, TableInv

(* The inductive invariant holds. *)
THEOREM DependencyInvariant == Spec => []DependencyInv
<1>1. Init => DependencyInv
  BY InvInit
<1>2. DependencyInv /\ [Next]_vars => DependencyInv'
  BY InvNext
<1> QED
  BY <1>1, <1>2, PTL DEF Spec

(* No job is dispatchable, or runs, before every job it depends on has      *)
(* succeeded: whatever PromoteReady, Enqueue, PromoteSteps, Cancel and      *)
(* MarkRunning do between each other's reads and writes. *)
THEOREM DependenciesRespected == Spec => []DependencySafety
<1>1. DependencyInv => DependencySafety
  BY DEF DependencyInv
<1> QED
  BY <1>1, DependencyInvariant, PTL

-----------------------------------------------------------------------------
(***************************************************************************)
(* No jobs wait for each other in a circle: a consequence of the order of   *)
(* dependencies that DependencyInv keeps.                                   *)
(***************************************************************************)

(* A set of numbers has a least one. *)
LEMMA LeastNumber ==
    ASSUME NEW S \in SUBSET Nat, S # {}
    PROVE  \E m \in S : \A k \in S : m <= k
<1>1. PICK m \in S : \A k \in S : ~(<<k, m>> \in OpToRel(<, Nat))
  BY WFMin, NatLessThanWellFounded, Zenon
<1>2. ASSUME NEW k \in S
      PROVE  m <= k
  <2>1. <<k, m>> \in Nat \X Nat
    OBVIOUS
  <2>2. ~(k < m)
    BY <1>1, <2>1, Zenon DEF OpToRel
  <2>. QED
    BY <2>2
<1>. QED
  BY <1>2

(* Of the jobs of a set, take one of the earliest root, and among those the *)
(* first: what it waits for is earlier in the order, hence not in the set.  *)
LEMMA OrderHasNoCircles ==
    ASSUME TypeOK, OrderInv
    PROVE  NoCircularWait
<1> SUFFICES ASSUME NEW S \in SUBSET Jobs, S # {}
             PROVE  \E j \in S : Elements(dependsOn[j]) \cap S = {}
  BY DEF NoCircularWait
<1> DEFINE Roots == {Root(j) : j \in S}
<1>1. Roots \in SUBSET Nat /\ Roots # {}
  BY RootBelow
<1> HIDE DEF Roots
<1>2. PICK r \in Roots : \A k \in Roots : r <= k
  BY <1>1, LeastNumber
<1> DEFINE Ofr == {j \in S : Root(j) = r}
<1>3. Ofr \in SUBSET Nat /\ Ofr # {}
  BY RootBelow DEF Roots
<1> HIDE DEF Ofr
<1>4. PICK j \in Ofr : \A k \in Ofr : j <= k
  BY <1>3, LeastNumber
<1>5. j \in S /\ j \in Jobs /\ Root(j) = r
  BY DEF Ofr
<1>6. ASSUME NEW d \in Elements(dependsOn[j]), d \in S
      PROVE  FALSE
  <2>1. Precedes(d, j)
    BY <1>5, <1>6 DEF OrderInv, DepsBefore, Elements
  <2>2. d \in Jobs /\ Root(d) \in Nat /\ Root(d) \in Roots
    BY <1>6, RootBelow DEF Roots
  <2>3. r \in Nat /\ r <= Root(d)
    BY <1>1, <1>2, <2>2
  <2>4. CASE Root(d) < Root(j)
    BY <1>5, <2>2, <2>3, <2>4
  <2>5. CASE /\ origin[d].parent # NoJob
             /\ origin[d].parent = origin[j].parent
             /\ d < j
    <3>1. Root(d) = r
      BY <1>5, <2>5 DEF Root
    <3>2. d \in Ofr
      BY <1>6, <3>1 DEF Ofr
    <3>3. j <= d /\ j \in Nat /\ d \in Nat
      BY <1>3, <1>4, <3>2
    <3> QED
      BY <2>5, <3>3
  <2> QED
    BY <2>1, <2>4, <2>5 DEF Precedes
<1> QED
  BY <1>5, <1>6

(* Repointing dependents at the last step of a promoted job never closes a  *)
(* circle of jobs that wait for each other (rewireDependents). *)
THEOREM NobodyWaitsInCircles == Spec => []NoCircularWait
<1>1. DependencyInv => NoCircularWait
  BY OrderHasNoCircles DEF DependencyInv
<1> QED
  BY <1>1, DependencyInvariant, PTL

-----------------------------------------------------------------------------
(***************************************************************************)
(* The daemon implements Precedence: every step maps to a step of           *)
(* Precedence or to a stutter, in the states that DependencyInv describes.  *)
(***************************************************************************)

(* A step of the daemon, seen as Precedence sees it. *)
OrderStep == [P!OrderNext]_(P!orderVars)

(* What Precedence sees of the table is unchanged. *)
LEMMA OrderStutter ==
    ASSUME UNCHANGED <<count, dependsOn, origin, released, succeeded>>
    PROVE  OrderStep
BY DEF OrderStep, P!orderVars, Jobs, Needs, Wholes, Elements

LEMMA TableStutter ==
    ASSUME UNCHANGED tableVars
    PROVE  OrderStep
BY OrderStutter DEF tableVars

(* A status is written: the job opens, finishes, or neither. *)
LEMMA StatusOrder ==
    ASSUME TypeOK, NEW j \in Jobs, NEW s, UpdateStatus(j, s),
           s = "succeeded" => j \in released,
           \/ s \notin Dispatchable \cup {"running"}
           \/ j \in released
           \/ Elements(dependsOn[j]) \subseteq succeeded
    PROVE  OrderStep
<1>1. UNCHANGED <<count, dependsOn, origin, Jobs, Needs, Wholes>>
  BY DEF UpdateStatus, Jobs, Needs, Wholes, Elements
<1>2. j \in JobId /\ Needs[j] = Elements(dependsOn[j])
  BY JobsInJobId DEF TypeOK, StoreTypeOK, Needs
<1>3. CASE s = "succeeded"
  <2>1. succeeded' = succeeded \cup {j} /\ released' = released
    BY <1>3 DEF UpdateStatus, Remember, Dispatchable
  <2>2. P!Finish(j)
    BY <1>1, <1>3, <2>1 DEF P!Finish
  <2> QED
    BY <2>2 DEF OrderStep, P!OrderNext
<1>4. CASE s # "succeeded" /\ (s \notin Dispatchable \cup {"running"} \/ j \in released)
  <2>1. UNCHANGED <<released, succeeded>>
    BY <1>4 DEF UpdateStatus, Remember
  <2> QED
    BY <1>1, <2>1, OrderStutter
<1>5. CASE /\ s \in Dispatchable \cup {"running"} /\ j \notin released
           /\ Elements(dependsOn[j]) \subseteq succeeded
  <2>1. released' = released \cup {j} /\ succeeded' = succeeded
    BY <1>5 DEF UpdateStatus, Remember, Dispatchable
  <2>2. P!Open(j)
    BY <1>1, <1>2, <1>5, <2>1 DEF P!Open
  <2> QED
    BY <2>2 DEF OrderStep, P!OrderNext
<1> QED
  BY <1>3, <1>4, <1>5

(* A row is inserted. *)
LEMMA CreateOrder ==
    ASSUME TypeOK, NEW ds \in Seq(JobId), NEW o \in Origin, NEW h, NEW s \in Writable,
           CreateJob(ds, o, h, s),
           Elements(ds) \subseteq Jobs,
           s = "queued" => Elements(ds) \subseteq succeeded,
           \/ o.parent = NoJob
           \/ /\ o.parent \in released
              /\ origin[o.parent].parent = NoJob
              /\ \A d \in Elements(ds) : origin[d].parent = o.parent
    PROVE  OrderStep
<1> DEFINE j == count + 1  E == Elements(ds)  w == o.parent
<1>1. j \in JobId \ Jobs /\ Jobs' = Jobs \cup {j}
  <2>1. count \in Nat /\ count < MaxJobs /\ count' = count + 1
    BY Constants DEF TypeOK, StoreTypeOK, CreateJob
  <2>2. 1 .. (count + 1) = (1 .. count) \cup {count + 1}
    BY <2>1
  <2> QED
    BY <2>1, <2>2, Constants DEF Jobs, JobId
<1>2. /\ dependsOn \in [JobId -> Seq(JobId)] /\ origin \in [JobId -> Origin]
      /\ Jobs \subseteq JobId /\ released \subseteq JobId
  BY JobsInJobId DEF TypeOK, StoreTypeOK
<1>3. Needs' = [Needs EXCEPT ![j] = E]
  BY <1>1, <1>2 DEF CreateJob, Needs
<1>4. Wholes' = [Wholes EXCEPT ![j] = w]
  BY <1>1, <1>2 DEF CreateJob, Wholes
<1>5. /\ succeeded' = succeeded
      /\ released' = IF s = "queued" THEN released \cup {j} ELSE released
  BY DEF CreateJob, Remember, Writable, Dispatchable
<1>6. /\ w \in released \cup {NoJob}
      /\ P!MayJoin(w, E)
  <2>1. w # NoJob => w \in released /\ Wholes[w] = NoJob
    BY <1>2 DEF Wholes
  <2>2. w # NoJob => \A d \in E : Wholes[d] = w
    BY <1>2 DEF Wholes
  <2> QED
    BY <2>1, <2>2 DEF P!MayJoin
<1>7. E \in SUBSET Jobs
  OBVIOUS
<1>8. P!Accept(j)
  BY <1>1, <1>3, <1>4, <1>5, <1>6, <1>7 DEF P!Accept
<1> QED
  BY <1>1, <1>8 DEF OrderStep, P!OrderNext

-----------------------------------------------------------------------------

(* Only an empty list has no elements. *)
LEMMA NoElements ==
    ASSUME NEW ds \in Seq(JobId)
    PROVE  Elements(ds) = {} <=> ds = <<>>
<1>1. ASSUME ds # <<>> PROVE 1 \in DOMAIN ds
  BY <1>1, EmptySeq, LenProperties
<1>2. ds = <<>> => DOMAIN ds = {}
  BY LenProperties
<1> QED
  BY <1>1, <1>2 DEF Elements

LEMMA OrderInitially == Init => P!OrderInit
<1> SUFFICES ASSUME Init PROVE P!OrderInit
  OBVIOUS
<1> DEFINE n == Len(InitialJobs)
<1>1. /\ DependencyInv /\ Jobs \subseteq JobId
      /\ dependsOn \in [JobId -> Seq(JobId)]
      /\ \A j \in Jobs : DepsBefore(j)
  BY InvInit, JobsInJobId DEF DependencyInv, TypeOK, StoreTypeOK, OrderInv
<1>2. /\ n \in Nat /\ Jobs = 1 .. n /\ DOMAIN InitialJobs = 1 .. n
      /\ \A j \in JobId : origin[j].parent = NoJob
      /\ \A j \in JobId : dependsOn[j] = IF j <= n THEN InitialJobs[j].deps ELSE <<>>
      /\ released = {j \in 1 .. n : InitialJobs[j].deps = <<>>}
      /\ succeeded = {}
  BY Constants DEF Init, StoreInit, NoOrigin, Jobs
<1>. HIDE DEF n
<1>7. /\ \A j \in Jobs : dependsOn[j] = InitialJobs[j].deps
      /\ \A j \in JobId : j \notin Jobs => dependsOn[j] = <<>>
  BY <1>1, <1>2, Constants DEF JobId
<1>3. Needs \in [JobId -> SUBSET Jobs]
  <2>1. ASSUME NEW j \in JobId PROVE Elements(dependsOn[j]) \in SUBSET Jobs
    <3>1. CASE j \in Jobs
      BY <1>1, <3>1 DEF Elements, DepsBefore
    <3>2. CASE j \notin Jobs
      <4>1. dependsOn[j] = <<>>
        BY <1>7, <3>2
      <4>2. dependsOn[j] \in Seq(JobId)
        BY <1>1
      <4>3. Elements(dependsOn[j]) = {}
        BY <4>1, <4>2, NoElements
      <4> QED
        BY <4>3
    <3> QED
      BY <3>1, <3>2
  <2> QED
    BY <2>1 DEF Needs
<1>4. \A j \in Jobs : \A d \in Needs[j] : d < j
  <2>1. ASSUME NEW j \in Jobs, NEW i \in DOMAIN dependsOn[j]
        PROVE  dependsOn[j][i] < j
    BY <1>2, <1>7, Constants
  <2>2. \A j \in Jobs : Needs[j] = {dependsOn[j][i] : i \in DOMAIN dependsOn[j]}
    BY <1>1 DEF Needs, Elements
  <2> QED
    BY <2>1, <2>2
<1>5. Wholes = [j \in JobId |-> NoJob]
  BY <1>2 DEF Wholes
<1>6. released = {j \in Jobs : Needs[j] = {}}
  <2>1. ASSUME NEW j \in Jobs PROVE Needs[j] = {} <=> InitialJobs[j].deps = <<>>
    <3>1. Needs[j] = Elements(dependsOn[j]) /\ dependsOn[j] \in Seq(JobId)
      BY <1>1 DEF Needs
    <3>2. Elements(dependsOn[j]) = {} <=> dependsOn[j] = <<>>
      BY <3>1, NoElements
    <3> QED
      BY <1>7, <3>1, <3>2
  <2> QED
    BY <1>2, <2>1
<1> QED
  BY <1>1, <1>2, <1>3, <1>4, <1>5, <1>6 DEF P!OrderInit

(* A run marks its job running, which was open already, and may finish it.  *)
LEMMA RunOrder ==
    ASSUME DependencyInv, NEW p \in Proc, Run(p) \/ EndRun(p)
    PROVE  OrderStep
<1>1. CASE MarkWrite(p) \/ FinishHalted(p) \/ FinishStatus(p)
  <2>1. target[p] \in released /\ target[p] \in Jobs
    BY <1>1 DEF MarkWrite, FinishHalted, FinishStatus, DependencyInv, PendingInv, Pending,
                HistoryInv, HoldsReleased, ActiveLabel, RunLabel
  <2>2. UpdateStatus(target[p], verdict[p])
    BY <1>1 DEF MarkWrite, FinishHalted, FinishStatus
  <2> QED
    BY <2>1, <2>2, StatusOrder DEF DependencyInv
<1>2. CASE FinishSession(p)
  BY <1>2, OrderStutter DEF FinishSession, UpdateSessionID
<1>3. CASE UNCHANGED tableVars
  BY <1>3, TableStutter
<1> QED
  BY <1>1, <1>2, <1>3 DEF Run, EndRun, RefuseHalted, Register, RefuseExhausted,
       StartFails, StartRun, Unregister, RunError, RunResult

LEMMA RequestOrder ==
    ASSUME DependencyInv, NEW c \in Clients,
           HandleCreateJob(c) \/ HandleCancelJob(c) \/ HandleDispatchJob(c) \/ Respond(c)
    PROVE  OrderStep
<1>1. c \in Proc /\ Pending(c)
  BY DEF Proc, DependencyInv, PendingInv
<1>2. CASE HandleCreateJob(c) \/ HandleCancelJob(c) \/ HandleDispatchJob(c)
  BY <1>2, TableStutter DEF HandleCreateJob, EnqueueResolve, HandleCancelJob, CancelRead,
                            HandleDispatchJob
<1>3. CASE EnqueueCreate(c)
  <2> DEFINE o == [steps |-> wish[c].job.steps, resumable |-> wish[c].job.resumable,
                   parent |-> NoJob, step |-> 0]
  <2>1. wish[c] \in [deps : Seq(JobId), job : Template]
    BY <1>1 DEF DependencyInv, TypeOK, QueueTypeOK, LocalTypeOK
  <2>2. o \in Origin /\ o.parent = NoJob
    BY <2>1, OriginType DEF Template
  <2>3. /\ verdict[c] \in Writable /\ Elements(wish[c].deps) \subseteq Jobs
        /\ verdict[c] = "queued" => Elements(wish[c].deps) \subseteq succeeded
        /\ CreateJob(wish[c].deps, o, FALSE, verdict[c])
    BY <1>1, <1>3 DEF EnqueueCreate, Pending
  <2> QED
    BY <2>1, <2>2, <2>3, CreateOrder DEF DependencyInv
<1>4. CASE CancelWrite(c)
  <2>1. target[c] \in Jobs /\ UpdateStatus(target[c], "cancelled")
    BY <1>1, <1>4 DEF CancelWrite, Pending
  <2>2. "cancelled" \notin Dispatchable \cup {"running", "succeeded"}
    BY DEF Dispatchable
  <2> QED
    BY <2>1, <2>2, StatusOrder DEF DependencyInv
<1> QED
  BY <1>2, <1>3, <1>4 DEF Respond

(* The sweep opens a job whose dependencies have succeeded. *)
LEMMA SweepOrder ==
    ASSUME DependencyInv, Sweep
    PROVE  OrderStep
<1>1. CASE SweepStatus
  <2>1. /\ target[Sched] \in Jobs /\ verdict[Sched] \in {"queued", "cancelled"}
        /\ verdict[Sched] = "queued" => Elements(dependsOn[target[Sched]]) \subseteq succeeded
        /\ UpdateStatus(target[Sched], verdict[Sched])
    BY <1>1 DEF SweepStatus, DependencyInv, SweepInv, SweepLabel
  <2> QED
    BY <2>1, StatusOrder DEF DependencyInv, Dispatchable
<1>2. CASE SweepSession
  BY <1>2, OrderStutter DEF SweepSession, UpdateSessionID
<1>3. CASE UNCHANGED tableVars
  BY <1>3, TableStutter
<1> QED
  BY <1>1, <1>2, <1>3 DEF Sweep, SweepList, SweepPass, SweepResolve

(* PromoteSteps accepts parts of an open job, and repoints what waits for it*)
(* at the last of them. *)
LEMMA PromoteOrder ==
    ASSUME DependencyInv, Promote
    PROVE  OrderStep
<1> DEFINE p == target[Sched]
<1>1. pc[Sched] \in PromoteLabel
  BY DEF Promote, PromoteExisting, PromoteRefused, PromoteBegin, PromoteResolve,
         PromoteCreate, PromoteBlankStep, RewireList, RewireJob, PromoteMark,
         PromoteLabel, RewireLabel
<1>2. /\ p \in released /\ p \in Jobs /\ p \in JobId
      /\ origin[p].steps # <<>> /\ origin[p].parent = NoJob /\ origin[p] \in Origin
  <2>1. p \in released /\ p \in Jobs /\ p \in JobId /\ origin[p].steps # <<>>
    BY <1>1, JobsInJobId, SchedLabels
       DEF DependencyInv, TypeOK, PendingInv, Pending, HoldsReleased, HistoryInv, TickInv
  <2> QED
    BY <2>1 DEF DependencyInv, TypeOK, StoreTypeOK, OrderInv, ParentBefore
<1>3. CASE PromoteCreate
  <2> DEFINE i == Len(kids) + 1
             o == [steps |-> <<>>, resumable |-> origin[p].resumable, parent |-> p, step |-> i]
  <2>1. /\ verdict[Sched] \in Writable
        /\ verdict[Sched] = "queued" => Elements(StepDeps) \subseteq succeeded
        /\ \A k \in DOMAIN kids : kids[k] \in Jobs /\ origin[kids[k]].parent = p
    BY <1>3 DEF PromoteCreate, DependencyInv, TickInv, KidsLabel
  <2>2. kids \in Seq(JobId) /\ StepDeps \in Seq(JobId)
    BY StepDepsType DEF DependencyInv, TypeOK, QueueTypeOK, TickTypeOK
  <2>3. \A d \in Elements(StepDeps) : d \in Jobs /\ origin[d].parent = p
    BY <2>1, LastKid DEF StepDeps, Elements, DependencyInv
  <2>4. o \in Origin /\ o.parent = p
    <3>1. <<>> \in Seq(Prompt) /\ i \in Nat /\ origin[p].resumable \in BOOLEAN
      BY <1>2, <2>2 DEF Origin
    <3> QED
      BY <1>2, <3>1, OriginType
  <2>5. CreateJob(StepDeps, o, i = 1 /\ convo[Sched], verdict[Sched])
    BY <1>3 DEF PromoteCreate
  <2> QED
    BY <1>2, <2>1, <2>2, <2>3, <2>4, <2>5, CreateOrder DEF DependencyInv
<1>4. ASSUME NEW j \in rewires, RewireJob(j)
      PROVE  OrderStep
  <2>1. /\ j \in Jobs \ released /\ j \in JobId /\ kids # <<>>
        /\ listed[j] = dependsOn[j] /\ p \in Elements(dependsOn[j])
        /\ \A i \in DOMAIN kids : kids[i] \in Jobs /\ origin[kids[i]].parent = p
    BY <1>4, JobsInJobId DEF RewireJob, DependencyInv, TickInv, KidsLabel, TypeOK
  <2>2. PICK q : q = kids[Len(kids)]
    OBVIOUS
  <2>3. q \in Jobs /\ q \in JobId /\ Wholes[q] = p
    BY <2>1, <2>2, LastKid, JobsInJobId DEF Wholes, DependencyInv, TypeOK
  <2>4. PICK ds : ds = Repoint(dependsOn[j], p, q)
    OBVIOUS
  <2>5. Elements(ds) = (Elements(dependsOn[j]) \ {p}) \cup {q}
    BY <2>1, <2>4 DEF Repoint, Elements
  <2>6. UpdateDependsOn(j, ds)
    BY <1>4, <2>1, <2>2, <2>4 DEF RewireJob
  <2>7. Needs' = [Needs EXCEPT ![j] = (@ \ {p}) \cup {q}]
    <3>1. \A i \in JobId : dependsOn'[i] = IF i = j THEN ds ELSE dependsOn[i]
      BY <2>1, <2>6 DEF UpdateDependsOn, DependencyInv, TypeOK, StoreTypeOK
    <3>2. \A i \in JobId : Needs'[i] = IF i = j THEN (Needs[i] \ {p}) \cup {q} ELSE Needs[i]
      BY <2>1, <2>5, <3>1 DEF Needs
    <3> QED
      BY <2>1, <3>2 DEF Needs
  <2>8. UNCHANGED <<Jobs, Wholes, released, succeeded>>
    BY <2>6 DEF UpdateDependsOn, Jobs, Wholes
  <2>9. p \in Needs[j]
    BY <2>1 DEF Needs
  <2>10. P!Replace(j, Wholes[q], q)
    BY <2>1, <2>3, <2>7, <2>8, <2>9 DEF P!Replace
  <2> QED
    BY <2>1, <2>3, <2>10 DEF OrderStep, P!OrderNext
<1>5. CASE PromoteMark
  <2>1. UpdateStatus(p, "promoted") /\ "promoted" \notin Dispatchable \cup {"running", "succeeded"}
    BY <1>5 DEF PromoteMark, Dispatchable
  <2> QED
    BY <1>2, <2>1, StatusOrder DEF DependencyInv
<1>6. CASE UNCHANGED tableVars
  BY <1>6, TableStutter
<1> QED
  BY <1>3, <1>4, <1>5, <1>6 DEF Promote, PromoteExisting, PromoteRefused, PromoteBegin,
       PromoteResolve, PromoteBlankStep, RewireList

(* A deferred job was open. *)
LEMMA TickOrder ==
    ASSUME DependencyInv,
           TickHold \/ TickAdmit \/ TickDone \/ Fit \/ Defer \/ DispatchOne \/ SchedMark
    PROVE  OrderStep
<1>1. CASE Defer
  <2>1. /\ target[Sched] \in released /\ target[Sched] \in Jobs
        /\ UpdateStatus(target[Sched], verdict[Sched])
    BY <1>1, SchedLabels DEF Defer, DeferWrite, DependencyInv, PendingInv, Pending, HoldsReleased, HistoryInv
  <2> QED
    BY <2>1, StatusOrder DEF DependencyInv
<1>2. CASE UNCHANGED tableVars
  BY <1>2, TableStutter
<1>3. Fit => UNCHANGED tableVars
  BY DEF Fit, FitDispatch, FitCapBudget, FitDefer, FitPromoteSteps, FitRefused, DeferRead,
         PromoteRead
<1> QED
  BY <1>1, <1>2, <1>3 DEF TickHold, TickAdmit, TickDone, DispatchOne, SchedMark, MarkRead

LEMMA OrderNextStep == DependencyInv /\ [Next]_vars => OrderStep
<1> SUFFICES ASSUME DependencyInv, [Next]_vars PROVE OrderStep
  OBVIOUS
<1>1. CASE SchedStep
  BY <1>1, SweepOrder, PromoteOrder, TickOrder DEF SchedStep
<1>2. CASE HandleHalt \/ HandleResume \/ UNCHANGED vars \/ Crash \/ \E p \in Proc : StoreError(p)
  BY <1>2, TableStutter DEF HandleHalt, HandleResume, Halt, Resume, vars, Crash, StoreError
<1> QED
  BY <1>1, <1>2, RequestOrder, RunOrder DEF Next

(* The daemon implements Precedence: jobs open, finish, are divided and     *)
(* repointed in the order the queue promises (Enqueue, PromoteReady,        *)
(* PromoteSteps, MarkRunning, Finish, Cancel), through failures and crashes.*)
THEOREM DaemonKeepsOrder == Spec => KeepsOrder
<1>1. Init => P!OrderInit
  BY OrderInitially
<1>2. DependencyInv /\ [Next]_vars => [P!OrderNext]_(P!orderVars)
  BY OrderNextStep DEF OrderStep
<1> QED
  BY <1>1, <1>2, DependencyInvariant, PTL DEF Spec, KeepsOrder, P!Order

-----------------------------------------------------------------------------
(***************************************************************************)
(* The kill switch reaches every run that has its job to itself, and lets   *)
(* none start.  The argument is about registrations only: HaltInv says      *)
(* whose cancel function a job's id maps to, and every step but those of    *)
(* the mutex's holders (Register, Unregister, Halt, Resume) and a crash     *)
(* leaves that alone.                                                       *)
(***************************************************************************)

(* Nobody enters a run, or exchanges the job it runs for another. *)
NoNewRun ==
    \A q \in Proc : pc'[q] \in RunLabel =>
        pc[q] \in RunLabel /\ target'[q] = target[q]

(* No run goes on by a statement; some may end. *)
RunsStay ==
    \A q \in Proc : pc'[q] \in RunLabel => pc'[q] = pc[q] /\ target'[q] = target[q]

(* Such a step keeps the registrations, if it leaves the dispatcher's own   *)
(* variables alone: a rival at its end was one before. *)
LEMMA NoNewRunKeeps ==
    ASSUME RegistrationInv, NoNewRun, UNCHANGED dispVars
    PROVE  RegistrationInv'
<1> SUFFICES ASSUME NEW p \in Proc, pc'[p] \in RunLabel, p \notin shared'
             PROVE  /\ running'[target'[p]] = p
                    /\ Rivals(p)' = {}
                    /\ halted' => p \in cancelled'
  BY DEF RegistrationInv
<1>1. pc[p] \in RunLabel /\ p \notin shared /\ target'[p] = target[p]
  BY DEF NoNewRun, dispVars
<1>2. Rivals(p)' \subseteq Rivals(p)
  BY <1>1 DEF NoNewRun, Rivals
<1> QED
  BY <1>1, <1>2 DEF RegistrationInv, dispVars

(* One goroutine moves, to a statement outside a run... *)
LEMMA MovesOutside ==
    ASSUME NEW p \in Proc, pc'[p] \notin RunLabel, \A q \in Proc \ {p} : Stays(q)
    PROVE  RunsStay /\ NoNewRun
BY DEF RunsStay, NoNewRun, Stays

(* ...or within the run it executes. *)
LEMMA MovesWithin ==
    ASSUME NEW p \in Proc, pc[p] \in RunLabel, target'[p] = target[p],
           \A q \in Proc \ {p} : Stays(q)
    PROVE  NoNewRun
BY DEF NoNewRun, Stays

(* The scheduler loop starts no run before it has registered it. *)
LEMMA SchedStartsNone ==
    ASSUME TypeOK, SchedStep
    PROVE  RunsStay
<1> USE DEF TypeOK, QueueTypeOK
<1>1. LocalTypeOK /\ Sched \in Proc
  BY SchedLabels
<1>2. CASE UNCHANGED procVars
  BY <1>2 DEF RunsStay, procVars
<1>3. ASSUME NEW l, l \notin RunLabel, Goto(Sched, l) \/ Leave(Sched, l)
      PROVE  RunsStay
  BY <1>1, <1>3, GotoMoves, LeaveMoves, MovesOutside
<1>4. ASSUME NEW l, l \notin RunLabel, NEW j, NEW s, Enter(Sched, l, j, s)
      PROVE  RunsStay
  BY <1>1, <1>4, EnterMoves, MovesOutside
<1>5. CASE EndTick
  BY <1>3, <1>5 DEF EndTick, RunLabel
<1>6. CASE Sweep
  <2>1. CASE SweepList \/ SweepSession \/ SweepStatus
    BY <1>3, <2>1 DEF SweepList, SweepSession, SweepStatus, RunLabel
  <2>2. ASSUME NEW j \in todo, SweepPass(j) \/ SweepResolve(j)
        PROVE  RunsStay
    BY <1>2, <1>4, <2>2 DEF SweepPass, SweepResolve, RunLabel
  <2> QED
    BY <1>6, <2>1, <2>2 DEF Sweep
<1>7. CASE TickHold \/ TickAdmit \/ TickDone \/ Defer
  BY <1>3, <1>5, <1>7 DEF TickHold, TickAdmit, TickDone, Defer, DeferWrite, RunLabel
<1>8. CASE Fit
  <2>1. ASSUME NEW j, PromoteRead(j)
        PROVE  RunsStay
    <3>1. pc'[Sched] = "promoteList" /\ \A q \in Proc \ {Sched} : Stays(q)
      BY <1>1, <2>1 DEF PromoteRead, LocalTypeOK, Stays
    <3> QED
      BY <1>1, <3>1, MovesOutside DEF RunLabel
  <2>2. ASSUME NEW j, DeferRead(j)
        PROVE  RunsStay
    BY <1>2, <1>4, <2>2 DEF DeferRead, RunLabel
  <2>3. ASSUME NEW j, FitDispatch(j)
        PROVE  RunsStay
    BY <1>4, <2>3 DEF FitDispatch, RunLabel
  <2> QED
    BY <1>5, <1>8, <2>1, <2>2, <2>3
       DEF Fit, FitCapBudget, FitDefer, FitPromoteSteps, FitRefused
<1>9. CASE Promote
  <2>1. CASE PromoteResolve
    <3>1. pc'[Sched] = "promoteCreate" /\ \A q \in Proc \ {Sched} : Stays(q)
      BY <1>1, <2>1 DEF PromoteResolve, LocalTypeOK, Stays
    <3> QED
      BY <1>1, <3>1, MovesOutside DEF RunLabel
  <2>2. CASE PromoteCreate
    <3>1. PICK l \in {"rewireList", "promoteResolve"} : Goto(Sched, l)
      BY <2>2 DEF PromoteCreate
    <3> QED
      BY <1>3, <3>1 DEF RunLabel
  <2>3. CASE PromoteExisting \/ PromoteRefused \/ PromoteBegin \/ PromoteBlankStep
    BY <1>3, <1>5, <2>3
       DEF PromoteExisting, PromoteRefused, PromoteBegin, PromoteBlankStep, RunLabel
  <2>4. CASE RewireList \/ (\E j \in rewires : RewireJob(j)) \/ PromoteMark
    BY <1>2, <1>3, <1>5, <2>4 DEF RewireList, RewireJob, PromoteMark, RunLabel
  <2> QED
    BY <1>9, <2>1, <2>2, <2>3, <2>4 DEF Promote
<1>10. CASE DispatchOne \/ SchedMark
  BY <1>3, <1>4, <1>5, <1>10 DEF DispatchOne, SchedMark, MarkRead, RunLabel
<1> QED
  BY <1>6, <1>7, <1>8, <1>9, <1>10 DEF SchedStep

(* Nor does a request, before its run has registered. *)
LEMMA RequestStartsNone ==
    ASSUME TypeOK, NEW c \in Clients,
           HandleCreateJob(c) \/ HandleCancelJob(c) \/ HandleDispatchJob(c) \/ Respond(c)
    PROVE  RunsStay
<1> USE DEF TypeOK, QueueTypeOK
<1>1. LocalTypeOK /\ c \in Proc
  BY SchedLabels
<1>2. CASE HandleCreateJob(c)
  <2>1. pc'[c] = "create" /\ \A q \in Proc \ {c} : Stays(q)
    BY <1>1, <1>2 DEF HandleCreateJob, EnqueueResolve, LocalTypeOK, Stays
  <2> QED
    BY <1>1, <2>1, MovesOutside DEF RunLabel
<1>3. CASE HandleCancelJob(c) \/ HandleDispatchJob(c)
  <2>1. PICK l, j, s : l \in {"cancel", "mark"} /\ Enter(c, l, j, s)
    BY <1>3 DEF HandleCancelJob, CancelRead, HandleDispatchJob, MarkRead
  <2> QED
    BY <1>1, <2>1, EnterMoves, MovesOutside DEF RunLabel
<1>4. CASE Respond(c)
  <2>1. Leave(c, "idle")
    BY <1>4 DEF Respond, EnqueueCreate, CancelWrite
  <2> QED
    BY <1>1, <2>1, LeaveMoves, MovesOutside DEF RunLabel
<1> QED
  BY <1>2, <1>3, <1>4

(* A run registers once and is in the dispatcher's hands until it has       *)
(* deleted its registration. *)
LEMMA RunKeepsRegistration ==
    ASSUME HaltInv, NEW p \in Proc, Run(p) \/ EndRun(p)
    PROVE  RegistrationInv'
<1> USE DEF HaltInv, TypeOK, QueueTypeOK
<1>1. LocalTypeOK /\ (pc[p] \in RunLabel \cup {"register"} => target[p] \in JobId)
  BY DEF LocalTypeOK, RunLabel, NoTargetLabel
<1>2. CASE (MarkWrite(p) /\ UNCHANGED dispVars) \/ RefuseHalted(p) \/ FinishHalted(p)
  <2>1. pc'[p] \notin RunLabel /\ \A q \in Proc \ {p} : Stays(q)
    BY <1>1, <1>2, GotoMoves, EnterMoves, ReturnMoves
       DEF MarkWrite, RefuseHalted, FinishHalted, RunLabel
  <2>2. UNCHANGED dispVars
    BY <1>2 DEF RefuseHalted, FinishHalted
  <2> QED
    BY <2>1, <2>2, MovesOutside, NoNewRunKeeps
<1>3. CASE \/ RefuseExhausted(p) \/ StartFails(p) \/ StartRun(p) \/ EndRun(p)
           \/ (FinishSession(p) /\ UNCHANGED dispVars)
           \/ (FinishStatus(p) /\ UNCHANGED dispVars)
  <2>1. pc[p] \in RunLabel /\ UNCHANGED dispVars
    BY <1>3 DEF RefuseExhausted, StartFails, StartRun, EndRun, RunError, RunResult,
                FinishSession, FinishStatus, RunLabel
  <2>2. target'[p] = target[p] /\ \A q \in Proc \ {p} : Stays(q)
    BY <1>1, <1>3, GotoMoves, EnterMoves
       DEF RefuseExhausted, StartFails, StartRun, EndRun, RunError, RunResult,
           FinishSession, FinishStatus
  <2> QED
    BY <2>1, <2>2, MovesWithin, NoNewRunKeeps
<1>4. CASE Register(p)
  <2>1. /\ pc'[p] = "check" /\ target'[p] = target[p]
        /\ \A q \in Proc \ {p} : Stays(q)
    BY <1>1, <1>4, GotoMoves DEF Register
  <2>2. /\ pc[p] = "register" /\ target[p] \in JobId /\ ~halted'
        /\ shared' = IF Rivals(p) = {} THEN shared \ {p} ELSE shared \cup Rivals(p) \cup {p}
        /\ \A j \in JobId : running'[j] = IF j = target[p] THEN p ELSE running[j]
    BY <1>1, <1>4 DEF Register, DispatcherTypeOK
  <2>3. pc[p] \notin RunLabel
    BY <2>2 DEF RunLabel
  <2> SUFFICES ASSUME NEW q \in Proc, pc'[q] \in RunLabel, q \notin shared'
               PROVE  running'[target'[q]] = q /\ Rivals(q)' = {}
    BY <2>2 DEF RegistrationInv
  <2>4. CASE q = p
    BY <2>1, <2>2, <2>4 DEF Rivals, Stays
  <2>5. CASE q # p
    <3>1. pc[q] \in RunLabel /\ target'[q] = target[q] /\ target[q] \in JobId
      BY <1>1, <2>1, <2>5 DEF Stays, LocalTypeOK, RunLabel, NoTargetLabel
    <3>2. q \notin Rivals(p) /\ q \notin shared
      BY <2>2, <2>5
    <3>3. target[q] # target[p]
      BY <2>5, <3>1, <3>2 DEF Rivals
    <3>4. running[target[q]] = q /\ Rivals(q) = {}
      BY <3>1, <3>2 DEF RegistrationInv
    <3>5. Rivals(q)' = {}
      BY <2>1, <3>1, <3>3, <3>4 DEF Rivals, Stays
    <3> QED
      BY <2>2, <3>1, <3>3, <3>4, <3>5
  <2> QED
    BY <2>4, <2>5
<1>5. CASE Unregister(p)
  <2>1. pc'[p] \notin RunLabel /\ \A q \in Proc \ {p} : Stays(q)
    BY <1>1, <1>5, ReturnMoves DEF Unregister, RunLabel
  <2>2. /\ pc[p] \in RunLabel /\ target[p] \in JobId /\ halted' = halted
        /\ cancelled' = cancelled \ {p} /\ shared' = shared \ {p}
        /\ \A j \in JobId : running'[j] = IF j = target[p] THEN None ELSE running[j]
    BY <1>1, <1>5 DEF Unregister, DispatcherTypeOK, RunLabel
  <2> SUFFICES ASSUME NEW q \in Proc, pc'[q] \in RunLabel, q \notin shared'
               PROVE  running'[target'[q]] = q /\ Rivals(q)' = {} /\ (halted' => q \in cancelled')
    BY DEF RegistrationInv
  <2>3. /\ q # p /\ q \notin shared /\ pc[q] \in RunLabel
        /\ target'[q] = target[q] /\ target[q] \in JobId
    BY <1>1, <2>1, <2>2 DEF Stays, LocalTypeOK, RunLabel, NoTargetLabel
  <2>4. running[target[q]] = q /\ Rivals(q) = {} /\ (halted => q \in cancelled)
    BY <2>3 DEF RegistrationInv
  <2>5. target[q] # target[p]
    BY <2>2, <2>3, <2>4 DEF Rivals
  <2>6. Rivals(q)' = {}
    BY <2>1, <2>3, <2>4 DEF Rivals, Stays
  <2> QED
    BY <2>2, <2>3, <2>4, <2>5, <2>6
<1> QED
  BY <1>2, <1>3, <1>4, <1>5 DEF Run

(* A failed statement takes a goroutine out of its operation, or on to the  *)
(* end of its run; a crash takes all of them. *)
LEMMA FaultKeepsRegistration ==
    ASSUME HaltInv, (\E p \in Proc : StoreError(p)) \/ Crash
    PROVE  RegistrationInv'
<1> USE DEF HaltInv, TypeOK, QueueTypeOK
<1>1. ASSUME NEW p \in Proc, StoreError(p)
      PROVE  RegistrationInv'
  <2>1. UNCHANGED dispVars /\ LocalTypeOK
    BY <1>1 DEF StoreError
  <2>2. CASE UNCHANGED procVars
    <3>1. NoNewRun
      BY <2>2 DEF NoNewRun, procVars
    <3> QED
      BY <2>1, <3>1, NoNewRunKeeps
  <2>3. ASSUME NEW l, l \notin RunLabel, Goto(p, l) \/ Leave(p, l) \/ Return(p)
        PROVE  RegistrationInv'
    <3>1. pc'[p] \notin RunLabel /\ \A q \in Proc \ {p} : Stays(q)
      BY <2>1, <2>3, GotoMoves, LeaveMoves, ReturnMoves DEF RunLabel
    <3> QED
      BY <2>1, <3>1, MovesOutside, NoNewRunKeeps
  <2>4. CASE pc[p] \in {"check", "finishSession", "finishStatus"} /\ Goto(p, "unregister")
    <3>1. pc[p] \in RunLabel /\ target'[p] = target[p] /\ \A q \in Proc \ {p} : Stays(q)
      BY <2>1, <2>4, GotoMoves DEF RunLabel
    <3> QED
      BY <2>1, <3>1, MovesWithin, NoNewRunKeeps
  <2> QED
    BY <1>1, <2>2, <2>3, <2>4 DEF StoreError, RunLabel
<1>2. CASE Crash
  BY <1>2 DEF Crash, RegistrationInv, RunLabel
<1> QED
  BY <1>1, <1>2

(* Every step keeps the registrations as Halt needs them. *)
LEMMA HaltInvNext == HaltInv /\ [Next]_vars => HaltInv'
<1> SUFFICES ASSUME HaltInv, [Next]_vars PROVE HaltInv'
  OBVIOUS
<1>1. TypeOK /\ TypeOK'
  BY TypeNext DEF HaltInv
<1>2. CASE SchedStep
  <2>1. UNCHANGED dispVars
    BY <1>2 DEF SchedStep, Sweep, TickHold, TickAdmit, TickDone, Fit, Defer, Promote,
                DispatchOne, SchedMark, SchedQuiet
  <2> QED
    BY <1>1, <1>2, <2>1, SchedStartsNone, NoNewRunKeeps DEF HaltInv, RunsStay, NoNewRun
<1>3. ASSUME NEW c \in Clients,
             HandleCreateJob(c) \/ HandleCancelJob(c) \/ HandleDispatchJob(c) \/ Respond(c)
      PROVE  HaltInv'
  <2>1. UNCHANGED dispVars
    BY <1>3 DEF HandleCreateJob, HandleCancelJob, HandleDispatchJob, Respond
  <2> QED
    BY <1>1, <1>3, <2>1, RequestStartsNone, NoNewRunKeeps DEF HaltInv, RunsStay, NoNewRun
<1>4. CASE HandleHalt \/ HandleResume
  <2>1. UNCHANGED <<running, shared, procVars>>
    BY <1>4 DEF HandleHalt, Halt, HandleResume, Resume
  <2>2. CASE HandleHalt
    <3>1. cancelled' = cancelled \cup Registered
      BY <2>2 DEF HandleHalt, Halt
    <3> SUFFICES ASSUME NEW p \in Proc, pc'[p] \in RunLabel, p \notin shared'
                 PROVE  running'[target'[p]] = p /\ Rivals(p)' = {} /\ p \in cancelled'
      BY <1>1 DEF HaltInv, RegistrationInv
    <3>2. /\ pc[p] \in RunLabel /\ p \notin shared /\ target'[p] = target[p]
          /\ running' = running /\ Rivals(p)' = Rivals(p)
      BY <2>1 DEF procVars, Rivals
    <3>3. running[target[p]] = p /\ Rivals(p) = {}
      BY <3>2 DEF HaltInv, RegistrationInv
    <3>4. target[p] \in JobId
      BY <1>1, <3>2 DEF TypeOK, QueueTypeOK, LocalTypeOK, RunLabel, NoTargetLabel
    <3> QED
      BY <3>1, <3>2, <3>3, <3>4 DEF Registered
  <2>3. CASE HandleResume
    BY <1>1, <2>1, <2>3 DEF HandleResume, Resume, HaltInv, RegistrationInv, procVars, Rivals
  <2> QED
    BY <1>4, <2>2, <2>3
<1>5. ASSUME NEW p \in Proc, Run(p) \/ EndRun(p)
      PROVE  HaltInv'
  BY <1>1, <1>5, RunKeepsRegistration DEF HaltInv
<1>6. CASE (\E p \in Proc : StoreError(p)) \/ Crash
  BY <1>1, <1>6, FaultKeepsRegistration DEF HaltInv
<1>7. CASE UNCHANGED vars
  <2>1. NoNewRun /\ UNCHANGED dispVars
    BY <1>7 DEF vars, procVars, NoNewRun
  <2> QED
    BY <1>1, <2>1, NoNewRunKeeps DEF HaltInv
<1> QED
  BY <1>2, <1>3, <1>4, <1>5, <1>6, <1>7 DEF Next

(* The registrations are as Halt needs them: a run that has its job to      *)
(* itself is the one its job's id maps to until it lets go of it, whatever  *)
(* is dispatched by hand, fails or dies (RunJob, Halt, Resume). *)
THEOREM HaltInvariant == Spec => []HaltInv
<1>1. Init => HaltInv
  BY InitType DEF HaltInv, RegistrationInv, Init, QueueInit, RunLabel
<1>2. HaltInv /\ [Next]_vars => HaltInv'
  BY HaltInvNext
<1> QED
  BY <1>1, <1>2, PTL DEF Spec

(* Halt reaches every subprocess: while the kill switch is on, whatever is  *)
(* executing has its context cancelled, unless two runs of one job overlap. *)
THEOREM HaltReachesRuns == Spec => []HaltReaches
<1>1. HaltInv => HaltReaches
  BY DEF HaltInv, RegistrationInv, HaltReaches, RunLabel
<1> QED
  BY <1>1, HaltInvariant, PTL

(* Only StartRun starts a subprocess. *)
LEMMA OnlyStartRun ==
    ASSUME TypeOK, Next, NEW p \in Proc, pc[p] # "exec", pc'[p] = "exec"
    PROVE  StartRun(p)
<1> USE DEF TypeOK, QueueTypeOK
<1>1. ~RunsStay /\ LocalTypeOK
  BY DEF RunsStay, RunLabel
<1>2. ~SchedStep
  BY <1>1, SchedStartsNone
<1>3. ASSUME NEW c \in Clients,
             HandleCreateJob(c) \/ HandleCancelJob(c) \/ HandleDispatchJob(c) \/ Respond(c)
      PROVE  FALSE
  BY <1>1, <1>3, RequestStartsNone
<1>4. ~(HandleHalt \/ HandleResume)
  BY DEF HandleHalt, Halt, HandleResume, Resume, procVars
<1>5. ASSUME NEW q \in Proc, Run(q) \/ EndRun(q)
      PROVE  StartRun(p)
  <2>1. StartRun(q) \/ pc'[q] # "exec"
    BY <1>1, <1>5, GotoMoves, EnterMoves, ReturnMoves
       DEF Run, EndRun, MarkWrite, RefuseHalted, FinishHalted, Register, RefuseExhausted,
           StartFails, RunError, RunResult, FinishSession, FinishStatus, Unregister
  <2>2. \A r \in Proc \ {q} : Stays(r)
    BY <1>1, <1>5, GotoMoves, EnterMoves, ReturnMoves
       DEF Run, EndRun, MarkWrite, RefuseHalted, FinishHalted, Register, RefuseExhausted,
           StartFails, StartRun, RunError, RunResult, FinishSession, FinishStatus, Unregister
  <2> QED
    BY <2>1, <2>2 DEF Stays
<1>6. ASSUME NEW q \in Proc, StoreError(q)
      PROVE  FALSE
  <2>1. UNCHANGED procVars \/ (pc'[q] # "exec" /\ \A r \in Proc \ {q} : Stays(r))
    BY <1>1, <1>6, GotoMoves, LeaveMoves, ReturnMoves DEF StoreError
  <2> QED
    BY <2>1 DEF procVars, Stays
<1>7. ~Crash
  BY DEF Crash
<1> QED
  BY <1>2, <1>3, <1>4, <1>5, <1>6, <1>7 DEF Next

(* Nothing starts while the kill switch is on: a run that had registered    *)
(* before finds its context cancelled, and none registers (RunJob, Start).  *)
THEOREM NothingStartsHalted == Spec => NoStartWhileHalted
<1>1. ASSUME HaltInv, Next, NEW p \in Proc, pc[p] # "exec", pc'[p] = "exec"
      PROVE  ~halted \/ p \in shared
  <2>1. pc[p] = "check" /\ p \notin cancelled
    BY <1>1, OnlyStartRun DEF HaltInv, StartRun
  <2> QED
    BY <1>1, <2>1 DEF HaltInv, RegistrationInv, RunLabel
<1>2. HaltInv /\ [Next]_vars =>
        [\A p \in Proc : pc[p] # "exec" /\ pc'[p] = "exec" => ~halted \/ p \in shared]_vars
  BY <1>1
<1> QED
  BY <1>2, HaltInvariant, PTL DEF Spec, NoStartWhileHalted
=============================================================================
