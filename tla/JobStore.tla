------------------------------ MODULE JobStore ------------------------------
(***************************************************************************)
(* The jobs table of internal/store and the statements internal/queue      *)
(* issues against it.                                                       *)
(*                                                                         *)
(* The SQLite handle is opened with one connection (store.go), so every    *)
(* store method is one atomic step; no transaction ever spans two of them. *)
(* Each operator below that primes a variable is one such statement.        *)
(*                                                                         *)
(* Data kept: a job's status, dependencies, parent, declared steps, the    *)
(* Resumable flag, and whether a Claude session is recorded for it.  Ids    *)
(* are 1..MaxJobs in creation order (the code draws random ids; only their *)
(* freshness matters).  Prompts are "prompt" or "blank": validateNewJob    *)
(* looks at nothing else that varies here.                                  *)
(***************************************************************************)
EXTENDS Naturals, Sequences

CONSTANTS
    MaxJobs,      \* bound: ids ever created
    InitialJobs   \* the jobs a restarted daemon finds in its database

JobId == 1 .. MaxJobs
NoJob == 0

Status == {"queued", "blocked", "running", "paused_budget",
           "deferred_oversized", "promoted", "succeeded", "failed", "cancelled"}

(* Status.Terminal *)
Terminal == {"succeeded", "failed", "cancelled", "promoted"}

(* The statuses Candidates lists and MarkRunning accepts. *)
Dispatchable == {"queued", "paused_budget", "deferred_oversized"}

Prompt == {"prompt", "blank"}

(* What a user declares about a job, as far as scheduling reads it. *)
Template == [steps : Seq(Prompt), resumable : BOOLEAN]

(* What CreateJob fixes for good: the template, and for a child of a       *)
(* promoted job its parent and which of the parent's steps it is.           *)
Origin == [steps : Seq(Prompt), resumable : BOOLEAN,
           parent : JobId \cup {NoJob}, step : Nat]

NoOrigin == [steps |-> <<>>, resumable |-> FALSE, parent |-> NoJob, step |-> 0]

ASSUME MaxJobsAssumption == MaxJobs \in Nat

(* The database a daemon opens holds jobs whose dependencies were created   *)
(* before them: Enqueue refuses an id that does not exist yet.              *)
ASSUME InitialJobsAssumption ==
    /\ InitialJobs \in Seq([deps : Seq(JobId), job : Template])
    /\ Len(InitialJobs) <= MaxJobs
    /\ \A j \in DOMAIN InitialJobs : \A i \in DOMAIN InitialJobs[j].deps :
          InitialJobs[j].deps[i] < j

VARIABLES
    count,       \* rows ever inserted: the ids in use are 1..count
    status,      \* jobs.status
    dependsOn,   \* jobs.depends_on
    session,     \* jobs.session_id is non-empty
    origin,      \* the immutable columns
    released,    \* history: jobs that were ever dispatchable or running
    succeeded    \* history: jobs whose status was ever "succeeded"

tableVars == <<count, status, dependsOn, session, origin, released, succeeded>>

Jobs == 1 .. count

InStatus(S) == {j \in Jobs : status[j] \in S}

Children(p) == {j \in Jobs : origin[j].parent = p}

StoreTypeOK ==
    /\ count \in 0 .. MaxJobs
    /\ status \in [JobId -> Status]
    /\ dependsOn \in [JobId -> Seq(JobId)]
    /\ session \in [JobId -> BOOLEAN]
    /\ origin \in [JobId -> Origin]
    /\ released \in SUBSET JobId
    /\ succeeded \in SUBSET JobId

(* The initial database: what Enqueue left of each job.  An id not in use   *)
(* carries the defaults; no statement reads it.                             *)
StoreInit ==
    LET n == Len(InitialJobs) IN
    /\ count = n
    /\ status = [j \in JobId |->
          IF j <= n /\ InitialJobs[j].deps = <<>> THEN "queued" ELSE "blocked"]
    /\ dependsOn = [j \in JobId |-> IF j <= n THEN InitialJobs[j].deps ELSE <<>>]
    /\ session = [j \in JobId |-> FALSE]
    /\ origin = [j \in JobId |->
          IF j <= n
          THEN [steps |-> InitialJobs[j].job.steps,
                resumable |-> InitialJobs[j].job.resumable,
                parent |-> NoJob, step |-> 0]
          ELSE NoOrigin]
    /\ released = {j \in 1 .. n : InitialJobs[j].deps = <<>>}
    /\ succeeded = {}

-----------------------------------------------------------------------------

(* Both histories follow every write of a status. *)
Remember(j, s) ==
    /\ released' = IF s \in Dispatchable \cup {"running"}
                   THEN released \cup {j} ELSE released
    /\ succeeded' = IF s = "succeeded" THEN succeeded \cup {j} ELSE succeeded

(* Store.UpdateStatus: unconditional, whatever the row held before. *)
UpdateStatus(j, s) ==
    /\ status' = [status EXCEPT ![j] = s]
    /\ Remember(j, s)
    /\ UNCHANGED <<count, dependsOn, session, origin>>

(* Store.UpdateSessionID *)
UpdateSessionID(j) ==
    /\ session' = [session EXCEPT ![j] = TRUE]
    /\ UNCHANGED <<count, status, dependsOn, origin, released, succeeded>>

(* Store.UpdateDependsOn *)
UpdateDependsOn(j, ds) ==
    /\ dependsOn' = [dependsOn EXCEPT ![j] = ds]
    /\ UNCHANGED <<count, status, session, origin, released, succeeded>>

(* Store.CreateJob of a job whose prompt validateNewJob accepts. *)
CreateJob(ds, o, hasSession, s) ==
    LET j == count + 1 IN
    /\ count < MaxJobs
    /\ count' = j
    /\ status' = [status EXCEPT ![j] = s]
    /\ dependsOn' = [dependsOn EXCEPT ![j] = ds]
    /\ session' = [session EXCEPT ![j] = hasSession]
    /\ origin' = [origin EXCEPT ![j] = o]
    /\ Remember(j, s)
=============================================================================
