----------------------------- MODULE DaemonOrder ----------------------------
(***************************************************************************)
(* The daemon implements Precedence: the jobs table, with the two           *)
(* histories kept beside it, read as what the queue promises.  A statement  *)
(* is one step of the promise or none; every other step of the daemon       *)
(* (reads, runs, the kill switch, failures, crashes) is none.               *)
(***************************************************************************)
EXTENDS DaemonInvariant

Needs == [j \in JobId |-> Elements(dependsOn[j])]
Wholes == [j \in JobId |-> origin[j].parent]

P == INSTANCE Precedence WITH
        Job <- JobId,
        NoWhole <- NoJob,
        known <- Jobs,
        needs <- Needs,
        whole <- Wholes,
        open <- released,
        done <- succeeded

(* Jobs open, finish, are divided and are repointed in the order Precedence *)
(* allows, whatever the goroutines of the daemon do between each other's    *)
(* statements, and whatever statement fails or crash comes in between       *)
(* (Enqueue, PromoteReady, PromoteSteps, MarkRunning, Finish, Cancel). *)
KeepsOrder == P!Order
=============================================================================
