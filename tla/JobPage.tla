------------------------------- MODULE JobPage --------------------------------
(***************************************************************************)
(* The web UI's page of one job (JobDetail).  Requests are served one by    *)
(* one, and their answers come back, or fail to, in any order, while the    *)
(* daemon goes on with the jobs.                                            *)
(*                                                                         *)
(* The title of the page is the id it was opened for; what it shows below   *)
(* is whichever answer it took last.  Taking an answer, or a new address,   *)
(* changes the page's state only: the page is rendered later, and later     *)
(* still its effects are cleaned up and run for what was rendered (React    *)
(* flushes them after the commit, and before it renders again).  Answers    *)
(* come in between.                                                         *)
(***************************************************************************)
EXTENDS JobRow, Naturals, FiniteSetsExt

CONSTANTS
    First,           \* the job the page is opened for
    MaxPolls,        \* bound: the polls that are under way at once
    MaxClicks,       \* bound
    MaxNavigations   \* bound

ASSUME PageAssumption ==
    /\ First \in Job
    /\ MaxPolls \in Nat /\ MaxClicks \in Nat /\ MaxNavigations \in Nat

(* A request: not made, under way, or answered with a status. *)
Request == Status \cup {"free", "sent"}
Call == {"load", "refresh", "cancel", "dispatch"} \X Job
Nothing == [job |-> First, status |-> "none"]

VARIABLES
    id, shown,      \* the page's state: its title, and the job and status below
    view, effect,   \* the title and status rendered last, and those for
                    \* which the effects ran last
    loading, cancelling, dispatching,  \* requests under way, as it knows
    call,           \* [Call -> Request]: on opening and for the user
    poll,           \* [Status -> Nat]: how many polls of the effect in force
                    \* have been answered so, and the answer not taken yet
    clicks, navigations  \* so far

flagVars == <<loading, cancelling, dispatching>>
pageVars == <<id, shown, view, effect, flagVars, call, poll>>
boundVars == <<clicks, navigations>>
vars == <<rowVars, pageVars, boundVars>>

Polled == {"running", "queued", "deferred_oversized"}

(* Bug: the page polls while the job is running. *)
Polls_Running == effect.status = "running"

(* The effect in force polls. *)
Polls == effect.status \in Polled

NoPolls == [st \in Status |-> 0]

(* The page has been opened, and its effects have run: it loads the job. *)
Init ==
    /\ RowInit
    /\ id = First /\ shown = Nothing /\ view = Nothing /\ effect = Nothing
    /\ loading = TRUE /\ cancelling = FALSE /\ dispatching = FALSE
    /\ call = [c \in Call |-> IF c = <<"load", First>> THEN "sent" ELSE "free"]
    /\ poll = NoPolls
    /\ clicks = 0 /\ navigations = 0
-----------------------------------------------------------------------------
Daemon(j) ==
    /\ Work(j)
    /\ UNCHANGED <<pageVars, boundVars>>
-----------------------------------------------------------------------------
(* A call of the page is over. *)
Settle(c) ==
    /\ call' = [call EXCEPT ![c] = "free"]
    /\ loading' = (loading /\ c[1] \notin {"load", "refresh"})
    /\ cancelling' = (cancelling /\ c[1] # "cancel")
    /\ dispatching' = (dispatching /\ c[1] # "dispatch")

(* The page's requests are served: a read as the row is, a change refused   *)
(* or done; or they fail on the way, there or back.  A refusal, like a      *)
(* failure, leaves what is shown. *)
ServeCall(c) ==
    /\ call[c] = "sent"
    /\ \/ /\ c[1] \in {"load", "refresh"}
          /\ call' = [call EXCEPT ![c] = status[c[2]]] /\ UNCHANGED <<rowVars, flagVars>>
       \/ /\ c[1] = "cancel" /\ CancelJob(c[2])
          /\ call' = [call EXCEPT ![c] = "cancelled"] /\ UNCHANGED flagVars
       \/ /\ c[1] = "dispatch" /\ MarkRunning(c[2])
          /\ call' = [call EXCEPT ![c] = "running"] /\ UNCHANGED flagVars
       \/ /\ \/ c[1] = "cancel" /\ status[c[2]] \in Terminal
             \/ c[1] = "dispatch" /\ status[c[2]] \notin Dispatchable
          /\ Settle(c) /\ UNCHANGED rowVars
    /\ UNCHANGED <<id, shown, view, effect, poll, boundVars>>

CallFails(c) ==
    /\ call[c] # "free"
    /\ Settle(c)
    /\ UNCHANGED <<rowVars, id, shown, view, effect, poll, boundVars>>

(* A poll that the interval sent is answered, for the job the effect was    *)
(* set up for.  When it was sent makes no difference.                       *)
ServePoll ==
    /\ Polls /\ MapThenSumSet(LAMBDA st : poll[st], Status) < MaxPolls
    /\ poll' = [poll EXCEPT ![status[effect.job]] = @ + 1]
    /\ UNCHANGED <<rowVars, id, shown, view, effect, flagVars, call, boundVars>>

(* A poll that fails is not spoken of. *)
PollFails(st) ==
    /\ poll[st] > 0
    /\ poll' = [poll EXCEPT ![st] = @ - 1]
    /\ UNCHANGED <<rowVars, id, shown, view, effect, flagVars, call, boundVars>>
-----------------------------------------------------------------------------
(* setJob: the answer is what the next rendering shows. *)
SetJob(j, st) == shown' = [job |-> j, status |-> st]

Render ==
    /\ effect = view
    /\ view # [job |-> id, status |-> shown.status]
    /\ view' = [job |-> id, status |-> shown.status]
    /\ UNCHANGED <<rowVars, id, shown, effect, flagVars, call, poll, boundVars>>

(* With another title the job is loaded; with either another the polling is *)
(* cleaned up and set up anew.                                              *)
Follow ==
    /\ effect # view /\ effect' = view
    /\ IF view.job = effect.job
       THEN UNCHANGED <<loading, call>>
       ELSE loading' = TRUE /\ call' = [call EXCEPT ![<<"load", view.job>>] = "sent"]
    /\ UNCHANGED <<rowVars, id, shown, view, cancelling, dispatching, boundVars>>

(* Bug: the clean-up stops the interval and nothing else. *)
RunEffects_KeepsPolls ==
    Follow /\ UNCHANGED poll

(* What the polls that were sent before are answered is no longer taken. *)
RunEffects ==
    Follow /\ poll' = NoPolls

TakePoll(st) ==
    /\ poll[st] > 0
    /\ poll' = [poll EXCEPT ![st] = @ - 1]
    /\ SetJob(effect.job, st)
    /\ UNCHANGED <<rowVars, id, view, effect, flagVars, call, boundVars>>

(* The answer to anything else is taken whatever the page shows by now. *)
TakeCall(c) ==
    /\ call[c] \in Status
    /\ SetJob(c[2], call[c])
    /\ Settle(c)
    /\ UNCHANGED <<rowVars, id, view, effect, poll, boundVars>>

(* The buttons, as they were rendered last: one is disabled while its own   *)
(* request is under way, or if the job shown does not allow it; what it     *)
(* does, it does to the job in the title.                                   *)
Click(kind) ==
    /\ clicks < MaxClicks /\ clicks' = clicks + 1
    /\ view.status # Nothing.status /\ call[<<kind, view.job>>] = "free"
    /\ call' = [call EXCEPT ![<<kind, view.job>>] = "sent"]
    /\ CASE kind = "refresh" ->
              /\ ~loading /\ loading' = TRUE
              /\ UNCHANGED <<cancelling, dispatching>>
         [] kind = "cancel" ->
              /\ ~cancelling /\ view.status \notin Terminal
              /\ cancelling' = TRUE
              /\ UNCHANGED <<loading, dispatching>>
         [] kind = "dispatch" ->
              /\ ~dispatching /\ view.status \in Dispatchable
              /\ dispatching' = TRUE
              /\ UNCHANGED <<loading, cancelling>>
    /\ UNCHANGED <<rowVars, id, shown, view, effect, poll, navigations>>

(* The address is changed to another job's: the same component goes on,     *)
(* with what it shows. *)
Navigate(j) ==
    /\ navigations < MaxNavigations /\ navigations' = navigations + 1
    /\ j # id /\ call[<<"load", j>>] = "free"
    /\ id' = j
    /\ UNCHANGED <<rowVars, shown, view, effect, flagVars, call, poll, clicks>>
-----------------------------------------------------------------------------
Next ==
    \/ \E j \in Job : Daemon(j) \/ Navigate(j)
    \/ \E c \in Call : ServeCall(c) \/ CallFails(c) \/ TakeCall(c)
    \/ ServePoll
    \/ \E st \in Status : PollFails(st) \/ TakePoll(st)
    \/ \E kind \in {"refresh", "cancel", "dispatch"} : Click(kind)
    \/ Render \/ RunEffects

(* Intervals fire, requests are answered or fail, though not the polls for  *)
(* ever, answers are taken, and the page is rendered and its effects run.   *)
(* Nothing makes the daemon go on.                                          *)
Fairness ==
    /\ WF_vars(\E c \in Call : ServeCall(c) \/ TakeCall(c))
    /\ WF_vars(ServePoll) /\ SF_vars(\E st \in Status : TakePoll(st))
    /\ WF_vars(Render) /\ WF_vars(RunEffects)

Spec == Init /\ [][Next]_vars /\ Fairness
-----------------------------------------------------------------------------
(* A job that the page shows as queued, running or deferred and that is no  *)
(* longer so, or is not the page's job at all, is not shown for good: what  *)
(* becomes of the job shows up by itself, whatever requests fail, cross     *)
(* each other or cross a change of the address (JobDetail's effects). *)
ShowsUp ==
    []<>~(/\ shown.status \in Polled
          /\ shown # [job |-> id, status |-> status[id]])

(* Once the page has rendered how its job ended and its effects have run    *)
(* for that, polls that were sent before do not bring back an older state:  *)
(* only an answer to the user, or to the opening of the page, changes what  *)
(* is shown (the effect's clean-up).  Before they have run, one may; if it  *)
(* is a status that is polled, ShowsUp says that it is put right.           *)
EndIsKept ==
    [][ (effect.status \in Terminal /\ shown' # shown)
        => \E c \in Call : call[c] # "free" /\ call'[c] = "free" ]_vars
=============================================================================
