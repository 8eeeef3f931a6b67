--------------------------- MODULE JobPageProofs ----------------------------
(***************************************************************************)
(* The page keeps how a job ended once its effects have run for that, for   *)
(* any jobs, any number of polls under way, clicks and changes of the       *)
(* address.                                                                 *)
(***************************************************************************)
EXTENDS JobPage, TLAPS

(* The requests are of the calls and answers there are, the effects run for *)
(* jobs there are, and no answer to a poll is outstanding unless the effect *)
(* in force polls: running the effects forgets those sent before.           *)
PollInv ==
    /\ call \in [Call -> Request] /\ poll \in [Status -> Nat]
    /\ {id, view.job, effect.job} \subseteq Job
    /\ status \in [Job -> Status]
    /\ poll # NoPolls => Polls

LEMMA PollInit == Init => PollInv
<1> SUFFICES ASSUME Init PROVE PollInv
  OBVIOUS
<1>1. poll \in [Status -> Nat] /\ poll = NoPolls
  BY DEF Init, NoPolls
<1>2. call \in [Call -> Request]
  BY DEF Init, Request
<1>3. {id, view.job, effect.job} \subseteq Job
  BY PageAssumption DEF Init, Nothing
<1>4. status \in [Job -> Status]
  BY StatusAssumption DEF Init, RowInit
<1>. QED
  BY <1>1, <1>2, <1>3, <1>4 DEF PollInv

LEMMA StatusTypes ==
    ASSUME PollInv
    PROVE  /\ Terminal \subseteq Status /\ Dispatchable \subseteq Status
           /\ Status \subseteq Request /\ "running" \in Status
           /\ {"free", "sent"} \subseteq Request /\ "free" \notin Status
           /\ \A j \in Job : status[j] \in Status
BY DEF PollInv, Status, Request, Terminal, Dispatchable

(* The rows keep their type, whoever writes them. *)
LEMMA RowsType ==
    ASSUME PollInv, NEW j \in Job,
           Work(j) \/ MarkRunning(j) \/ CancelJob(j) \/ UNCHANGED rowVars
    PROVE  status' \in [Job -> Status]
<1>1. status \in [Job -> Status]
  BY DEF PollInv
<1>2. {"queued", "cancelled", "deferred_oversized", "promoted", "running", "succeeded",
       "failed", "paused_budget"} \subseteq Status
  BY DEF Status, Terminal, Dispatchable
<1>. QED
  BY <1>1, <1>2 DEF Work, Sweep, Divert, MarkRunning, Finish, CancelJob, rowVars

(* A step that leaves the effects and the polls alone. *)
LEMMA PollsLeftAlone ==
    ASSUME PollInv, UNCHANGED <<effect, poll>>,
           call' \in [Call -> Request], status' \in [Job -> Status],
           id' \in Job, view'.job \in Job
    PROVE  PollInv'
BY DEF PollInv, Polls, NoPolls

LEMMA CallStep ==
    ASSUME PollInv, NEW c \in Call, ServeCall(c) \/ CallFails(c) \/ TakeCall(c)
    PROVE  PollInv'
<1>1. c[2] \in Job /\ c[1] \in {"load", "refresh", "cancel", "dispatch"}
  BY DEF Call
<1>2. UNCHANGED <<id, view, effect, poll>>
  BY DEF ServeCall, CallFails, TakeCall
<1>3. status' \in [Job -> Status]
  <2>1. CancelJob(c[2]) \/ MarkRunning(c[2]) \/ UNCHANGED rowVars
    BY <1>1, Zenon DEF ServeCall, CallFails, TakeCall
  <2>. QED
    BY <1>1, <2>1, RowsType
<1>4. call' \in [Call -> Request]
  <2>1. {"cancelled", "running", "free", status[c[2]]} \subseteq Request
    BY <1>1, StatusTypes DEF Terminal
  <2>2. \/ call' = [call EXCEPT ![c] = status[c[2]]]
        \/ call' = [call EXCEPT ![c] = "cancelled"]
        \/ call' = [call EXCEPT ![c] = "running"]
        \/ call' = [call EXCEPT ![c] = "free"]
    BY <1>1, Zenon DEF ServeCall, CallFails, TakeCall, Settle
  <2>. QED
    BY <2>1, <2>2 DEF PollInv
<1>. QED
  BY <1>2, <1>3, <1>4, PollsLeftAlone DEF PollInv

LEMMA PollStep ==
    ASSUME PollInv,
           ServePoll \/ \E st \in Status : PollFails(st) \/ TakePoll(st)
    PROVE  PollInv'
<1>1. UNCHANGED <<rowVars, id, view, effect, call>>
  BY DEF ServePoll, PollFails, TakePoll
<1>2. Polls
  BY DEF ServePoll, PollFails, TakePoll, PollInv, NoPolls
<1>3. poll' \in [Status -> Nat]
  <2>1. CASE ServePoll
    BY <2>1, StatusTypes DEF ServePoll, PollInv
  <2>2. ASSUME NEW st \in Status, PollFails(st) \/ TakePoll(st)
        PROVE  poll' \in [Status -> Nat]
    <3>1. poll[st] \in Nat /\ poll[st] > 0
      BY <2>2 DEF PollFails, TakePoll, PollInv
    <3>2. poll[st] - 1 \in Nat
      BY <3>1
    <3>. QED
      BY <2>2, <3>2 DEF PollFails, TakePoll, PollInv
  <2>. QED
    BY <2>1, <2>2
<1>. QED
  BY <1>1, <1>2, <1>3 DEF PollInv, Polls, rowVars

LEMMA PageStep ==
    ASSUME PollInv,
           \/ \E j \in Job : Daemon(j) \/ Navigate(j)
           \/ \E kind \in {"refresh", "cancel", "dispatch"} : Click(kind)
           \/ Render \/ RunEffects
    PROVE  PollInv'
<1>1. ASSUME NEW j \in Job, Daemon(j)
      PROVE  PollInv'
  <2>1. status' \in [Job -> Status]
    BY <1>1, RowsType DEF Daemon
  <2>. QED
    BY <1>1, <2>1, PollsLeftAlone DEF Daemon, pageVars, PollInv
<1>2. ASSUME NEW j \in Job, Navigate(j)
      PROVE  PollInv'
  BY <1>2, PollsLeftAlone DEF Navigate, PollInv, rowVars
<1>3. ASSUME NEW kind \in {"refresh", "cancel", "dispatch"}, Click(kind)
      PROVE  PollInv'
  <2>1. call' \in [Call -> Request] /\ UNCHANGED <<rowVars, id, view, effect, poll>>
    BY <1>3, StatusTypes DEF Click, PollInv
  <2>. QED
    BY <2>1, PollsLeftAlone DEF PollInv, rowVars
<1>4. CASE Render
  <2>1. view'.job = id /\ UNCHANGED <<rowVars, id, effect, poll, call>>
    BY <1>4 DEF Render
  <2>. QED
    BY <2>1, PollsLeftAlone DEF PollInv, rowVars
<1>5. CASE RunEffects
  <2>1. effect' = view /\ UNCHANGED <<rowVars, id, view>>
    BY <1>5 DEF RunEffects, Follow
  <2>2. call' \in [Call -> Request]
    BY <1>5, StatusTypes DEF RunEffects, Follow, PollInv
  <2>3. poll' \in [Status -> Nat] /\ poll' = NoPolls /\ NoPolls' = NoPolls
    BY <1>5 DEF RunEffects, NoPolls
  <2>. QED
    BY <2>1, <2>2, <2>3 DEF PollInv, rowVars
<1>. QED
  BY <1>1, <1>2, <1>3, <1>4, <1>5

LEMMA PollInvKept == PollInv /\ [Next]_vars => PollInv'
<1>1. ASSUME PollInv, UNCHANGED vars
      PROVE  PollInv'
  BY <1>1, PollsLeftAlone DEF PollInv, vars, rowVars, pageVars
<1>. QED
  BY <1>1, CallStep, PollStep, PageStep DEF Next

(* While the effects in force are those for an end, no answer to a poll is  *)
(* outstanding, and only the answer to a call changes what is shown.        *)
EndStays ==
    (effect.status \in Terminal /\ shown' # shown)
    => \E c \in Call : call[c] # "free" /\ call'[c] = "free"

LEMMA EndStep == PollInv /\ Next => EndStays
<1> SUFFICES ASSUME PollInv, Next, effect.status \in Terminal, shown' # shown
             PROVE  \E c \in Call : call[c] # "free" /\ call'[c] = "free"
  BY DEF EndStays
<1>1. poll = NoPolls
  BY DEF PollInv, Polls, Polled, Terminal
<1>2. \A st \in Status : ~TakePoll(st)
  BY <1>1 DEF TakePoll, NoPolls
<1>3. \E c \in Call : TakeCall(c)
  BY <1>2, Zenon
     DEF Next, Daemon, Navigate, ServeCall, CallFails, ServePoll, PollFails, Click,
         Render, RunEffects, Follow, pageVars
<1>. QED
  BY <1>3, StatusTypes DEF TakeCall, Settle, PollInv

(* Once the page has rendered how its job ended and its effects have run    *)
(* for that, polls that were sent before do not bring back an older state   *)
(* (the clean-up of JobDetail's second effect).                             *)
THEOREM EndStaysShown == Spec => EndIsKept
<1>1. PollInv /\ [Next]_vars => [EndStays]_vars
  BY EndStep
<1>. QED
  BY <1>1, PollInit, PollInvKept, PTL DEF Spec, EndIsKept, EndStays
=============================================================================
