--------------------------- MODULE DesktopProofs ----------------------------
(***************************************************************************)
(* Proofs about Desktop, for any number of launches and faults: DesktopInv  *)
(* is inductive, and what an application owes its own daemon follows.       *)
(***************************************************************************)
EXTENDS Desktop, TLAPS

LEMMA DesktopInvInit == Init => DesktopInv
<1> SUFFICES ASSUME Init
             PROVE  DesktopInv
    OBVIOUS
<1> USE DEF Init
<1>1. TypeOK
  BY DEF TypeOK, ShellState, DaemonState, ItemLabel, Click
<1>2. Active = {} /\ Alive = {}
  BY DEF Active, Alive
<1>. QED
  BY <1>1, <1>2 DEF DesktopInv

LEMMA PostType ==
    ASSUME TypeOK, NEW halt \in BOOLEAN, Post(halt)
    PROVE  halted' \in [Shells -> BOOLEAN]
BY DEF TypeOK, Post

(* Each step of a shell, a daemon or a user preserves the invariant.        *)
THEOREM DesktopInvStep == DesktopInv /\ [Next]_vars => DesktopInv'
<1> SUFFICES ASSUME DesktopInv, [Next]_vars
             PROVE  DesktopInv'
    OBVIOUS
<1> USE DEF DesktopInv, TypeOK, ShellState, DaemonState, ItemLabel, Click, Active, Alive,
            To, Become
<1>1. ASSUME NEW s \in Shells, Launch(s)
      PROVE  DesktopInv'
  <2>1. CASE To(s, "gone") /\ UNCHANGED daemon
    BY <1>1, <2>1 DEF Launch, tray
  <2>2. CASE To(s, "waiting") /\ Become(s, "starting")
    <3>1. TypeOK'
      BY <1>1, <2>2 DEF Launch, tray
    <3>2. \A t \in Shells : /\ shell'[t] = "quit" => t \notin Alive'
                            /\ shell'[t] = "idle" => daemon'[t] = "none"
      BY <1>1, <2>2 DEF Launch
    <3>3. ASSUME ~overlapped'
          PROVE  /\ Active' = {s} /\ Alive' = {s}
                 /\ \A t \in Shells : shell'[t] \notin {"checked", "up"}
      <4>1. Active = {} /\ Alive = {} /\ ~overlapped
        BY <1>1, <3>3 DEF Launch
      <4>2. shell' = [shell EXCEPT ![s] = "waiting"] /\ daemon' = [daemon EXCEPT ![s] = "starting"]
        BY <2>2
      <4>3. Active' = {s} /\ Alive' = {s}
        BY <4>1, <4>2
      <4>. QED
        BY <4>1, <4>2, <4>3
    <3>. QED
      BY <3>1, <3>2, <3>3
  <2>. QED
    BY <1>1, <2>1, <2>2 DEF Launch
<1>2. ASSUME NEW s \in Shells, HealthOK(s)
      PROVE  DesktopInv'
  BY <1>2 DEF HealthOK, Healthy, Serving, tray
<1>3. ASSUME NEW s \in Shells, HealthTimeout(s)
      PROVE  DesktopInv'
  BY <1>3 DEF HealthTimeout, tray
<1>4. ASSUME NEW s \in Shells, New(s)
      PROVE  DesktopInv'
  BY <1>4 DEF New, tray
<1>5. ASSUME NEW s \in Shells, Quit(s)
      PROVE  DesktopInv'
  <2>1. daemon' = daemon \/ Become(s, "draining") \/ Become(s, "dead")
    BY <1>5 DEF Quit
  <2>2. TypeOK'
    BY <1>5, <2>1 DEF Quit
  <2>. QED
    BY <1>5, <2>1, <2>2 DEF Quit
<1>6. ASSUME NEW s \in Shells, StopTimeout(s)
      PROVE  DesktopInv'
  BY <1>6 DEF StopTimeout, tray
<1>7. ASSUME NEW s \in Shells, StopDone(s)
      PROVE  DesktopInv'
  BY <1>7 DEF StopDone, tray
<1>8. ASSUME NEW s \in Shells, ShellCrash(s)
      PROVE  DesktopInv'
  BY <1>8 DEF ShellCrash, tray
<1>9. ASSUME NEW d \in Shells, Bind(d)
      PROVE  DesktopInv'
  BY <1>9 DEF Bind
<1>10. ASSUME NEW d \in Shells, BindFail(d)
       PROVE  DesktopInv'
  BY <1>10 DEF BindFail, Serving, tray
<1>11. ASSUME NEW d \in Shells, DrainDone(d)
       PROVE  DesktopInv'
  BY <1>11 DEF DrainDone, tray
<1>12. ASSUME NEW d \in Shells, DaemonCrash(d)
       PROVE  DesktopInv'
  <2>1. faults' = faults + 1 /\ faults' \in Nat /\ faults' # 0
    BY <1>12 DEF DaemonCrash
  <2>2. TypeOK'
    BY <1>12, <2>1 DEF DaemonCrash
  <2>3. Active' = Active /\ Alive' \subseteq Alive
    BY <1>12 DEF DaemonCrash
  <2>. QED
    BY <1>12, <2>1, <2>2, <2>3 DEF DaemonCrash
<1>13. ASSUME NEW s \in Shells, Poll(s) \/ TrayClick(s) \/ TrayRead(s) \/ TrayPost(s)
       PROVE  DesktopInv'
  <2>1. UNCHANGED shell /\ UNCHANGED daemon /\ UNCHANGED faults /\ overlapped' = overlapped
    BY <1>13 DEF Poll, TrayClick, TrayRead, TrayPost
  <2>2. TypeOK'
    <3>1. label' \in ItemLabel /\ click' \in Click /\ asked' \in ItemLabel
      BY <1>13 DEF Poll, TrayClick, TrayRead, TrayPost, LabelFor, Reverse
    <3>2. honest' \in BOOLEAN
      BY <1>13 DEF Poll, TrayClick, TrayRead, TrayPost, Honest
    <3>3. halted' \in [Shells -> BOOLEAN]
      <4>1. CASE Poll(s) \/ TrayClick(s) \/ TrayRead(s)
        BY <4>1 DEF Poll, TrayClick, TrayRead
      <4>2. CASE TrayPost(s)
        <5>1. CASE Post(click = "halt")
          <6>1. (click = "halt") \in BOOLEAN
            OBVIOUS
          <6>. QED
            BY <5>1, <6>1, PostType
        <5>. QED
          BY <4>2, <5>1 DEF TrayPost
      <4>. QED
        BY <1>13, <4>1, <4>2
    <3>. QED
      BY <2>1, <3>1, <3>2, <3>3
  <2>. QED
    BY <2>1, <2>2
<1>14. CASE Others
  <2>1. TypeOK'
    BY <1>14, PostType DEF Others
  <2>. QED
    BY <1>14, <2>1 DEF Others
<1>15. CASE UNCHANGED vars
  BY <1>15 DEF vars
<1>. QED
  BY <1>1, <1>2, <1>3, <1>4, <1>5, <1>6, <1>7, <1>8, <1>9, <1>10, <1>11, <1>12, <1>13,
     <1>14, <1>15 DEF Next, Start, Stop, Serve

(* The inductive invariant holds in every reachable state. *)
THEOREM DesktopInvariant == Spec => []DesktopInv
<1>1. Init => DesktopInv
  BY DesktopInvInit
<1>2. DesktopInv /\ [Next]_vars => DesktopInv'
  BY DesktopInvStep
<1>. QED
  BY <1>1, <1>2, PTL DEF Spec

(* Quitting an application stops its daemon, whatever else is going on.     *)
THEOREM QuittingStops == Spec => []QuitStops
<1>1. DesktopInv => QuitStops
  BY DEF DesktopInv, QuitStops
<1>. QED
  BY <1>1, DesktopInvariant, PTL

(* An application launched alone is served by its own daemon. *)
THEOREM ServedByItsOwn == Spec => []OwnDaemon
<1>1. DesktopInv => OwnDaemon
  BY DEF DesktopInv, OwnDaemon
<1>. QED
  BY <1>1, DesktopInvariant, PTL

-----------------------------------------------------------------------------

(* What a click on the tray's item rests on until its handler is done: one  *)
(* daemon has the port; and unless somebody touched the switch, or another  *)
(* daemon took the port, since the click, the switch is as the item read    *)
(* then, and the handler is about to do what it read. *)
ItemInv ==
    /\ \A d, e \in Serving : d = e
    /\ click \in {"read", "halt", "resume"} /\ honest =>
          \A d \in Serving : asked = LabelFor(halted[d])
    /\ click = "halt" /\ honest => asked = "Halt"
    /\ click = "resume" /\ honest => asked = "Resume"

(* A daemon that stops serving changes nothing about that. *)
LEMMA ItemInvKept ==
    ASSUME ItemInv, UNCHANGED <<halted, click, asked, honest>>, Serving' \subseteq Serving
    PROVE  ItemInv'
BY DEF ItemInv

LEMMA ItemInvStep ==
    ASSUME TypeOK, ItemInv, [Next]_vars
    PROVE  ItemInv'
<1>1. ASSUME NEW s \in Shells,
             \/ Launch(s) \/ HealthOK(s) \/ HealthTimeout(s) \/ StopTimeout(s) \/ StopDone(s)
             \/ ShellCrash(s) \/ BindFail(s) \/ DrainDone(s) \/ Poll(s)
      PROVE  ItemInv'
  <2>1. UNCHANGED <<halted, click, asked, honest>>
    BY <1>1 DEF Launch, HealthOK, HealthTimeout, StopTimeout, StopDone, ShellCrash, BindFail,
                DrainDone, Poll, tray
  <2>2. Serving' \subseteq Serving
    BY <1>1 DEF Launch, HealthOK, HealthTimeout, StopTimeout, StopDone, ShellCrash, BindFail,
                DrainDone, Poll, Become, Serving, TypeOK
  <2> QED
    BY <2>1, <2>2, ItemInvKept
<1>2. ASSUME NEW s \in Shells, New(s)
      PROVE  ItemInv'
  <2>1. Serving' = Serving /\ (click' = "none" \/ UNCHANGED <<halted, click, asked, honest>>)
    BY <1>2 DEF New, Serving, tray
  <2> QED
    BY <2>1, ItemInvKept DEF ItemInv
<1>3. ASSUME NEW s \in Shells, Quit(s) \/ Bind(s) \/ DaemonCrash(s)
      PROVE  ItemInv'
  <2>1. honest' = FALSE
    BY <1>3 DEF Quit, Bind, DaemonCrash
  <2>2. \A d, e \in Serving' : d = e
    BY <1>3 DEF ItemInv, Quit, Bind, DaemonCrash, Become, Serving, TypeOK
  <2> QED
    BY <2>1, <2>2 DEF ItemInv
<1>4. CASE Others
  BY <1>4 DEF Others, ItemInv, Serving
<1>5. ASSUME NEW s \in Shells, TrayClick(s)
      PROVE  ItemInv'
  <2>1. /\ Serving' = Serving /\ halted' = halted
        /\ click' = "read" /\ asked' = label /\ honest' = Honest
    BY <1>5 DEF TrayClick, Serving
  <2> QED
    BY <2>1 DEF ItemInv, Honest
<1>6. ASSUME NEW s \in Shells, TrayRead(s)
      PROVE  ItemInv'
  <2>1. Serving' = Serving /\ click = "read" /\ UNCHANGED <<halted, asked, honest>>
    BY <1>6 DEF TrayRead, Serving
  <2>2. CASE \E d \in Serving : click' = Reverse(halted[d])
    BY <2>1, <2>2 DEF ItemInv, Reverse, LabelFor
  <2>3. CASE click' = "none"
    BY <2>1, <2>3 DEF ItemInv
  <2> QED
    BY <1>6, <2>2, <2>3 DEF TrayRead
<1>7. ASSUME NEW s \in Shells, TrayPost(s)
      PROVE  ItemInv'
  BY <1>7 DEF TrayPost, ItemInv, Serving
<1>8. CASE UNCHANGED vars
  BY <1>8, ItemInvKept DEF vars, Serving
<1> QED
  BY <1>1, <1>2, <1>3, <1>4, <1>5, <1>6, <1>7, <1>8 DEF Next, Start, Stop, Serve

LEMMA ItemPosts ==
    ASSUME TypeOK, ItemInv, NEW s \in Shells, TrayPost(s), honest, NEW d \in Serving
    PROVE  halted'[d] = (asked = "Halt")
<1>1. PICK e \in Serving : halted' = [halted EXCEPT ![e] = (click = "halt")]
  BY DEF TrayPost, Post
<1>2. d = e /\ d \in Shells
  BY DEF ItemInv, Serving
<1>3. halted'[d] = (click = "halt")
  BY <1>1, <1>2 DEF TypeOK
<1>4. (click = "halt") = (asked = "Halt")
  BY DEF ItemInv, TrayPost
<1> QED
  BY <1>3, <1>4

(* A click on the tray's item does what the item read, if that was so when  *)
(* it was clicked and nobody else touched the switch meanwhile, however     *)
(* many applications and daemons there are (TrayRead, TrayPost). *)
THEOREM ItemKeepsItsWord == Spec => ItemDoesWhatItSays
<1>1. Init => ItemInv
  BY DEF Init, ItemInv, Serving
<1>2. TypeOK /\ ItemInv /\ [Next]_vars => ItemInv'
  BY ItemInvStep
<1>3. DesktopInv => TypeOK
  BY DEF DesktopInv
<1>4. TypeOK /\ ItemInv
      => \A s \in Shells : TrayPost(s) /\ honest =>
            \A d \in Serving : halted'[d] = (asked = "Halt")
  BY ItemPosts
<1>. QED
  BY <1>1, <1>2, <1>3, <1>4, DesktopInvariant, PTL DEF Spec, ItemDoesWhatItSays
=============================================================================
