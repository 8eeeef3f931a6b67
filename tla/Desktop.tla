------------------------------ MODULE Desktop -------------------------------
(***************************************************************************)
(* The desktop shell (desktop/main.go): it starts a daemon, waits until one *)
(* answers, becomes the single instance, shows the kill switch in its tray, *)
(* and stops its daemon when it quits.                                      *)
(*                                                                         *)
(* A shell is a launch of the application, by whoever double-clicks it, and *)
(* has at most one child, which goes by its name.  Shells, daemons and the  *)
(* users of other controls (the web UI, the command line) take their steps  *)
(* in any order; a time-out is a step that may happen as soon as what it    *)
(* waits for has not.                                                       *)
(*                                                                         *)
(* External: the operating system, which gives the port to one daemon, and  *)
(* Wails, whose application.New ends a process that is not the first of its *)
(* kind.                                                                    *)
(***************************************************************************)
EXTENDS Naturals

CONSTANTS
    Shells,     \* launches of the application
    MaxFaults   \* bound: processes that die by themselves

VARIABLES
    shell,      \* where each shell is in main
    daemon,     \* where the child of each is in run
    halted,     \* the kill switch in each daemon's memory
    label,      \* what the tray's item reads
    click,      \* what the tray's handler is about to do
    asked,      \* what the item read when it was clicked
    honest,     \* history: it was true then, and has not been touched since
    overlapped, \* history: a shell was launched beside another, or its daemon
    faults

vars == <<shell, daemon, halted, label, click, asked, honest, overlapped, faults>>
tray == <<label, click, asked, honest>>

ShellState == {"idle", "waiting", "checked", "up", "quitting", "quit", "gone"}
DaemonState == {"none", "starting", "serving", "draining", "dead"}
ItemLabel == {"Halt", "Resume"}
Click == {"none", "read", "halt", "resume"}

TypeOK ==
    /\ shell \in [Shells -> ShellState]
    /\ daemon \in [Shells -> DaemonState]
    /\ halted \in [Shells -> BOOLEAN]
    /\ label \in ItemLabel /\ asked \in ItemLabel
    /\ click \in Click
    /\ honest \in BOOLEAN /\ overlapped \in BOOLEAN
    /\ faults \in Nat

Init ==
    /\ shell = [s \in Shells |-> "idle"]
    /\ daemon = [s \in Shells |-> "none"]
    /\ halted = [s \in Shells |-> FALSE]
    /\ label = "Halt" /\ asked = "Halt"
    /\ click = "none"
    /\ honest = FALSE /\ overlapped = FALSE
    /\ faults = 0

(* The daemon that listens on the port, if any. *)
Serving == {d \in Shells : daemon[d] = "serving"}

(* Daemons whose scheduler, or backfill, works on the database. *)
Working == {d \in Shells : daemon[d] \in {"starting", "serving"}}
Alive == {d \in Shells : daemon[d] \in {"starting", "serving", "draining"}}

Active == {s \in Shells : shell[s] \in {"waiting", "checked", "up", "quitting"}}

(* The shells that hold the single instance's lock. *)
Instances == {s \in Shells : shell[s] \in {"up", "quitting"}}

To(s, l) == shell' = [shell EXCEPT ![s] = l]
Become(d, l) == daemon' = [daemon EXCEPT ![d] = l]

(* What the tray's item should read. *)
LabelFor(h) == IF h THEN "Resume" ELSE "Halt"
Honest == \E d \in Serving : label = LabelFor(halted[d])

-----------------------------------------------------------------------------
(* The shell: main, up to the window. *)

(* startDaemon, before anything else; no binary may be found. *)
Launch(s) ==
    /\ shell[s] = "idle"
    /\ \/ To(s, "waiting") /\ Become(s, "starting")
       \/ To(s, "gone") /\ UNCHANGED daemon
    /\ overlapped' = (overlapped \/ Active # {} \/ Alive # {})
    /\ UNCHANGED <<halted, tray, faults>>

(* Bug: any answer, or none, will do. *)
Healthy_Any == TRUE

(* waitForHealth asks the port, whoever listens there, *)
Healthy == Serving # {}

HealthOK(s) ==
    /\ shell[s] = "waiting"
    /\ Healthy
    /\ To(s, "checked")
    /\ UNCHANGED <<daemon, halted, tray, overlapped, faults>>

(* and gives up in the end: log.Fatalf, which leaves the child alone.       *)
HealthTimeout(s) ==
    /\ shell[s] = "waiting"
    /\ ~Healthy
    /\ To(s, "gone")
    /\ UNCHANGED <<daemon, halted, tray, overlapped, faults>>

(* application.New: the first instance goes on; a second one tells it to    *)
(* raise its window, and exits, its child left alone. *)
New(s) ==
    /\ shell[s] = "checked"
    /\ \/ /\ Instances = {}
          /\ To(s, "up")
          /\ label' = "Halt" /\ click' = "none"
          /\ UNCHANGED <<asked, honest>>
       \/ /\ Instances # {}
          /\ To(s, "gone")
          /\ UNCHANGED tray
    /\ UNCHANGED <<daemon, halted, overlapped, faults>>

(* stopDaemon: SIGTERM, which a daemon that listens for it takes for the    *)
(* start of its shutdown; one that does not yet, or any on Windows, dies.   *)
Quit(s) ==
    /\ shell[s] = "up"
    /\ To(s, "quitting")
    /\ IF s \in Alive THEN \E l \in {"draining", "dead"} : Become(s, l)
                      ELSE UNCHANGED daemon
    /\ honest' = FALSE
    /\ UNCHANGED <<halted, label, click, asked, overlapped, faults>>

(* Bug: it gives up where it should kill. *)
StopTimeout_GivesUp(s) ==
    /\ shell[s] = "quitting"
    /\ s \in Alive
    /\ To(s, "quit")
    /\ UNCHANGED <<daemon, halted, tray, overlapped, faults>>

(* Bug: it asks once more. *)
StopTimeout_AsksAgain(s) ==
    /\ shell[s] = "quitting"
    /\ s \in Alive
    /\ UNCHANGED vars

(* A daemon that does not exit in time is killed, *)
StopTimeout(s) ==
    /\ shell[s] = "quitting"
    /\ s \in Alive
    /\ Become(s, "dead")
    /\ UNCHANGED <<shell, halted, tray, overlapped, faults>>

(* and the shell ends when it has. *)
StopDone(s) ==
    /\ shell[s] = "quitting"
    /\ s \notin Alive
    /\ To(s, "quit")
    /\ UNCHANGED <<daemon, halted, tray, overlapped, faults>>

ShellCrash(s) ==
    /\ s \in Active
    /\ faults < MaxFaults
    /\ faults' = faults + 1
    /\ To(s, "gone")
    /\ UNCHANGED <<daemon, halted, tray, overlapped>>

-----------------------------------------------------------------------------
(* The daemon: run, once its database is open and its scheduler started.    *)

Bind(d) ==
    /\ daemon[d] = "starting"
    /\ Serving = {}
    /\ Become(d, "serving")
    /\ honest' = FALSE
    /\ UNCHANGED <<shell, halted, label, click, asked, overlapped, faults>>

(* Bug: the error is logged, and the scheduler left running. *)
BindFail_GoesOn(d) ==
    /\ daemon[d] = "starting"
    /\ Serving # {}
    /\ UNCHANGED vars

(* ListenAndServe fails, and run returns its error. *)
BindFail(d) ==
    /\ daemon[d] = "starting"
    /\ Serving # {}
    /\ Become(d, "dead")
    /\ UNCHANGED <<shell, halted, tray, overlapped, faults>>

DrainDone(d) ==
    /\ daemon[d] = "draining"
    /\ Become(d, "dead")
    /\ UNCHANGED <<shell, halted, tray, overlapped, faults>>

(* It fails to open its database, or dies. *)
DaemonCrash(d) ==
    /\ d \in Alive
    /\ faults < MaxFaults
    /\ faults' = faults + 1
    /\ Become(d, "dead")
    /\ honest' = FALSE
    /\ UNCHANGED <<shell, halted, label, click, asked, overlapped>>

-----------------------------------------------------------------------------
(* The kill switch.  A request that no daemon answers fails, and changes    *)
(* nothing. *)

Post(halt) == \E d \in Serving : halted' = [halted EXCEPT ![d] = halt]

(* By the web UI, the command line, or anyone else. *)
Others ==
    /\ \E halt \in BOOLEAN : Post(halt)
    /\ honest' = FALSE
    /\ UNCHANGED <<shell, daemon, label, click, asked, overlapped, faults>>

(* Bug: the label is set when the switch is first looked at, and that is it. *)
Poll_KeepsResume(s) ==
    /\ shell[s] = "up"
    /\ \E d \in Serving : label' = IF halted[d] THEN "Resume" ELSE label
    /\ UNCHANGED <<shell, daemon, halted, click, asked, honest, overlapped, faults>>

(* pollKillSwitchLabel, every five seconds. *)
Poll(s) ==
    /\ shell[s] = "up"
    /\ \E d \in Serving : label' = LabelFor(halted[d])
    /\ UNCHANGED <<shell, daemon, halted, click, asked, honest, overlapped, faults>>

(* The item is clicked: its handler does not know what it read, *)
TrayClick(s) ==
    /\ shell[s] = "up"
    /\ click = "none"
    /\ click' = "read"
    /\ asked' = label
    /\ honest' = Honest
    /\ UNCHANGED <<shell, daemon, halted, label, overlapped, faults>>

(* Bug: the answer is posted back. *)
Reverse_Same(h) == IF h THEN "halt" ELSE "resume"

Reverse(h) == IF h THEN "resume" ELSE "halt"

(* it asks for the state, and goes no further without an answer, *)
TrayRead(s) ==
    /\ shell[s] = "up"
    /\ click = "read"
    /\ \/ \E d \in Serving : click' = Reverse(halted[d])
       \/ Serving = {} /\ click' = "none"
    /\ UNCHANGED <<shell, daemon, halted, label, asked, honest, overlapped, faults>>

(* and posts the other one. *)
TrayPost(s) ==
    /\ shell[s] = "up"
    /\ click \in {"halt", "resume"}
    /\ click' = "none"
    /\ \/ Post(click = "halt")
       \/ Serving = {} /\ UNCHANGED halted
    /\ UNCHANGED <<shell, daemon, label, asked, honest, overlapped, faults>>

-----------------------------------------------------------------------------

Start(s) == HealthOK(s) \/ HealthTimeout(s) \/ New(s)
Stop(s) == StopTimeout(s) \/ StopDone(s)
Serve(d) == Bind(d) \/ BindFail(d)

Next ==
    \/ \E s \in Shells :
          \/ Launch(s) \/ Start(s) \/ Quit(s) \/ Stop(s) \/ ShellCrash(s)
          \/ Serve(s) \/ DrainDone(s) \/ DaemonCrash(s)
          \/ Poll(s) \/ TrayClick(s) \/ TrayRead(s) \/ TrayPost(s)
    \/ Others

Spec == Init /\ [][Next]_vars

(* Programs run and timers fire.  A shutdown may hang for all that is asked *)
(* here, and nobody need click anything. *)
Fairness ==
    \A s \in Shells :
        WF_vars(Start(s)) /\ WF_vars(Stop(s)) /\ WF_vars(Serve(s)) /\ WF_vars(Poll(s))

FairSpec == Spec /\ Fairness

-----------------------------------------------------------------------------

(* What keeps an application that was launched alone with its own daemon:   *)
(* until a launch overlaps, one shell is active at most, and no daemon is   *)
(* alive beside its child. *)
DesktopInv ==
    /\ TypeOK
    /\ \A s \in Shells : shell[s] = "quit" => s \notin Alive
    /\ \A s \in Shells : shell[s] = "idle" => daemon[s] = "none"
    /\ ~overlapped =>
          /\ \A s, t \in Active : s = t
          /\ \A s \in Active, d \in Alive : d = s
          /\ faults = 0 => \A s \in Shells :
                shell[s] \in {"checked", "up"} => daemon[s] = "serving"

(* A shell that was quit has taken its daemon with it, however the shutdown *)
(* went (OnShutdown: Quit frees the port and the database). *)
QuitStops == \A s \in Shells : shell[s] = "quit" => s \notin Alive

(* An application launched alone shows its own daemon, and that answers.    *)
(* Launched while another one quits, it may find that one's daemon healthy, *)
(* lose its own to the port, and come up with none. *)
OwnDaemon ==
    ~overlapped /\ faults = 0 =>
        \A s \in Shells : shell[s] = "up" => daemon[s] = "serving"

(* While an application and its daemon go on, whatever launches add, or     *)
(* dying shells left, in the end no other daemon works on the database. *)
OneDaemonLeft ==
    \A s \in Shells :
        <>[](shell[s] = "up" /\ daemon[s] = "serving") => <>[](Working = {s})

(* A launch comes to an end, and so does quitting, a daemon that hangs or   *)
(* never answers notwithstanding (waitForHealth, stopDaemon). *)
ShellsMove ==
    \A s \in Shells :
        shell[s] \in {"waiting", "checked", "quitting"} ~> shell[s] \in {"up", "quit", "gone"}

(* When the switch comes to rest, the tray's item shows how it is set,      *)
(* whoever set it (pollKillSwitchLabel). *)
LabelSettles ==
    \A s \in Shells, h \in BOOLEAN :
        <>[](shell[s] = "up" /\ \E d \in Serving : halted[d] = h) => <>[](label = LabelFor(h))

(* A click on the item does what the item read, if that was so when it was  *)
(* clicked and nobody else touched the switch before the handler was done.  *)
(* Otherwise a click on Halt may resume. *)
ItemDoesWhatItSays ==
    [][\A s \in Shells : TrayPost(s) /\ honest =>
          \A d \in Serving : halted'[d] = (asked = "Halt")]_vars
=============================================================================
