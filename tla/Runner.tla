------------------------------- MODULE Runner -------------------------------
(***************************************************************************)
(* One call of Run: the claude subprocess, the pipe it writes its events    *)
(* to, and the reader that makes a Result of them.  Everything the          *)
(* subprocess means to write is a sequence of chunks, the last of each line *)
(* named for what the line is; written and read are how far the two sides   *)
(* are, and the pipe is what lies between.                                  *)
(***************************************************************************)
EXTENDS Integers, Sequences, FiniteSets

CONSTANTS
    Capacity,   \* chunks the pipe holds
    MaxLine,    \* chunks of a line the scanner accepts (maxLineSize)
    MaxChunks   \* bound: chunks the subprocess writes

ASSUME RunnerAssumption ==
    /\ Capacity \in Nat \ {0} /\ MaxLine \in Nat \ {0} /\ MaxChunks \in Nat

(* The end of a line that parses as a result, as a rate limit retry, as     *)
(* another event or a blank line, or not at all. *)
LineEnd == {"result", "retry", "other", "stray"}
Chunk == LineEnd \cup {"part"}

VARIABLES
    out,        \* what the subprocess writes if it is left to
    written,    \* how many chunks of it are written
    read,       \* how many the scanner has taken
    held,       \* chunks of the unfinished line in the scanner's buffer
    account,    \* the Result so far, each event known by its last chunk
    run,        \* where Run is
    cut,        \* the scanner gave up on a line that was too long
    child,      \* the subprocess
    tool,       \* something it started holds its stdout and stderr open
    cancelled,  \* the run's context is
    outcome     \* what Run returned

streamVars == <<written, read, held, account, cut>>
vars == <<out, streamVars, run, child, tool, cancelled, outcome>>

Account == [result : Nat, retries : SUBSET Nat, strays : SUBSET Nat]

TypeOK ==
    /\ out \in Seq(Chunk)
    /\ written \in 0 .. Len(out) /\ read \in 0 .. written
    /\ held \in 0 .. MaxLine
    /\ account \in Account
    /\ run \in {"building", "scanning", "waiting", "returned"}
    /\ child \in {"none", "running", "gone"}
    /\ cut \in BOOLEAN /\ tool \in BOOLEAN /\ cancelled \in BOOLEAN
    /\ outcome \in {"none", "refused", "cancelled", "noResult", "result"}

Outputs == UNION {[1 .. n -> Chunk] : n \in 0 .. MaxChunks}

Init ==
    /\ out \in Outputs
    /\ written = 0 /\ read = 0 /\ held = 0
    /\ account = [result |-> 0, retries |-> {}, strays |-> {}]
    /\ run = "building" /\ child = "none" /\ outcome = "none"
    /\ cut = FALSE /\ tool = FALSE /\ cancelled = FALSE

(* Halt or the end of the daemon cancels the context at any time. *)
Cancel ==
    /\ run # "returned" /\ ~cancelled
    /\ cancelled' = TRUE
    /\ UNCHANGED <<out, streamVars, run, child, tool, outcome>>

(* BuildArgs refuses the job, the pipe cannot be made, or claude not be     *)
(* started, which a cancelled context is enough for. *)
Refuse ==
    /\ run = "building"
    /\ run' = "returned" /\ outcome' = "refused"
    /\ UNCHANGED <<out, streamVars, child, tool, cancelled>>

Start ==
    /\ run = "building" /\ ~cancelled
    /\ run' = "scanning" /\ child' = "running"
    /\ UNCHANGED <<out, streamVars, tool, cancelled, outcome>>
-----------------------------------------------------------------------------
(* The subprocess.  It blocks while the pipe is full, and may end at any    *)
(* other time, in the middle of a line too. *)
Blocked == written < Len(out) /\ written - read >= Capacity

Write ==
    /\ child = "running" /\ written < Len(out) /\ ~Blocked
    /\ written' = written + 1
    /\ UNCHANGED <<out, read, held, account, cut, run, child, tool, cancelled, outcome>>

Exit ==
    /\ child = "running" /\ ~Blocked
    /\ child' = "gone"
    /\ UNCHANGED <<out, streamVars, run, tool, cancelled, outcome>>

(* A tool it runs inherits its output, and outlives it or not. *)
ToolStarts ==
    /\ child = "running" /\ ~tool
    /\ tool' = TRUE
    /\ UNCHANGED <<out, streamVars, run, child, cancelled, outcome>>

ToolEnds ==
    /\ tool
    /\ tool' = FALSE
    /\ UNCHANGED <<out, streamVars, run, child, cancelled, outcome>>

(* Bug: exec.Command, which leaves the subprocess alone. *)
Kill_Never == FALSE /\ UNCHANGED vars

(* exec.CommandContext kills the subprocess, and that alone. *)
Kill ==
    /\ cancelled /\ child = "running"
    /\ child' = "gone"
    /\ UNCHANGED <<out, streamVars, run, tool, cancelled, outcome>>
-----------------------------------------------------------------------------
(* Bug: the result event replaces what was counted before it. *)
Enter_Afresh(a, line, i) ==
    CASE line = "result" -> [result |-> i, retries |-> {}, strays |-> {}]
      [] line = "retry"  -> [a EXCEPT !.retries = @ \cup {i}]
      [] line = "stray"  -> [a EXCEPT !.strays = @ \cup {i}]
      [] OTHER           -> a

(* What a whole line, known by its last chunk i, does to the Result. *)
Enter(a, line, i) ==
    CASE line = "result" -> [a EXCEPT !.result = i]
      [] line = "retry"  -> [a EXCEPT !.retries = @ \cup {i}]
      [] line = "stray"  -> [a EXCEPT !.strays = @ \cup {i}]
      [] OTHER           -> a

(* Bug: a line may be of any length. *)
ReadPart_Any ==
    /\ run = "scanning" /\ read < written
    /\ out[read + 1] = "part"
    /\ read' = read + 1
    /\ held' = held + 1
    /\ UNCHANGED <<out, written, account, cut, run, child, tool, cancelled, outcome>>

ReadPart ==
    /\ run = "scanning" /\ read < written
    /\ out[read + 1] = "part"
    /\ read' = read + 1
    /\ held' = held + 1
    /\ cut' = (held' = MaxLine)
    /\ run' = IF cut' THEN "waiting" ELSE run
    /\ UNCHANGED <<out, written, account, child, tool, cancelled, outcome>>

(* Bug: the event that every run ends with ends the reading. *)
ReadLine_LastEvent ==
    /\ run = "scanning" /\ read < written
    /\ out[read + 1] # "part"
    /\ read' = read + 1
    /\ held' = 0
    /\ account' = Enter(account, out[read + 1], read + 1)
    /\ run' = IF out[read + 1] = "result" THEN "waiting" ELSE run
    /\ UNCHANGED <<out, written, cut, child, tool, cancelled, outcome>>

ReadLine ==
    /\ run = "scanning" /\ read < written
    /\ out[read + 1] # "part"
    /\ read' = read + 1
    /\ held' = 0
    /\ account' = Enter(account, out[read + 1], read + 1)
    /\ UNCHANGED <<out, written, cut, run, child, tool, cancelled, outcome>>

(* The end of the stream, once nobody can write to it any more.  A line     *)
(* left unfinished is read as a line and does not parse. *)
Closed == child = "gone" /\ ~tool

ReadEnd ==
    /\ run = "scanning" /\ read = written /\ Closed
    /\ run' = "waiting"
    /\ held' = 0
    /\ account' = IF held = 0 THEN account ELSE Enter(account, "stray", read)
    /\ UNCHANGED <<out, written, read, cut, child, tool, cancelled, outcome>>

(* cmd.Wait returns when the subprocess has ended and its stderr is closed; *)
(* the pipe is not drained meanwhile. *)
Verdict ==
    CASE cancelled          -> "cancelled"
      [] account.result = 0 -> "noResult"
      [] OTHER              -> "result"

WaitReturns ==
    /\ run = "waiting" /\ Closed
    /\ run' = "returned"
    /\ outcome' = Verdict
    /\ UNCHANGED <<out, streamVars, child, tool, cancelled>>

Scan == ReadPart \/ ReadLine \/ ReadEnd

Next ==
    \/ Cancel \/ Refuse \/ Start
    \/ Write \/ Exit \/ ToolStarts \/ ToolEnds \/ Kill
    \/ Scan \/ WaitReturns

(* The reader and the goroutine that kills go on whenever they can, tools   *)
(* end, and the subprocess writes when it can; nothing makes it end. *)
Fairness ==
    /\ WF_vars(Scan) /\ WF_vars(WaitReturns) /\ WF_vars(Kill)
    /\ WF_vars(Write) /\ WF_vars(ToolEnds)

Spec == Init /\ [][Next]_vars /\ Fairness
-----------------------------------------------------------------------------
Lines(kind, n) == {i \in 1 .. n : out[i] = kind}

(* A line that the end of the stream cut short. *)
Unfinished(n) == {i \in {n} : n > 0 /\ out[n] = "part"}

Ended == run \in {"waiting", "returned"} /\ ~cut /\ outcome # "refused"

PhaseInv ==
    /\ run = "building" => child = "none"
    /\ run \in {"building", "scanning"} =>
          ~cut /\ held < MaxLine /\ (held > 0 <=> Unfinished(read) # {})
    /\ run # "returned" => outcome = "none"
    /\ Ended => read = written /\ Closed
    /\ outcome = "noResult" => account.result = 0
    /\ outcome = "result" => account.result # 0

AccountInv ==
    /\ account.result \in Lines("result", read) \cup {0}
    /\ \A i \in Lines("result", read) : i <= account.result
    /\ account.retries = Lines("retry", read)
    /\ ~cut => account.strays = Lines("stray", read)
                              \cup (IF Ended THEN Unfinished(read) ELSE {})

(* The account is that of the chunks read, an unfinished line only once the *)
(* stream has ended; and then nothing is written any more (Run's loop and   *)
(* cmd.Wait). *)
RunnerInv == TypeOK /\ PhaseInv /\ AccountInv

(* A run that was left alone, and whose lines all fit, is reported as what  *)
(* the subprocess wrote: everything it wrote has been read, the result is   *)
(* the last it gave, and every retry and every stray line is counted,       *)
(* whether it came before the result or after it, and whatever crash ended  *)
(* the subprocess. *)
WholeStream ==
    run = "returned" /\ outcome \in {"noResult", "result"} /\ ~cut =>
        /\ read = written
        /\ outcome = "result" <=> Lines("result", written) # {}
        /\ account.result \in Lines("result", written) \cup {0}
        /\ \A i \in Lines("result", written) : i <= account.result
        /\ account.retries = Lines("retry", written)
        /\ account.strays = Lines("stray", written) \cup Unfinished(written)

(* The reader never leaves the subprocess waiting at a full pipe: it gets   *)
(* to write all it means to, unless it ends before or a line was too long. *)
NeverBlocked ==
    run = "scanning" ~> (written = Len(out) \/ child = "gone" \/ cut)

(* Once the subprocess has ended, or the context was cancelled, however far *)
(* the reader is and whatever the pipe still holds, Run returns. *)
Ends ==
    (run # "building" /\ (child = "gone" \/ cancelled)) ~> run = "returned"
=============================================================================
