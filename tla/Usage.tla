------------------------------- MODULE Usage --------------------------------
(***************************************************************************)
(* What tokenwarden knows of the plan's two windows: the readings that the  *)
(* status line posts (cmd/twprobe), the ledger (internal/budget,            *)
(* internal/store/usage.go) with the index of Claude Code's own transcripts *)
(* (internal/backfill), and the rate fitted from both.                      *)
(*                                                                         *)
(* The plan itself, the user's sessions and the transcripts they leave are  *)
(* outside: a message costs one token, a window opens with the first        *)
(* message after the last one closed, and a session shows in its status     *)
(* line what the plan reported with its last message.                       *)
(***************************************************************************)
EXTENDS Integers, Sequences, FiniteSetsExt

CONSTANTS
    Sessions,       \* the user's interactive sessions
    FiveHour, SevenDay,     \* the lengths of the windows
    PerPercent,     \* tokens to a percent of either window
    Full,           \* a full window, in percent: 100
    MinSamples,     \* minCalibrationSamples: 3
    Past,           \* bound: the messages before the daemon is first started
    MaxTime, MaxMessages, MaxReadings   \* bounds

ASSUME WindowAssumption ==
    FiveHour \in Nat \ {0} /\ SevenDay \in Nat /\ FiveHour < SevenDay
ASSUME PercentAssumption ==
    PerPercent \in Nat \ {0} /\ Full \in Nat \ {0} /\ MinSamples \in Nat \ {0}
ASSUME BoundAssumption == Past \in Nat /\ MaxTime \in Nat

VARIABLES
    now,            \* the clock
    plan,           \* each window's use, and when it closes
    transcript,     \* when each line was written; its uuid is its number
    heard,          \* what each session was last told of the plan
    readings,       \* table ground_truth_readings, in order of observed_at
    ledger,         \* table usage_entries
    scan            \* the lines the index has still to read

usageVars == <<now, plan, transcript, heard, readings, ledger, scan>>

Windows == {"five", "seven"}
Length == [five |-> FiveHour, seven |-> SevenDay]

Report == [Windows -> [pct: 0 .. Full, resets: Nat]]
NoReport == [w \in Windows |-> [pct |-> 0, resets |-> 0]]

Unindexed == 0      \* the source_uuid of an entry that a run recorded
Entry == [uuid: Nat, tokens: Nat, at: Nat]

UsageTypeOK ==
    /\ now \in 0 .. MaxTime
    /\ plan \in [Windows -> [used: Nat, resets: Nat]]
    /\ transcript \in Seq(Nat)
    /\ heard \in [Sessions -> Report]
    /\ readings \in Seq([of: Report, at: Nat])
    /\ ledger \in Seq(Entry)
    /\ scan \subseteq DOMAIN transcript

(* The daemon is first started where Claude Code may have been in use. *)
UsageInit ==
    /\ now = 0
    /\ \E n \in 0 .. Past :
        /\ plan = [w \in Windows |->
              [used |-> n, resets |-> IF n = 0 THEN 0 ELSE Length[w]]]
        /\ transcript = [m \in 1 .. n |-> 0]
    /\ heard = [s \in Sessions |-> NoReport]
    /\ readings = <<>>
    /\ ledger = <<>>
    /\ scan = DOMAIN transcript

-----------------------------------------------------------------------------

(* A message is answered, in a user's session or one of the daemon's own;   *)
(* its line may be read by an index that is still under way. *)
Message ==
    /\ Len(transcript) < MaxMessages
    /\ plan' = [w \in Windows |->
          IF now < plan[w].resets
          THEN [plan[w] EXCEPT !.used = @ + 1]
          ELSE [used |-> 1, resets |-> now + Length[w]]]
    /\ transcript' = Append(transcript, now)
    /\ scan' \in {scan} \cup (IF scan = {} THEN {} ELSE {scan \cup {Len(transcript) + 1}})
    /\ UNCHANGED <<now, readings, ledger>>

AtMost(m, n) == IF n < m THEN n ELSE m

(* A user's message: the session then knows how full the windows are. *)
Chat(s) ==
    /\ Message
    /\ heard' = [heard EXCEPT ![s] = [w \in Windows |->
          [pct |-> AtMost(Full, plan'[w].used \div PerPercent),
           resets |-> plan'[w].resets]]]

(* The status line is drawn, and what the session was last told is posted   *)
(* as read now.  Nothing is posted before the session's first message, and  *)
(* a post that is lost is one that is not made. *)
RecordGroundTruth(s) ==
    /\ Len(readings) < MaxReadings
    /\ heard[s] # NoReport
    /\ readings' = Append(readings, [of |-> heard[s], at |-> now])
    /\ UNCHANGED <<now, plan, transcript, heard, ledger, scan>>

(* The daemon reads every transcript when it is started. *)
IndexProjects == scan' = DOMAIN transcript

RecordUsage(e) == ledger' = Append(ledger, e)

Indexed(m) == \E i \in DOMAIN ledger : ledger[i].uuid = m

(* Bug: the entry is inserted without a look at what is there. *)
RecordUsageIfNew_Always(m) ==
    RecordUsage([uuid |-> m, tokens |-> 1, at |-> transcript[m]])

RecordUsageIfNew(m) ==
    IF Indexed(m) THEN UNCHANGED ledger
    ELSE RecordUsage([uuid |-> m, tokens |-> 1, at |-> transcript[m]])

IndexLine(m) ==
    /\ m \in scan
    /\ scan' = scan \ {m}
    /\ RecordUsageIfNew(m)
    /\ UNCHANGED <<now, plan, transcript, heard, readings>>

(* A line whose insertion fails is left out until the next start. *)
IndexError(m) ==
    /\ m \in scan
    /\ scan' = scan \ {m}
    /\ UNCHANGED <<now, plan, transcript, heard, readings, ledger>>

Advance ==
    /\ now < MaxTime
    /\ now' = now + 1
    /\ UNCHANGED <<plan, transcript, heard, readings, ledger, scan>>

-----------------------------------------------------------------------------

Tokens(I) == MapThenSumSet(LAMBDA i : ledger[i].tokens, I)

(* ListUsageSince includes the instant it is given. *)
UsageSince(t) == {i \in DOMAIN ledger : ledger[i].at >= t}

WindowTotal(w, t) == Tokens(UsageSince(t - Length[w]))

TokensSpentBetween(since, until) ==
    Tokens({i \in UsageSince(since) : ledger[i].at <= until})

(* The pairs of consecutive readings that show how much a percent costs. *)
Rise(w, i) == readings[i].of[w].pct - readings[i - 1].of[w].pct
Spent(i) == TokensSpentBetween(readings[i - 1].at, readings[i].at)
Samples(w) ==
    {i \in 2 .. Len(readings) :
        /\ readings[i].of[w].resets = readings[i - 1].of[w].resets
        /\ Rise(w, i) > 0
        /\ Spent(i) > 0}

(* The sum of their ratios, as a fraction. *)
Ratios(w) ==
    LET add(i, q) == [num |-> q.num * Rise(w, i) + Spent(i) * q.den,
                      den |-> q.den * Rise(w, i)]
    IN FoldSet(add, [num |-> 0, den |-> 1], Samples(w))

Sufficient(w) == Cardinality(Samples(w)) >= MinSamples

(* percentFromTokens: the tokens over the mean of the ratios. *)
PercentFromTokens(w, tokens) ==
    LET q == Ratios(w)
    IN AtMost(Full, (tokens * Cardinality(Samples(w)) * q.den) \div q.num)

(* Zero where there is no signal. *)
EstimatedPercent(w, t) ==
    IF Sufficient(w) THEN PercentFromTokens(w, WindowTotal(w, t)) ELSE 0
=============================================================================
