------------------------------- MODULE Pacing -------------------------------
(***************************************************************************)
(* The scheduler's admission checks (internal/scheduler: computeUsageState, *)
(* Decide and Tick) on what Usage models, with the configuration that       *)
(* PUT /api/scheduler/config replaces.                                      *)
(*                                                                         *)
(* A tick reads the configuration, sweeps the queue, takes the time, reads  *)
(* the latest reading and, when that is stale, the ledger; users, sessions, *)
(* the index and the clock go on in between.  It then starts at most one    *)
(* run, and waits for it.  Which job it starts, and FitJob, are left to     *)
(* Daemon and Spend.                                                        *)
(***************************************************************************)
EXTENDS Usage, TimeBlock

CONSTANTS
    Configs,        \* the configurations users ask for
    Freshness,      \* groundTruthFreshness
    Fact,           \* the facts whose consequences are counted
    MaxEdits, MaxRestarts   \* bounds

(* target is Aggressiveness - safetyMarginPercent, which is both the        *)
(* five-hour ceiling and the weekly target. *)
Config == [enabled: BOOLEAN, target: Int, reserved: SUBSET Block]
ASSUME ConfigsAssumption == Configs \subseteq Config
ASSUME FreshnessAssumption == Freshness \in Nat
ASSUME CalendarAssumption ==
    \A d \in DOMAIN Begins : d + 1 \notin DOMAIN Begins => MaxTime < Begins[d] + Day
ASSUME FactAssumption == Fact \subseteq {"disabled", "full", "asleep"}

DefaultConfig == [enabled |-> FALSE, target |-> Full \div 2, reserved |-> {}]

VARIABLES
    config,         \* table scheduler_config
    pc,             \* where the tick is
    cfg,            \* the configuration it has read
    asOf,           \* the time it took, if it goes on to the ledger
    spent,          \* the tokens of its run so far
    late,           \* history: runs started since a fact that forbids them
    edits, restarts

tickVars == <<pc, cfg, asOf, spent>>
vars == <<usageVars, config, tickVars, late, edits, restarts>>

Label == {"idle", "reading", "ledger", "dispatch", "run"}

PacingTypeOK ==
    /\ UsageTypeOK
    /\ config \in Config
    /\ pc \in Label
    /\ cfg \in Config
    /\ asOf \in Nat
    /\ spent \in Nat
    /\ late \in [Fact -> 0 .. 2]
    /\ edits \in Nat
    /\ restarts \in Nat

Init ==
    /\ UsageInit
    /\ config \in Configs \cup {DefaultConfig}
    /\ pc = "idle"
    /\ cfg = DefaultConfig
    /\ asOf = 0 /\ spent = 0
    /\ late = [f \in Fact |-> 0]
    /\ edits = 0
    /\ restarts = 0

-----------------------------------------------------------------------------

(* Bug: a reading is never too old. *)
Fresh_Always(n, t) == n > 0

Fresh(n, t) == n > 0 /\ t - readings[n].at <= Freshness

AtTarget(c, pct) == \E w \in Windows : pct[w] >= c.target

Reading(n) == [w \in Windows |-> readings[n].of[w].pct]
Estimate(t) == [w \in Windows |-> EstimatedPercent(w, t)]

InReserved(c, t) == \E b \in c.reserved : Contains(b, t)

(* Reading n is at the target of a window that has not been reset at t, of  *)
(* which Decision.SleepUntil tells. *)
Asleep(n, c, t) ==
    \E w \in Windows : readings[n].of[w].pct >= c.target /\ t < readings[n].of[w].resets

(* The facts that forbid a run, as the tables have them at this moment: the *)
(* scheduler is disabled, the latest reading is fresh and at the target, or *)
(* it is at the target of a window that has not been reset since. *)
Holds(fact) ==
    LET n == Len(readings) IN
    \/ fact = "disabled" /\ ~config.enabled
    \/ fact = "full" /\ Fresh(n, now) /\ AtTarget(config, Reading(n))
    \/ fact = "asleep" /\ n > 0 /\ Asleep(n, config, now)

(* What is left of the count when facts cease to hold. *)
Watch == late' = [f \in Fact |-> IF Holds(f)' THEN late[f] ELSE 0]

-----------------------------------------------------------------------------

(* What the tick knew is used no more. *)
Forget == cfg' = DefaultConfig /\ asOf' = 0 /\ spent' = 0

Idle == pc' = "idle" /\ Forget

TickConfig ==
    /\ pc = "idle"
    /\ cfg' = config
    /\ pc' = "reading"
    /\ UNCHANGED <<usageVars, config, asOf, spent, late, edits, restarts>>

Decide(pct, t) ==
    \/ /\ ~cfg.enabled \/ InReserved(cfg, t) \/ AtTarget(cfg, pct)
       /\ Idle
    \/ /\ cfg.enabled /\ ~InReserved(cfg, t) /\ ~AtTarget(cfg, pct)
       /\ pc' = "dispatch"
       /\ Forget

TickReading ==
    /\ pc = "reading"
    /\ IF Fresh(Len(readings), now)
       THEN Decide(Reading(Len(readings)), now)
       ELSE pc' = "ledger" /\ asOf' = now /\ UNCHANGED <<cfg, spent>>
    /\ UNCHANGED <<usageVars, config, late, edits, restarts>>

(* Source is SourceUnknown where there is no rate: Decide does not look at  *)
(* it, and the window counts as empty. *)
TickLedger ==
    /\ pc = "ledger"
    /\ Decide(Estimate(asOf), asOf)
    /\ UNCHANGED <<usageVars, config, late, edits, restarts>>

(* No candidate, or none that fits. *)
TickDone ==
    /\ pc = "dispatch"
    /\ Idle
    /\ UNCHANGED <<usageVars, config, late, edits, restarts>>

Start ==
    /\ pc = "dispatch"
    /\ pc' = "run"
    /\ spent' = 0
    /\ late' = [f \in Fact |-> IF Holds(f) THEN AtMost(2, late[f] + 1) ELSE 0]
    /\ UNCHANGED <<usageVars, config, cfg, asOf, edits, restarts>>

(* claude works on the job: its messages cost, and are written down, as     *)
(* everybody's are. *)
Turn ==
    /\ pc = "run"
    /\ Message
    /\ spent' = spent + 1
    /\ UNCHANGED <<heard, config, pc, cfg, asOf, late, edits, restarts>>

(* Bug: the tick goes on to the next candidate after a run. *)
Finish_NextCandidate ==
    /\ pc = "run"
    /\ spent > 0
    /\ RecordUsage([uuid |-> Unindexed, tokens |-> spent, at |-> now])
    /\ pc' = "dispatch"
    /\ Forget
    /\ UNCHANGED <<now, plan, transcript, heard, readings, scan,
                   config, late, edits, restarts>>

(* A run with a result is recorded; one that ends in an error is not. *)
Finish ==
    /\ pc = "run"
    /\ spent > 0
    /\ RecordUsage([uuid |-> Unindexed, tokens |-> spent, at |-> now])
    /\ Idle
    /\ UNCHANGED <<now, plan, transcript, heard, readings, scan,
                   config, late, edits, restarts>>

RunError ==
    /\ pc = "run"
    /\ Idle
    /\ UNCHANGED <<usageVars, config, late, edits, restarts>>

-----------------------------------------------------------------------------

UpdateSchedulerConfig(c) ==
    /\ edits < MaxEdits
    /\ edits' = edits + 1
    /\ config' = c
    /\ UNCHANGED <<usageVars, tickVars, restarts>>
    /\ late' = [f \in Fact |->
          IF f = "disabled" /\ Holds(f)' THEN late[f] ELSE 0]

Say(s) ==
    /\ Chat(s)
    /\ UNCHANGED <<config, tickVars, late, edits, restarts>>

HandleRecordGroundTruth(s) ==
    /\ RecordGroundTruth(s)
    /\ UNCHANGED <<config, tickVars, edits, restarts>>
    /\ Watch

Index(m) ==
    /\ IndexLine(m)
    /\ UNCHANGED <<config, tickVars, late, edits, restarts>>

SkipLine(m) ==
    /\ IndexError(m)
    /\ UNCHANGED <<config, tickVars, late, edits, restarts>>

Pass ==
    /\ Advance
    /\ UNCHANGED <<config, tickVars, edits, restarts>>
    /\ Watch

(* The daemon dies and is started again. *)
Restart ==
    /\ restarts < MaxRestarts
    /\ restarts' = restarts + 1
    /\ IndexProjects
    /\ Idle
    /\ UNCHANGED <<now, plan, transcript, heard, readings, ledger,
                   config, late, edits>>

Next ==
    \/ TickConfig \/ TickReading \/ TickLedger \/ TickDone
    \/ Start \/ Turn \/ Finish \/ RunError
    \/ \E c \in Configs : UpdateSchedulerConfig(c)
    \/ \E s \in Sessions : Say(s) \/ HandleRecordGroundTruth(s)
    \/ \E m \in scan : Index(m) \/ SkipLine(m)
    \/ Pass
    \/ Restart

Spec == Init /\ [][Next]_vars

-----------------------------------------------------------------------------

(* However often the index is cut short and done again, a line is entered   *)
(* at most once (RecordUsageIfNew).  *)
IndexedOnce ==
    \A i, j \in DOMAIN ledger :
        (ledger[i].uuid # Unindexed /\ ledger[i].uuid = ledger[j].uuid) => i = j

(* Once a fact that forbids runs is in the database - the scheduler is      *)
(* disabled, or the latest reading is fresh and at the target - the tick    *)
(* that may be under way starts one run more, and no tick a second one. *)
OneMoreAtMost == \A f \in Fact \cap {"disabled", "full"} : late[f] <= 1

(* A tick that ends where it was free to go on knows of a reading of the    *)
(* last hour, of one at the target of a window that is still to be reset,   *)
(* or of tokens of the last seven days.                                     *)
HeldBack ==
    LET t == IF pc = "ledger" THEN asOf ELSE now IN
    (/\ pc \in {"reading", "ledger"} /\ pc' = "idle" /\ restarts' = restarts
     /\ cfg.enabled /\ ~InReserved(cfg, t) /\ cfg.target > 0)
    => \/ \E i \in DOMAIN readings :
             t - readings[i].at <= Freshness \/ Asleep(i, cfg, t)
       \/ \E i \in DOMAIN ledger : t - ledger[i].at <= SevenDay

(* What was read of a window that has been reset since holds nothing back   *)
(* for longer than an hour: with no reading of the last hour, none at the   *)
(* target of a window that is still to be reset and no use in the last      *)
(* seven days, a time that is not reserved is open, as long as the user     *)
(* allows anything at all (computeUsageState, Decide, SleepUntil).          *)
QuietIsOpen == [][HeldBack]_vars

(* A block reserves what it covers, beginning on the days it names, except  *)
(* where the clock is set. *)
BlocksCover ==
    \A c \in Configs : \A b \in c.reserved :
        YesterdayIsADayAgo(now) => (Contains(b, now) = Covers(b, now))

(* A full window is left alone until it is reset, but for the one run that  *)
(* may be on its way, unless the user or the plan has more to say. *)
HoldsUntilReset == \A f \in Fact \cap {"asleep"} : late[f] <= 1
=============================================================================
