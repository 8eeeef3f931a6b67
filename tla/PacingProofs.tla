---------------------------- MODULE PacingProofs ----------------------------
(***************************************************************************)
(* What Pacing promises, for every configuration, every length of the       *)
(* windows and any number of sessions, messages, readings and restarts.     *)
(***************************************************************************)
EXTENDS Pacing, SequenceTheorems, FiniteSetTheorems, WellFoundedInduction, TLAPS

(* A percentage is between nothing and a full window. *)
LEMMA PercentType ==
    ASSUME NEW n \in Nat
    PROVE  AtMost(Full, n \div PerPercent) \in 0 .. Full
<1>1. n \div PerPercent \in Nat BY PercentAssumption, SMT
<1>2. QED BY <1>1, PercentAssumption DEF AtMost

LEMMA DefaultConfigType == DefaultConfig \in Config
<1>1. Full \div 2 \in Int BY PercentAssumption
<1>2. QED BY <1>1 DEF DefaultConfig, Config

LEMMA WindowTypes ==
    /\ \A w \in Windows : Length[w] \in Nat
    /\ NoReport \in Report
BY WindowAssumption, PercentAssumption DEF Windows, Length, NoReport, Report

LEMMA MessageType ==
    ASSUME UsageTypeOK, Message, heard' \in [Sessions -> Report]
    PROVE  UsageTypeOK'
<1>1. plan' \in [Windows -> [used: Nat, resets: Nat]]
  BY WindowTypes DEF Message, UsageTypeOK
<1>2. Len(transcript') = Len(transcript) + 1 /\ transcript' \in Seq(Nat)
  BY DEF Message, UsageTypeOK
<1>3. scan' \subseteq DOMAIN transcript'
  <2>1. Len(transcript) + 1 \in DOMAIN transcript' /\ DOMAIN transcript \subseteq DOMAIN transcript'
    BY <1>2 DEF UsageTypeOK
  <2>2. scan' \subseteq scan \cup {Len(transcript) + 1}
    BY DEF Message
  <2>. QED
    BY <2>1, <2>2 DEF UsageTypeOK
<1>. QED
  BY <1>1, <1>2, <1>3 DEF Message, UsageTypeOK

(* What a session hears of the plan is a report. *)
LEMMA ChatType ==
    ASSUME UsageTypeOK, NEW s \in Sessions, Chat(s)
    PROVE  UsageTypeOK'
<1>1. plan' \in [Windows -> [used: Nat, resets: Nat]]
  BY WindowTypes DEF Chat, Message, UsageTypeOK
<1>2. ASSUME NEW w \in Windows
      PROVE  AtMost(Full, plan'[w].used \div PerPercent) \in 0 .. Full /\ plan'[w].resets \in Nat
  BY <1>1, PercentType
<1>3. [w \in Windows |-> [pct |-> AtMost(Full, plan'[w].used \div PerPercent),
                          resets |-> plan'[w].resets]] \in Report
  BY <1>2 DEF Report
<1>4. heard' \in [Sessions -> Report]
  BY <1>3 DEF Chat, UsageTypeOK
<1>. QED
  BY <1>4, MessageType DEF Chat

LEMMA RecordType ==
    ASSUME UsageTypeOK, NEW e \in Entry, RecordUsage(e),
           UNCHANGED <<now, plan, transcript, heard, readings>>, scan' \subseteq scan
    PROVE  UsageTypeOK'
BY DEF RecordUsage, UsageTypeOK

LEMMA IndexLineType ==
    ASSUME UsageTypeOK, NEW m \in scan, IndexLine(m)
    PROVE  UsageTypeOK'
<1>1. transcript[m] \in Nat /\ m \in Nat
  BY DEF UsageTypeOK
<1>2. [uuid |-> m, tokens |-> 1, at |-> transcript[m]] \in Entry
  BY <1>1 DEF Entry
<1>3. CASE Indexed(m)
  BY <1>3 DEF IndexLine, RecordUsageIfNew, UsageTypeOK
<1>4. CASE ~Indexed(m)
  BY <1>2, <1>4, RecordType DEF IndexLine, RecordUsageIfNew
<1>. QED
  BY <1>3, <1>4

-----------------------------------------------------------------------------

USE DEF Idle, Forget, tickVars

LEMMA TypeInit == Init => PacingTypeOK
<1>1. ASSUME Init PROVE UsageTypeOK
  <2>1. PICK n \in 0 .. Past :
          /\ plan = [w \in Windows |->
                [used |-> n, resets |-> IF n = 0 THEN 0 ELSE Length[w]]]
          /\ transcript = [m \in 1 .. n |-> 0]
    BY <1>1 DEF Init, UsageInit
  <2>2. n \in Nat
    BY BoundAssumption
  <2>3. transcript \in Seq(Nat)
    <3>1. \A m \in 1 .. n : 0 \in Nat
      OBVIOUS
    <3>. QED
      BY <2>1, <2>2, <3>1, IsASeq
  <2>4. plan \in [Windows -> [used: Nat, resets: Nat]]
    BY <2>1, <2>2, WindowTypes
  <2>. QED
    BY <1>1, <2>3, <2>4, WindowTypes, BoundAssumption DEF Init, UsageInit, UsageTypeOK
<1>. QED
  BY <1>1, DefaultConfigType, ConfigsAssumption DEF Init, PacingTypeOK, Label

LEMMA TypeStep == PacingTypeOK /\ [Next]_vars => PacingTypeOK'
<1> SUFFICES ASSUME PacingTypeOK, [Next]_vars
             PROVE  PacingTypeOK'
  OBVIOUS
<1> USE DefaultConfigType DEF PacingTypeOK, Label
<1>1. CASE TickConfig
  BY <1>1 DEF TickConfig, usageVars, UsageTypeOK
<1>2. CASE TickReading
  BY <1>2 DEF TickReading, Decide, usageVars, UsageTypeOK
<1>3. CASE TickLedger
  BY <1>3 DEF TickLedger, Decide, usageVars, UsageTypeOK
<1>4. CASE TickDone
  BY <1>4 DEF TickDone, usageVars, UsageTypeOK
<1>5. CASE Start
  <2>1. late' \in [Fact -> 0 .. 2]
    BY <1>5 DEF Start, AtMost
  <2>. QED
    BY <1>5, <2>1 DEF Start, usageVars, UsageTypeOK
<1>6. CASE Turn
  <2>1. UsageTypeOK'
    BY <1>6, MessageType DEF Turn, UsageTypeOK
  <2>. QED
    BY <1>6, <2>1 DEF Turn
<1>7. CASE Finish
  <2>1. UsageTypeOK'
    <3>1. now \in Nat
      BY BoundAssumption DEF UsageTypeOK
    <3>2. [uuid |-> Unindexed, tokens |-> spent, at |-> now] \in Entry
      BY <3>1 DEF Entry, Unindexed
    <3> QED
      BY <1>7, <3>2, RecordType DEF Finish
  <2>. QED
    BY <1>7, <2>1 DEF Finish
<1>8. CASE RunError
  BY <1>8 DEF RunError, usageVars, UsageTypeOK
<1>9. ASSUME NEW c \in Configs, UpdateSchedulerConfig(c)
      PROVE  PacingTypeOK'
  BY <1>9, ConfigsAssumption DEF UpdateSchedulerConfig, usageVars, UsageTypeOK
<1>10. ASSUME NEW s \in Sessions, Say(s)
       PROVE  PacingTypeOK'
  BY <1>10, ChatType DEF Say
<1>11. ASSUME NEW s \in Sessions, HandleRecordGroundTruth(s)
       PROVE  PacingTypeOK'
  <2>1. UsageTypeOK'
    BY <1>11 DEF HandleRecordGroundTruth, RecordGroundTruth, UsageTypeOK
  <2>. QED
    BY <1>11, <2>1 DEF HandleRecordGroundTruth, Watch
<1>12. ASSUME NEW m \in scan, Index(m)
       PROVE  PacingTypeOK'
  BY <1>12, IndexLineType DEF Index
<1>13. ASSUME NEW m \in scan, SkipLine(m)
       PROVE  PacingTypeOK'
  BY <1>13 DEF SkipLine, IndexError, UsageTypeOK
<1>14. CASE Pass
  <2>1. UsageTypeOK'
    BY <1>14, BoundAssumption DEF Pass, Advance, UsageTypeOK
  <2>. QED
    BY <1>14, <2>1 DEF Pass, Watch
<1>15. CASE Restart
  BY <1>15 DEF Restart, IndexProjects, UsageTypeOK
<1>16. CASE UNCHANGED vars
  BY <1>16 DEF vars, usageVars, UsageTypeOK
<1>. QED
  BY <1>1, <1>2, <1>3, <1>4, <1>5, <1>6, <1>7, <1>8, <1>9, <1>10, <1>11, <1>12,
     <1>13, <1>14, <1>15, <1>16 DEF Next

(* Every variable keeps its type. *)
THEOREM PacingTypeCorrect == Spec => []PacingTypeOK
BY TypeInit, TypeStep, PTL DEF Spec

-----------------------------------------------------------------------------

(* An entry added under a uuid that is not there yet, or under none, leaves *)
(* every other uuid entered once. *)
LEMMA RecordOnce ==
    ASSUME ledger \in Seq(Entry), IndexedOnce, NEW e \in Entry, RecordUsage(e),
           e.uuid = Unindexed \/ ~Indexed(e.uuid)
    PROVE  IndexedOnce'
<1>1. /\ Len(ledger') = Len(ledger) + 1
      /\ \A i \in DOMAIN ledger : ledger'[i] = ledger[i]
      /\ ledger'[Len(ledger) + 1] = e
      /\ DOMAIN ledger' = DOMAIN ledger \cup {Len(ledger) + 1}
  BY DEF RecordUsage
<1> SUFFICES ASSUME NEW i \in DOMAIN ledger', NEW j \in DOMAIN ledger',
                    ledger'[i].uuid # Unindexed, ledger'[i].uuid = ledger'[j].uuid
             PROVE  i = j
  BY DEF IndexedOnce
<1>2. CASE i \in DOMAIN ledger /\ j \in DOMAIN ledger
  BY <1>1, <1>2 DEF IndexedOnce
<1>3. CASE i = Len(ledger) + 1 /\ j \in DOMAIN ledger
  BY <1>1, <1>3 DEF Indexed
<1>4. CASE i \in DOMAIN ledger /\ j = Len(ledger) + 1
  BY <1>1, <1>4 DEF Indexed
<1>. QED
  BY <1>1, <1>2, <1>3, <1>4

LEMMA IndexedOnceStep == PacingTypeOK /\ IndexedOnce /\ [Next]_vars => IndexedOnce'
<1> SUFFICES ASSUME PacingTypeOK, IndexedOnce, [Next]_vars
             PROVE  IndexedOnce'
  OBVIOUS
<1>1. ledger \in Seq(Entry) /\ transcript \in Seq(Nat) /\ scan \subseteq DOMAIN transcript
  BY DEF PacingTypeOK, UsageTypeOK
<1>2. ASSUME UNCHANGED ledger PROVE IndexedOnce'
  BY <1>2 DEF IndexedOnce
<1>3. CASE Finish
  <2>1. [uuid |-> Unindexed, tokens |-> spent, at |-> now] \in Entry
    BY DEF PacingTypeOK, UsageTypeOK, Entry, Unindexed
  <2>. QED
    BY <1>1, <1>3, <2>1, RecordOnce DEF Finish
<1>4. ASSUME NEW m \in scan, Index(m)
      PROVE  IndexedOnce'
  <2>1. CASE Indexed(m)
    BY <1>2, <1>4, <2>1 DEF Index, IndexLine, RecordUsageIfNew
  <2>2. CASE ~Indexed(m)
    <3>1. [uuid |-> m, tokens |-> 1, at |-> transcript[m]] \in Entry
      BY <1>1 DEF Entry
    <3>. QED
      BY <1>1, <1>4, <2>2, <3>1, RecordOnce DEF Index, IndexLine, RecordUsageIfNew
  <2>. QED
    BY <2>1, <2>2
<1>5. CASE TickConfig \/ TickReading \/ TickLedger \/ TickDone \/ Start \/ RunError
  BY <1>2, <1>5 DEF TickConfig, TickReading, TickLedger, TickDone, Start, RunError, usageVars
<1>6. CASE Turn \/ Pass \/ Restart
  BY <1>2, <1>6 DEF Turn, Message, Pass, Advance, Restart
<1>7. ASSUME NEW c \in Configs, UpdateSchedulerConfig(c)
      PROVE  IndexedOnce'
  BY <1>2, <1>7 DEF UpdateSchedulerConfig, usageVars
<1>8. ASSUME NEW s \in Sessions, Say(s) \/ HandleRecordGroundTruth(s)
      PROVE  IndexedOnce'
  BY <1>2, <1>8 DEF Say, Chat, Message, HandleRecordGroundTruth, RecordGroundTruth
<1>9. ASSUME NEW m \in scan, SkipLine(m)
      PROVE  IndexedOnce'
  BY <1>2, <1>9 DEF SkipLine, IndexError
<1>10. CASE UNCHANGED vars
  BY <1>2, <1>10 DEF vars, usageVars
<1>. QED
  BY <1>3, <1>4, <1>5, <1>6, <1>7, <1>8, <1>9, <1>10 DEF Next

(* A line of a transcript is entered in the ledger at most once, however    *)
(* often the index is interrupted and run again (RecordUsageIfNew). *)
THEOREM IndexedOnceAlways == Spec => []IndexedOnce
<1>1. Init => IndexedOnce
  BY DEF Init, UsageInit, IndexedOnce
<1>. QED
  BY <1>1, TypeInit, TypeStep, IndexedOnceStep, PTL DEF Spec

-----------------------------------------------------------------------------

(* What keeps a second run from being started: once one has been started    *)
(* although a fact forbids it, the fact still holds, and no tick under way  *)
(* has decided, or can decide, against it. *)
DisabledInv ==
    (late["disabled"] > 0) =>
        /\ late["disabled"] = 1
        /\ ~config.enabled
        /\ pc # "dispatch"
        /\ pc \in {"reading", "ledger"} => ~cfg.enabled
FullInv ==
    (late["full"] > 0) =>
        /\ late["full"] = 1
        /\ Fresh(Len(readings), now)
        /\ AtTarget(config, Reading(Len(readings)))
        /\ pc \notin {"ledger", "dispatch"}
        /\ pc = "reading" => cfg.target = config.target
LateInv ==
    /\ "disabled" \in Fact => DisabledInv
    /\ "full" \in Fact => FullInv

LEMMA HoldsCases ==
    /\ Holds("disabled") <=> ~config.enabled
    /\ Holds("full") <=> /\ Fresh(Len(readings), now)
                         /\ AtTarget(config, Reading(Len(readings)))
BY DEF Holds

(* Where nothing but the tick moves, what holds of the tables still does. *)
LEMMA SameTables ==
    ASSUME UNCHANGED <<config, readings, now>>
    PROVE  /\ \A f \in {"disabled", "full"} : Holds(f)' = Holds(f)
           /\ Fresh(Len(readings), now)' = Fresh(Len(readings), now)
           /\ AtTarget(config, Reading(Len(readings)))' = AtTarget(config, Reading(Len(readings)))
BY DEF Holds, Fresh, AtTarget, Reading

LEMMA LateStep == PacingTypeOK /\ LateInv /\ [Next]_vars => LateInv'
<1> SUFFICES ASSUME PacingTypeOK, LateInv, [Next]_vars
             PROVE  LateInv'
  OBVIOUS
<1> USE DEF LateInv, DisabledInv, FullInv
<1>1. late \in [Fact -> 0 .. 2] /\ pc \in Label
  BY DEF PacingTypeOK
<1>2. CASE TickConfig
  BY <1>2, SameTables DEF TickConfig, usageVars
<1>3. CASE TickReading
  <2>1. UNCHANGED <<config, readings, now, late>>
    BY <1>3 DEF TickReading, usageVars
  <2>2. CASE Fresh(Len(readings), now) /\ AtTarget(cfg, Reading(Len(readings)))
    BY <1>3, <2>1, <2>2, SameTables DEF TickReading, Decide
  <2>3. CASE Fresh(Len(readings), now) /\ ~AtTarget(cfg, Reading(Len(readings)))
    <3>1. "full" \in Fact => ~(late["full"] > 0)
      BY <1>3, <2>3 DEF TickReading, AtTarget
    <3>2. "disabled" \in Fact /\ late["disabled"] > 0 => pc' = "idle"
      BY <1>3, <2>3 DEF TickReading, Decide
    <3>. QED
      BY <2>1, <3>1, <3>2
  <2>4. CASE ~Fresh(Len(readings), now)
    BY <1>3, <2>1, <2>4 DEF TickReading
  <2>. QED
    BY <2>2, <2>3, <2>4
<1>4. CASE TickLedger
  <2>1. UNCHANGED <<config, readings, now, late>>
    BY <1>4 DEF TickLedger, usageVars
  <2>2. "full" \in Fact => ~(late["full"] > 0)
    BY <1>4 DEF TickLedger
  <2>3. "disabled" \in Fact /\ late["disabled"] > 0 => pc' = "idle"
    BY <1>4 DEF TickLedger, Decide
  <2>. QED
    BY <2>1, <2>2, <2>3
<1>5. CASE TickDone \/ RunError \/ Finish
  BY <1>5, SameTables DEF TickDone, RunError, Finish, usageVars
<1>6. CASE Start
  <2>1. UNCHANGED <<config, readings, now>> /\ pc' = "run"
    BY <1>6 DEF Start, usageVars
  <2>2. ASSUME NEW f \in Fact \cap {"disabled", "full"}
        PROVE  late[f] = 0 /\ late'[f] = IF Holds(f) THEN 1 ELSE 0
    <3>1. late[f] = 0
      BY <1>1, <1>6 DEF Start
    <3>. QED
      BY <1>6, <3>1 DEF Start, AtMost
  <2>. QED
    BY <2>1, <2>2, SameTables, HoldsCases
<1>7. CASE Turn
  BY <1>7, SameTables DEF Turn, Message
<1>8. ASSUME NEW c \in Configs, UpdateSchedulerConfig(c)
      PROVE  LateInv'
  <2>1. UNCHANGED <<pc, cfg>>
    BY <1>8 DEF UpdateSchedulerConfig
  <2>2. "full" \in Fact => late'["full"] = 0
    BY <1>8 DEF UpdateSchedulerConfig
  <2>3. "disabled" \in Fact =>
            late'["disabled"] = IF Holds("disabled")' THEN late["disabled"] ELSE 0
    BY <1>8 DEF UpdateSchedulerConfig
  <2>4. Holds("disabled")' <=> ~config'.enabled
    BY DEF Holds
  <2>. QED
    BY <2>1, <2>2, <2>3, <2>4
<1>9. ASSUME NEW s \in Sessions, Say(s)
      PROVE  LateInv'
  BY <1>9, SameTables DEF Say, Chat, Message
<1>10. ASSUME UNCHANGED <<pc, cfg, config>>, Watch
       PROVE  LateInv'
  <2>1. \A f \in Fact : late'[f] = IF Holds(f)' THEN late[f] ELSE 0
    BY <1>10 DEF Watch
  <2>2. /\ Holds("disabled")' <=> ~config'.enabled
        /\ Holds("full")' <=> /\ Fresh(Len(readings), now)'
                              /\ AtTarget(config, Reading(Len(readings)))'
    BY DEF Holds
  <2>. QED
    BY <1>10, <2>1, <2>2
<1>11. ASSUME NEW s \in Sessions, HandleRecordGroundTruth(s)
       PROVE  LateInv'
  BY <1>10, <1>11 DEF HandleRecordGroundTruth
<1>12. CASE Pass
  BY <1>10, <1>12 DEF Pass
<1>13. ASSUME NEW m \in scan, Index(m) \/ SkipLine(m)
       PROVE  LateInv'
  BY <1>13, SameTables DEF Index, IndexLine, SkipLine, IndexError
<1>14. CASE Restart
  BY <1>14, SameTables DEF Restart
<1>15. CASE UNCHANGED vars
  BY <1>15, SameTables DEF vars, usageVars
<1>. QED
  BY <1>2, <1>3, <1>4, <1>5, <1>6, <1>7, <1>8, <1>9, <1>11, <1>12, <1>13, <1>14,
     <1>15 DEF Next

(* However the configuration is edited, readings arrive, time passes and    *)
(* the daemon is restarted, a scheduler that is disabled or at its target   *)
(* starts one run more and no second one (Tick, Decide). *)
THEOREM OneMore == Spec => []OneMoreAtMost
<1>1. Init => LateInv
  BY DEF Init, LateInv, DisabledInv, FullInv
<1>2. PacingTypeOK /\ LateInv => OneMoreAtMost
  BY DEF PacingTypeOK, LateInv, DisabledInv, FullInv, OneMoreAtMost
<1>. QED
  BY <1>1, <1>2, TypeInit, TypeStep, LateStep, PTL DEF Spec

-----------------------------------------------------------------------------

(* A set of numbers has a least one. *)
LEMMA LeastNumber ==
    ASSUME NEW S \in SUBSET Nat, S # {}
    PROVE  \E m \in S : \A k \in S : m <= k
<1>1. PICK m \in S : \A k \in S : ~(<<k, m>> \in OpToRel(<, Nat))
  BY WFMin, NatLessThanWellFounded, Zenon
<1>2. ASSUME NEW k \in S
      PROVE  m <= k
  <2>1. <<k, m>> \in Nat \X Nat
    OBVIOUS
  <2>2. ~(k < m)
    BY <1>1, <2>1, Zenon DEF OpToRel
  <2>. QED
    BY <2>2
<1>. QED
  BY <1>2

(* Every moment is in a day, and at a minute of it. *)
LEMMA DayAndMinute ==
    ASSUME NEW t \in 0 .. MaxTime
    PROVE  DayOf(t) \in Nat /\ MinuteOfDay(t) \in 0 .. Day - 1
<1> USE BoundAssumption
<1>1. t \in Nat
  OBVIOUS
<1> DEFINE Begun == {d \in DOMAIN Begins : Begins[d] <= t}
           IsDay(d) == /\ Begins[d] <= t
                       /\ \A e \in DOMAIN Begins : Begins[e] <= t => e <= d
<1>2. PICK d \in Begun : \A e \in Begun : t - Begins[d] <= t - Begins[e]
  <2> DEFINE Ages == {t - Begins[d] : d \in Begun}
  <2>1. Ages \in SUBSET Nat /\ Ages # {}
    <3>1. 0 \in Begun
      BY <1>1, BeginsAssumption
    <3>2. \A d \in Begun : t - Begins[d] \in Nat
      BY <1>1, BeginsAssumption
    <3> QED
      BY <3>1, <3>2
  <2> HIDE DEF Ages
  <2>2. PICK a \in Ages : \A k \in Ages : a <= k
    BY <2>1, LeastNumber
  <2> QED
    BY <2>2 DEF Ages
<1>3. IsDay(d) /\ d \in DOMAIN Begins
  <2> SUFFICES ASSUME NEW e \in DOMAIN Begins, Begins[e] <= t
               PROVE  e <= d
    OBVIOUS
  <2>1. t - Begins[d] <= t - Begins[e]
    BY <1>2
  <2>2. d \in DOMAIN Begins /\ d \in Nat /\ e \in Nat
    BY BeginsAssumption
  <2>3. Begins[d] \in Nat /\ Begins[e] \in Nat /\ (d < e => Begins[d] < Begins[e])
    BY <2>2, BeginsAssumption
  <2> QED
    BY <1>1, <2>1, <2>2, <2>3
<1>4. DayOf(t) \in DOMAIN Begins /\ IsDay(DayOf(t))
  BY <1>3 DEF DayOf
<1> HIDE DEF Begun
<1>5. PICK n \in DOMAIN Begins : n = DayOf(t) /\ IsDay(n)
  BY <1>4
<1>6. /\ n \in Nat /\ Begins[n] \in Nat /\ Begins[n] <= t
      /\ Day \in Nat \ {0} /\ Change \in 0 .. Day
  BY <1>5, BeginsAssumption, DayAssumption
<1>7. CASE n + 1 \in DOMAIN Begins
  <2>1. /\ Begins[n + 1] \in Nat /\ t < Begins[n + 1]
        /\ Begins[n + 1] - Begins[n] <= Day + Change
    BY <1>1, <1>5, <1>6, <1>7, BeginsAssumption
  <2>2. MinuteOfDay(t) =
           IF t - Begins[n] < Change THEN t - Begins[n]
           ELSE (t - Begins[n]) + Day - (Begins[n + 1] - Begins[n])
    BY <1>5, <1>7 DEF MinuteOfDay
  <2> QED
    BY <1>1, <1>5, <1>6, <2>1, <2>2
<1>8. CASE n + 1 \notin DOMAIN Begins
  <2>1. t < Begins[n] + Day
    BY <1>5, <1>6, <1>8, CalendarAssumption
  <2>2. MinuteOfDay(t) =
           IF t - Begins[n] < Change THEN t - Begins[n] ELSE (t - Begins[n]) + Day - Day
    BY <1>5, <1>8 DEF MinuteOfDay
  <2> QED
    BY <1>1, <1>5, <1>6, <2>1, <2>2
<1> QED
  BY <1>7, <1>8

(* Contains, which looks at the minute of the day and at the day a whole    *)
(* day's length ago, reserves exactly what the block stands for, at every   *)
(* moment where that is yesterday (TimeBlock.Contains). *)
LEMMA ContainsCovers ==
    ASSUME NEW b \in Block, NEW t \in 0 .. MaxTime, YesterdayIsADayAgo(t)
    PROVE  Contains(b, t) = Covers(b, t)
<1> DEFINE d == DayOf(t)
           m == MinuteOfDay(t)
<1>1. /\ b.start \in 0 .. Day - 1 /\ b.end \in 0 .. Day - 1 /\ Day \in Nat
      /\ d \in Nat /\ m \in 0 .. Day - 1
  BY DayAssumption, DayAndMinute DEF Block
<1>2. DayOfOrEarlier(t - Day) = d - 1
  BY DEF YesterdayIsADayAgo
<1> HIDE DEF d, m
<1> DEFINE today == AppliesToDay(b, d)
           yesterday == AppliesToDay(b, d - 1)
<1> HIDE DEF today, yesterday
<1>3. Contains(b, t) =
        \/ ~(b.end <= b.start) /\ today /\ b.start <= m /\ m < b.end
        \/ b.end <= b.start /\ today /\ b.start <= m
        \/ b.end <= b.start /\ yesterday /\ m < b.end
  BY <1>2 DEF Contains, Wraps, d, m, today, yesterday
<1>4. Covers(b, t) =
        \/ /\ AppliesToDay(b, d - 0)
           /\ b.start <= m + 0 * Day
           /\ m + 0 * Day < b.end + (IF b.end <= b.start THEN Day ELSE 0)
        \/ /\ yesterday
           /\ b.start <= m + 1 * Day
           /\ m + 1 * Day < b.end + (IF b.end <= b.start THEN Day ELSE 0)
  BY DEF Covers, Wraps, d, m, yesterday
<1>5. d - 0 = d /\ 0 * Day = 0 /\ 1 * Day = Day
  BY <1>1
<1>6. AppliesToDay(b, d - 0) = today
  BY <1>5 DEF today
<1>. QED
  BY <1>1, <1>3, <1>4, <1>5, <1>6

(* A block reserves what it covers, beginning on the days it names, at      *)
(* every moment of every calendar whose days are not put back past          *)
(* midnight, but for those that follow a short day or end a long one.       *)
THEOREM BlocksReserve == Spec => []BlocksCover
<1>1. PacingTypeOK => BlocksCover
  BY ContainsCovers, ConfigsAssumption DEF PacingTypeOK, UsageTypeOK, BlocksCover, Config
<1>. QED
  BY <1>1, PacingTypeCorrect, PTL
-----------------------------------------------------------------------------
(* The community modules fold a set by taking one element after the other:  *)
(* of the functions on the subsets of S that do so there is one, and its    *)
(* values are of the type that each step keeps.                             *)
Some(s) == CHOOSE x \in s : TRUE
Small(S, n) == {s \in SUBSET S : Cardinality(s) <= n}
FoldOf(g, S, T, base, step, n) ==
    /\ g \in [Small(S, n) -> T]
    /\ \A s \in Small(S, n) :
          g[s] = IF s = {} THEN base ELSE step[Some(s)][g[s \ {Some(s)}]]

Folds(g, S, T, base, step) ==
    /\ g \in [SUBSET S -> T]
    /\ \A s \in SUBSET S :
          g[s] = IF s = {} THEN base ELSE step[Some(s)][g[s \ {Some(s)}]]

(* A subset without one of its elements is smaller. *)
LEMMA OneFewer ==
    ASSUME NEW S, IsFiniteSet(S), NEW s \in SUBSET S, s # {}
    PROVE  /\ Some(s) \in s /\ s \ {Some(s)} \in SUBSET S
           /\ Cardinality(s) \in Nat \ {0}
           /\ Cardinality(s \ {Some(s)}) = Cardinality(s) - 1
<1>1. Some(s) \in s
  BY DEF Some
<1>2. IsFiniteSet(s) /\ Cardinality(s) \in Nat /\ Cardinality(s) # 0
  BY FS_Subset, FS_CardinalityType, FS_EmptySet
<1>3. Cardinality(s \ {Some(s)}) = Cardinality(s) - 1
  BY <1>1, <1>2, FS_RemoveElement
<1>. QED
  BY <1>1, <1>2, <1>3

LEMMA NextFold ==
    ASSUME NEW S, IsFiniteSet(S), NEW T, NEW base \in T,
           NEW step \in [S -> [T -> T]], NEW n \in Nat,
           NEW g, FoldOf(g, S, T, base, step, n)
    PROVE  \E h : FoldOf(h, S, T, base, step, n + 1)
<1> DEFINE Body(s) == IF s = {} THEN base ELSE step[Some(s)][g[s \ {Some(s)}]]
           h == [s \in Small(S, n + 1) |-> Body(s)]
<1>1. ASSUME NEW s \in Small(S, n + 1), s # {}
      PROVE  /\ Some(s) \in S /\ s \ {Some(s)} \in Small(S, n)
             /\ g[s \ {Some(s)}] \in T
             /\ g[s \ {Some(s)}] = Body(s \ {Some(s)})
  <2>1. s \in SUBSET S /\ Cardinality(s) <= n + 1
    BY DEF Small
  <2>2. /\ Some(s) \in s /\ s \ {Some(s)} \in SUBSET S
        /\ Cardinality(s) \in Nat \ {0}
        /\ Cardinality(s \ {Some(s)}) = Cardinality(s) - 1
    BY <1>1, <2>1, OneFewer
  <2>3. s \ {Some(s)} \in Small(S, n)
    BY <2>1, <2>2 DEF Small
  <2>. QED
    BY <2>1, <2>2, <2>3 DEF FoldOf
<1>2. ASSUME NEW s \in Small(S, n + 1)
      PROVE  Body(s) \in T
  <2>1. CASE s = {}
    BY <2>1
  <2>2. CASE s # {}
    <3>1. Some(s) \in S /\ g[s \ {Some(s)}] \in T
      BY <1>1, <1>2, <2>2
    <3>. QED
      BY <2>2, <3>1
  <2>. QED
    BY <2>1, <2>2
<1>3. Small(S, n) \subseteq Small(S, n + 1)
  <2>1. ASSUME NEW s \in SUBSET S
        PROVE  Cardinality(s) \in Nat
    BY <2>1, FS_Subset, FS_CardinalityType
  <2>. QED
    BY <2>1 DEF Small
<1>4. ASSUME NEW s \in Small(S, n + 1), s # {}
      PROVE  h[s] = step[Some(s)][h[s \ {Some(s)}]]
  <2>1. h[s \ {Some(s)}] = g[s \ {Some(s)}]
    BY <1>1, <1>3, <1>4
  <2>. QED
    BY <1>4, <2>1
<1>5. ASSUME NEW s \in Small(S, n + 1), s = {}
      PROVE  h[s] = base
  BY <1>5
<1>6. h \in [Small(S, n + 1) -> T]
  BY <1>2
<1> HIDE DEF h
<1>7. FoldOf(h, S, T, base, step, n + 1)
  BY <1>4, <1>5, <1>6 DEF FoldOf
<1>. QED
  BY <1>7

LEMMA FoldExists ==
    ASSUME NEW S, IsFiniteSet(S), NEW T, NEW base \in T,
           NEW step \in [S -> [T -> T]]
    PROVE  \E g : Folds(g, S, T, base, step)
<1> DEFINE Bad == {k \in Nat : ~\E g : FoldOf(g, S, T, base, step, k)}
<1>1. Bad = {}
  <2> SUFFICES ASSUME Bad # {} PROVE FALSE
    OBVIOUS
  <2>1. PICK m \in Bad : \A k \in Bad : m <= k
    BY LeastNumber
  <2>2. CASE m = 0
    <3>1. Small(S, 0) = {{}}
      <4>1. ASSUME NEW s \in Small(S, 0)
            PROVE  s = {}
        <5>1. s \in SUBSET S /\ Cardinality(s) <= 0
          BY DEF Small
        <5>2. s # {} => Cardinality(s) \in Nat \ {0}
          BY <5>1, OneFewer
        <5>. QED
          BY <5>1, <5>2
      <4>2. {} \in Small(S, 0)
        BY FS_EmptySet DEF Small
      <4>. QED
        BY <4>1, <4>2
    <3>2. FoldOf([s \in {{}} |-> base], S, T, base, step, 0)
      BY <3>1 DEF FoldOf
    <3>. QED
      BY <2>1, <2>2, <3>2
  <2>3. CASE m # 0
    <3>1. m - 1 \in Nat /\ m - 1 \notin Bad
      BY <2>1, <2>3
    <3>2. PICK g : FoldOf(g, S, T, base, step, m - 1)
      BY <3>1
    <3>3. \E h : FoldOf(h, S, T, base, step, (m - 1) + 1)
      BY <3>1, <3>2, NextFold
    <3>. QED
      BY <2>1, <3>3
  <2>. QED
    BY <2>2, <2>3
<1>2. Cardinality(S) \in Nat /\ Small(S, Cardinality(S)) = SUBSET S
  BY FS_Subset, FS_CardinalityType DEF Small
<1>3. PICK g : FoldOf(g, S, T, base, step, Cardinality(S))
  BY <1>1, <1>2
<1>. QED
  BY <1>2, <1>3 DEF FoldOf, Folds

(* A set on which the fold is not of the type is not the smallest of its    *)
(* kind.                                                                    *)
LEMMA FoldType ==
    ASSUME NEW S, IsFiniteSet(S), NEW T, NEW f, f[{}] \in T,
           \A s \in SUBSET S : (s # {} /\ f[s \ {Some(s)}] \in T) => f[s] \in T
    PROVE  \A s \in SUBSET S : f[s] \in T
<1> DEFINE Bad == {k \in Nat : \E s \in SUBSET S : Cardinality(s) = k /\ f[s] \notin T}
<1>1. Bad = {}
  <2> SUFFICES ASSUME Bad # {} PROVE FALSE
    OBVIOUS
  <2>1. PICK m \in Bad : \A k \in Bad : m <= k
    BY LeastNumber
  <2>2. PICK s \in SUBSET S : Cardinality(s) = m /\ f[s] \notin T
    BY <2>1
  <2>3. s # {}
    BY <2>2
  <2>4. f[s \ {Some(s)}] \in T
    BY <2>1, <2>2, <2>3, OneFewer
  <2>. QED
    BY <2>2, <2>3, <2>4
<1>2. ASSUME NEW s \in SUBSET S
      PROVE  Cardinality(s) \in Nat
  BY <1>2, FS_Subset, FS_CardinalityType
<1>. QED
  BY <1>1, <1>2

(* What some entries of the ledger add up to is a number. *)
TokensBody(g, s) ==
    IF s = {} THEN 0 ELSE ledger[Some(s)].tokens + g[s \ {Some(s)}]

LEMMA TokensIs ==
    ASSUME NEW I
    PROVE  Tokens(I) = (CHOOSE g : g = [s \in SUBSET I |-> TokensBody(g, s)])[I]
BY DEF Tokens, MapThenSumSet, MapThenFoldSet, TokensBody, Some

LEMMA TokensType ==
    ASSUME UsageTypeOK, NEW I \in SUBSET DOMAIN ledger
    PROVE  Tokens(I) \in Nat /\ (I = {} => Tokens(I) = 0)
<1>1. IsFiniteSet(I)
  <2>1. IsFiniteSet(DOMAIN ledger)
    BY FS_Interval DEF UsageTypeOK
  <2>. QED
    BY <2>1, FS_Subset
<1> DEFINE cost == [i \in I |-> ledger[i].tokens]
           step == [i \in I |-> [n \in Nat |-> cost[i] + n]]
<1>2. cost \in [I -> Nat]
  <2>1. ASSUME NEW i \in I
        PROVE  ledger[i].tokens \in Nat
    <3>1. ledger[i] \in Entry
      BY DEF UsageTypeOK
    <3>. QED
      BY <3>1 DEF Entry
  <2>. QED
    BY <2>1
<1>3. \A s \in SUBSET I : s # {} => Some(s) \in I /\ ledger[Some(s)].tokens = cost[Some(s)]
  BY DEF Some
<1> HIDE DEF cost
<1>4. step \in [I -> [Nat -> Nat]]
  BY <1>2
<1>5. \A i \in I, n \in Nat : step[i][n] = cost[i] + n
  OBVIOUS
<1> HIDE DEF step
<1>6. PICK g : Folds(g, I, Nat, 0, step)
  <2>1. 0 \in Nat
    OBVIOUS
  <2>. QED
    BY <1>1, <1>4, <2>1, FoldExists
<1>7. g = [s \in SUBSET I |-> TokensBody(g, s)]
  <2>1. ASSUME NEW s \in SUBSET I
        PROVE  g[s] = TokensBody(g, s)
    <3>1. CASE s = {}
      BY <1>6, <3>1 DEF Folds, TokensBody
    <3>2. CASE s # {}
      <4>1. g[s \ {Some(s)}] \in Nat /\ Some(s) \in I
        BY <1>3, <1>6, <3>2 DEF Folds
      <4>2. g[s] = cost[Some(s)] + g[s \ {Some(s)}]
        BY <1>5, <1>6, <3>2, <4>1 DEF Folds
      <4>. QED
        BY <1>3, <3>2, <4>2 DEF TokensBody
    <3>. QED
      BY <3>1, <3>2
  <2>. QED
    BY <1>6, <2>1 DEF Folds
<1> DEFINE f == CHOOSE f : f = [s \in SUBSET I |-> TokensBody(f, s)]
<1>8. f = [s \in SUBSET I |-> TokensBody(f, s)]
  BY <1>7
<1>9. Tokens(I) = f[I]
  BY TokensIs
<1> HIDE DEF f
<1>10. \A s \in SUBSET I : f[s] = TokensBody(f, s)
  BY <1>8
<1>11. f[{}] = 0
  BY <1>10 DEF TokensBody
<1>12. ASSUME NEW s \in SUBSET I, s # {}, f[s \ {Some(s)}] \in Nat
       PROVE  f[s] \in Nat
  <2>1. f[s] = cost[Some(s)] + f[s \ {Some(s)}]
    BY <1>3, <1>10, <1>12 DEF TokensBody
  <2>2. cost[Some(s)] \in Nat
    BY <1>2, <1>3, <1>12
  <2>. QED
    BY <1>12, <2>1, <2>2
<1>13. \A s \in SUBSET I : f[s] \in Nat
  <2>1. f[{}] \in Nat
    BY <1>11
  <2>2. \A s \in SUBSET I : (s # {} /\ f[s \ {Some(s)}] \in Nat) => f[s] \in Nat
    BY <1>12
  <2>. QED
    BY <1>1, <2>1, <2>2, FoldType
<1>. QED
  BY <1>9, <1>11, <1>13

(* Fitted to at least one sample, the mean of the ratios is above zero. *)
RatiosBody(w, g, s) ==
    IF s = {} THEN [num |-> 0, den |-> 1]
    ELSE [num |-> g[s \ {Some(s)}].num * Rise(w, Some(s))
                     + Spent(Some(s)) * g[s \ {Some(s)}].den,
          den |-> g[s \ {Some(s)}].den * Rise(w, Some(s))]

LEMMA RatiosIs ==
    ASSUME NEW w
    PROVE  Ratios(w) = (CHOOSE g : g = [s \in SUBSET Samples(w) |-> RatiosBody(w, g, s)])[Samples(w)]
BY DEF Ratios, FoldSet, MapThenFoldSet, RatiosBody, Some

LEMMA SampleTypes ==
    ASSUME UsageTypeOK, NEW w \in Windows
    PROVE  /\ IsFiniteSet(Samples(w)) /\ Cardinality(Samples(w)) \in Nat
           /\ \A i \in Samples(w) : Rise(w, i) \in Nat \ {0} /\ Spent(i) \in Nat \ {0}
<1>1. IsFiniteSet(Samples(w))
  <2>1. IsFiniteSet(2 .. Len(readings))
    BY FS_Interval DEF UsageTypeOK
  <2>2. Samples(w) \in SUBSET (2 .. Len(readings))
    BY DEF Samples
  <2>. QED
    BY <2>1, <2>2, FS_Subset
<1>2. ASSUME NEW i \in Samples(w)
      PROVE  Rise(w, i) \in Nat \ {0} /\ Spent(i) \in Nat \ {0}
  <2>1. i \in 2 .. Len(readings) /\ Rise(w, i) > 0 /\ Spent(i) > 0
    BY DEF Samples
  <2>2. i \in 1 .. Len(readings) /\ i - 1 \in 1 .. Len(readings)
    BY <2>1 DEF UsageTypeOK
  <2>3. readings[i].of \in Report /\ readings[i - 1].of \in Report
    <3>1. readings \in Seq([of: Report, at: Nat])
      BY DEF UsageTypeOK
    <3>2. /\ readings[i] \in [of: Report, at: Nat]
          /\ readings[i - 1] \in [of: Report, at: Nat]
      BY <2>2, <3>1, ElementOfSeq
    <3>. QED
      BY <3>2
  <2>4. Rise(w, i) \in Int
    BY <2>3, PercentAssumption DEF Rise, Report
  <2>5. Spent(i) \in Nat
    <3>1. UsageSince(readings[i - 1].at) \in SUBSET DOMAIN ledger
      BY DEF UsageSince
    <3>. QED
      BY <3>1, TokensType DEF Spent, TokensSpentBetween
  <2>. QED
    BY <2>1, <2>4, <2>5
<1>. QED
  BY <1>1, <1>2, FS_CardinalityType

Ratio == [num: Nat, den: Nat \ {0}]

(* One more sample keeps the sum a fraction, and makes it more than zero. *)
LEMMA OneSampleMore ==
    ASSUME NEW q \in Ratio, NEW rise \in Nat \ {0}, NEW cost \in Nat \ {0}
    PROVE  /\ q.num * rise + cost * q.den \in Nat \ {0}
           /\ q.den * rise \in Nat \ {0}
<1>1. q.num \in Nat /\ q.den \in Nat \ {0}
  BY DEF Ratio
<1>2. \A a, b \in Nat \ {0} : a * b \in Nat \ {0}
  OBVIOUS
<1>3. \A a, b \in Nat : a * b \in Nat
  OBVIOUS
<1>4. q.num * rise \in Nat /\ cost * q.den \in Nat \ {0} /\ q.den * rise \in Nat \ {0}
  BY <1>1, <1>2, <1>3
<1>. QED
  BY <1>4

LEMMA RatiosType ==
    ASSUME UsageTypeOK, NEW w \in Windows, Samples(w) # {}
    PROVE  Ratios(w) \in Ratio /\ Ratios(w).num # 0
<1> DEFINE I == Samples(w)
           zero == [num |-> 0, den |-> 1]
           more(i, q) == [num |-> q.num * Rise(w, i) + Spent(i) * q.den,
                          den |-> q.den * Rise(w, i)]
           step == [i \in I |-> [q \in Ratio |-> more(i, q)]]
<1>1. ASSUME NEW i \in I, NEW q \in Ratio
      PROVE  more(i, q) \in Ratio /\ more(i, q).num # 0
  BY SampleTypes, OneSampleMore DEF Ratio
<1>2. IsFiniteSet(I) /\ zero \in Ratio
  BY SampleTypes DEF Ratio
<1>3. \A s \in SUBSET I : s # {} => Some(s) \in I
  BY DEF Some
<1>4. ASSUME NEW g, NEW s \in SUBSET I
      PROVE  RatiosBody(w, g, s) = IF s = {} THEN zero ELSE more(Some(s), g[s \ {Some(s)}])
  BY DEF RatiosBody
<1> HIDE DEF more, zero, I
<1>5. step \in [I -> [Ratio -> Ratio]]
  BY <1>1
<1>6. \A i \in I, q \in Ratio : step[i][q] = more(i, q)
  OBVIOUS
<1> HIDE DEF step
<1>7. PICK g : Folds(g, I, Ratio, zero, step)
  BY <1>2, <1>5, FoldExists
<1>8. g = [s \in SUBSET I |-> RatiosBody(w, g, s)]
  <2>1. ASSUME NEW s \in SUBSET I
        PROVE  g[s] = RatiosBody(w, g, s)
    <3>1. CASE s = {}
      BY <1>4, <1>7, <3>1 DEF Folds
    <3>2. CASE s # {}
      <4>1. g[s \ {Some(s)}] \in Ratio /\ Some(s) \in I
        BY <1>3, <1>7, <3>2 DEF Folds
      <4>2. g[s] = more(Some(s), g[s \ {Some(s)}])
        BY <1>6, <1>7, <3>2, <4>1 DEF Folds
      <4>. QED
        BY <1>4, <3>2, <4>2
    <3>. QED
      BY <3>1, <3>2
  <2>. QED
    BY <1>7, <2>1 DEF Folds
<1> DEFINE f == CHOOSE f : f = [s \in SUBSET I |-> RatiosBody(w, f, s)]
<1>9. f = [s \in SUBSET I |-> RatiosBody(w, f, s)]
  BY <1>8
<1>10. Ratios(w) = f[I]
  BY RatiosIs DEF I
<1> HIDE DEF f
<1>11. \A s \in SUBSET I : f[s] = RatiosBody(w, f, s)
  BY <1>9
<1>12. f[{}] \in Ratio
  <2>1. {} \in SUBSET I
    OBVIOUS
  <2>2. f[{}] = zero
    BY <1>4, <1>11, <2>1
  <2>. QED
    BY <1>2, <2>2
<1>13. ASSUME NEW s \in SUBSET I, s # {}, f[s \ {Some(s)}] \in Ratio
       PROVE  f[s] \in Ratio /\ f[s].num # 0
  <2>1. f[s] = more(Some(s), f[s \ {Some(s)}])
    BY <1>4, <1>11, <1>13
  <2>. QED
    BY <1>1, <1>3, <1>13, <2>1
<1>14. \A s \in SUBSET I : f[s] \in Ratio
  <2>1. \A s \in SUBSET I : (s # {} /\ f[s \ {Some(s)}] \in Ratio) => f[s] \in Ratio
    BY <1>13
  <2>. QED
    BY <1>2, <1>12, <2>1, FoldType
<1>15. I # {} /\ I \in SUBSET I /\ I \ {Some(I)} \in SUBSET I
  BY DEF I
<1>. QED
  BY <1>10, <1>13, <1>14, <1>15

(* Without entries in the window the estimate is zero, samples or not. *)
LEMMA NoUseIsEmpty ==
    ASSUME UsageTypeOK, NEW w \in Windows, NEW t \in Nat, UsageSince(t - Length[w]) = {}
    PROVE  EstimatedPercent(w, t) = 0
<1>1. CASE ~Sufficient(w)
  BY <1>1 DEF EstimatedPercent
<1>2. CASE Sufficient(w)
  <2>1. Samples(w) # {} /\ Cardinality(Samples(w)) \in Nat
    BY <1>2, SampleTypes, FS_EmptySet, PercentAssumption DEF Sufficient
  <2>2. WindowTotal(w, t) = 0
    <3>1. UsageSince(t - Length[w]) \in SUBSET DOMAIN ledger
      BY DEF UsageSince
    <3>. QED
      BY <3>1, TokensType DEF WindowTotal
  <2>3. Ratios(w).den \in Nat /\ Ratios(w).num \in Nat \ {0}
    BY <2>1, RatiosType DEF Ratio
  <2>4. \A a, b \in Nat, c \in Nat \ {0} : (0 * a * b) \div c = 0
    OBVIOUS
  <2>5. PercentFromTokens(w, 0) = AtMost(Full, 0)
    BY <2>1, <2>3, <2>4 DEF PercentFromTokens
  <2>. QED
    BY <1>2, <2>2, <2>5, PercentAssumption DEF EstimatedPercent, AtMost
<1>. QED
  BY <1>1, <1>2

LEMMA QuietStep == PacingTypeOK /\ Next => HeldBack
<1> SUFFICES ASSUME PacingTypeOK, Next,
                    pc \in {"reading", "ledger"}, pc' = "idle", restarts' = restarts,
                    cfg.enabled, cfg.target > 0,
                    ~InReserved(cfg, IF pc = "ledger" THEN asOf ELSE now)
             PROVE  \/ \E i \in DOMAIN readings :
                          (IF pc = "ledger" THEN asOf ELSE now) - readings[i].at <= Freshness
                    \/ \E i \in DOMAIN ledger :
                          (IF pc = "ledger" THEN asOf ELSE now) - ledger[i].at <= SevenDay
  BY DEF HeldBack
<1>1. TickReading \/ TickLedger
  <2>1. ~TickConfig /\ ~TickDone /\ ~Start /\ ~Turn /\ ~Finish /\ ~RunError
    BY DEF TickConfig, TickDone, Start, Turn, Finish, RunError
  <2>2. pc' # pc
    OBVIOUS
  <2>3. ~Pass /\ \A c \in Configs : ~UpdateSchedulerConfig(c)
    BY <2>2 DEF Pass, UpdateSchedulerConfig, tickVars
  <2>4. \A s \in Sessions : ~Say(s) /\ ~HandleRecordGroundTruth(s)
    BY <2>2 DEF Say, HandleRecordGroundTruth, tickVars
  <2>5. \A m \in scan : ~Index(m) /\ ~SkipLine(m)
    BY <2>2 DEF Index, SkipLine, tickVars
  <2>6. ~Restart
    BY DEF Restart, PacingTypeOK
  <2>. QED
    BY <2>1, <2>3, <2>4, <2>5, <2>6 DEF Next
<1>2. CASE TickReading
  <2>1. Fresh(Len(readings), now) /\ pc = "reading"
    BY <1>2 DEF TickReading
  <2>2. Len(readings) \in DOMAIN readings
    BY <2>1 DEF Fresh, PacingTypeOK, UsageTypeOK
  <2>. QED
    BY <2>1, <2>2 DEF Fresh
<1>3. CASE TickLedger
  <2>1. /\ pc = "ledger" /\ asOf \in Nat /\ UsageTypeOK
        /\ cfg.target \in Int /\ cfg.target > 0
    BY <1>3 DEF TickLedger, PacingTypeOK, Config
  <2>2. AtTarget(cfg, Estimate(asOf))
    BY <1>3, <2>1 DEF TickLedger, Decide
  <2>3. PICK w \in Windows : Estimate(asOf)[w] >= cfg.target
    BY <2>2 DEF AtTarget
  <2>4. EstimatedPercent(w, asOf) # 0
    BY <2>1, <2>3 DEF Estimate
  <2>5. UsageSince(asOf - Length[w]) # {}
    BY <2>1, <2>4, NoUseIsEmpty
  <2>6. PICK i \in DOMAIN ledger : ledger[i].at >= asOf - Length[w]
    BY <2>5 DEF UsageSince
  <2>7. ledger[i].at \in Nat
    <3>1. ledger[i] \in Entry
      BY <2>1 DEF UsageTypeOK
    <3>. QED
      BY <3>1 DEF Entry
  <2>8. Length[w] \in Nat /\ Length[w] <= SevenDay /\ SevenDay \in Nat
    BY WindowAssumption DEF Length, Windows
  <2>. QED
    BY <2>1, <2>6, <2>7, <2>8
<1>. QED
  BY <1>1, <1>2, <1>3

(* What was read of a window that has been reset since holds nothing back   *)
(* for longer than an hour: a tick that starts nothing though the user      *)
(* would let it knows of a reading of the last hour, of one at the target   *)
(* of a window that is still to be reset, or of use in the last seven days  *)
(* (computeUsageState, Decide, EstimatePercent).                            *)
THEOREM QuietIsLeftOpen == Spec => QuietIsOpen
<1>1. PacingTypeOK /\ [Next]_vars => [HeldBack]_vars
  BY QuietStep
<1>. QED
  BY <1>1, PacingTypeCorrect, PTL DEF Spec, QuietIsOpen
=============================================================================
