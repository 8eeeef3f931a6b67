----------------------------- MODULE FitProofs ------------------------------
(***************************************************************************)
(* The five-hour window is filled past the ceiling only by what the loop    *)
(* could not know, for any jobs, costs, caps and lengths of the window.     *)
(***************************************************************************)
EXTENDS Fit, FiniteSetTheorems, WellFoundedInduction, TLAPS

(* A set of numbers has a least one. *)
LEMMA LeastNumber ==
    ASSUME NEW S \in SUBSET Nat, S # {}
    PROVE  \E m \in S : \A k \in S : m <= k
<1>1. PICK m \in S : \A k \in S : ~(<<k, m>> \in OpToRel(<, Nat))
  BY WFMin, NatLessThanWellFounded, Zenon
<1>2. ASSUME NEW k \in S
      PROVE  m <= k
  <2>1. <<k, m>> \in Nat \X Nat
    OBVIOUS
  <2>2. ~(k < m)
    BY <1>1, <2>1, Zenon DEF OpToRel
  <2>. QED
    BY <2>2
<1>. QED
  BY <1>2

(* The function that Total folds, on the subsets of up to so many jobs. *)
Some(s) == CHOOSE j \in s : TRUE
Body(g, s) == IF s = {} THEN 0 ELSE spent[Some(s)] + g[s \ {Some(s)}]
Small(S, n) == {s \in SUBSET S : Cardinality(s) <= n}
Sums(g, S, n) ==
    g \in [Small(S, n) -> Nat] /\ \A s \in Small(S, n) : g[s] = Body(g, s)

LEMMA TotalIs ==
    ASSUME NEW S
    PROVE  Total(S) = (CHOOSE g : g = [s \in SUBSET S |-> Body(g, s)])[S]
BY DEF Total, MapThenSumSet, MapThenFoldSet, Body, Some

(* A subset without one of its elements is smaller. *)
LEMMA OneFewer ==
    ASSUME NEW S, IsFiniteSet(S), NEW s \in SUBSET S, s # {}
    PROVE  /\ Some(s) \in s /\ s \ {Some(s)} \in SUBSET S
           /\ Cardinality(s) \in Nat \ {0}
           /\ Cardinality(s \ {Some(s)}) = Cardinality(s) - 1
<1>1. Some(s) \in s
  BY DEF Some
<1>2. IsFiniteSet(s) /\ Cardinality(s) \in Nat /\ Cardinality(s) # 0
  BY FS_Subset, FS_CardinalityType, FS_EmptySet
<1>3. Cardinality(s \ {Some(s)}) = Cardinality(s) - 1
  BY <1>1, <1>2, FS_RemoveElement
<1>. QED
  BY <1>1, <1>2, <1>3

LEMMA NextSums ==
    ASSUME TypeOK, NEW S \in SUBSET Job, IsFiniteSet(S), NEW n \in Nat,
           NEW g, Sums(g, S, n)
    PROVE  Sums([s \in Small(S, n + 1) |-> Body(g, s)], S, n + 1)
<1> DEFINE h == [s \in Small(S, n + 1) |-> Body(g, s)]
<1>1. ASSUME NEW s \in Small(S, n + 1), s # {}
      PROVE  /\ Some(s) \in s /\ spent[Some(s)] \in Nat
             /\ s \ {Some(s)} \in Small(S, n)
             /\ g[s \ {Some(s)}] \in Nat
             /\ g[s \ {Some(s)}] = Body(g, s \ {Some(s)})
  <2>1. s \in SUBSET S /\ Cardinality(s) <= n + 1
    BY DEF Small
  <2>2. /\ Some(s) \in s /\ s \ {Some(s)} \in SUBSET S
        /\ Cardinality(s) \in Nat \ {0}
        /\ Cardinality(s \ {Some(s)}) = Cardinality(s) - 1
    BY <1>1, <2>1, OneFewer
  <2>3. s \ {Some(s)} \in Small(S, n)
    BY <2>1, <2>2 DEF Small
  <2>4. Some(s) \in Job
    BY <2>1, <2>2
  <2>5. spent[Some(s)] \in Nat
    BY <2>4 DEF TypeOK
  <2>6. /\ g[s \ {Some(s)}] \in Nat
        /\ g[s \ {Some(s)}] = Body(g, s \ {Some(s)})
    BY <2>3 DEF Sums
  <2>. QED
    BY <2>2, <2>3, <2>5, <2>6
<1>2. ASSUME NEW s \in Small(S, n + 1)
      PROVE  Body(g, s) \in Nat
  <2>1. CASE s = {}
    BY <2>1 DEF Body
  <2>2. CASE s # {}
    <3>1. spent[Some(s)] \in Nat /\ g[s \ {Some(s)}] \in Nat
      BY <1>1, <1>2, <2>2
    <3>. QED
      BY <2>2, <3>1 DEF Body
  <2>. QED
    BY <2>1, <2>2
<1>3. Small(S, n) \subseteq Small(S, n + 1)
  <2>1. ASSUME NEW s \in SUBSET S
        PROVE  Cardinality(s) \in Nat
    BY <2>1, FS_Subset, FS_CardinalityType
  <2>. QED
    BY <2>1 DEF Small
<1>4. ASSUME NEW s \in Small(S, n + 1)
      PROVE  h[s] = Body(h, s)
  <2>1. CASE s = {}
    BY <2>1, <1>4 DEF Body
  <2>2. CASE s # {}
    <3>1. h[s \ {Some(s)}] = Body(g, s \ {Some(s)})
      BY <1>1, <1>3, <1>4, <2>2
    <3>2. h[s \ {Some(s)}] = g[s \ {Some(s)}]
      BY <1>1, <1>4, <2>2, <3>1
    <3>. QED
      BY <3>2, <2>2, <1>4 DEF Body
  <2>. QED
    BY <2>1, <2>2
<1>. QED
  BY <1>2, <1>4 DEF Sums

LEMMA SumsExist ==
    ASSUME TypeOK, NEW S \in SUBSET Job, IsFiniteSet(S), NEW n \in Nat
    PROVE  \E g : Sums(g, S, n)
<1> DEFINE Bad == {k \in Nat : ~\E g : Sums(g, S, k)}
<1> SUFFICES ASSUME Bad # {} PROVE FALSE
  OBVIOUS
<1>1. PICK m \in Bad : \A k \in Bad : m <= k
  BY LeastNumber
<1>2. CASE m = 0
  <2>1. Small(S, 0) = {{}}
    <3>1. ASSUME NEW s \in Small(S, 0)
          PROVE  s = {}
      <4>1. s \in SUBSET S /\ Cardinality(s) <= 0
        BY DEF Small
      <4>2. s # {} => Cardinality(s) \in Nat \ {0}
        BY <4>1, OneFewer
      <4>. QED
        BY <4>1, <4>2
    <3>2. {} \in Small(S, 0)
      BY FS_EmptySet DEF Small
    <3>. QED
      BY <3>1, <3>2
  <2>2. Sums([s \in {{}} |-> 0], S, 0)
    BY <2>1 DEF Sums, Body
  <2>. QED
    BY <1>1, <1>2, <2>2
<1>3. CASE m # 0
  <2>1. m - 1 \in Nat /\ m - 1 \notin Bad
    BY <1>1, <1>3
  <2>2. PICK g : Sums(g, S, m - 1)
    BY <2>1
  <2>3. Sums([s \in Small(S, (m - 1) + 1) |-> Body(g, s)], S, (m - 1) + 1)
    BY <2>1, <2>2, NextSums
  <2>. QED
    BY <1>1, <2>3
<1>. QED
  BY <1>2, <1>3

(* A set on which the fold is no number is not the smallest of its kind. *)
LEMMA SumsAreNumbers ==
    ASSUME TypeOK, NEW S \in SUBSET Job, IsFiniteSet(S),
           NEW f, \A s \in SUBSET S : f[s] = Body(f, s)
    PROVE  f[S] \in Nat
<1> DEFINE Bad == {k \in Nat : \E s \in SUBSET S : Cardinality(s) = k /\ f[s] \notin Nat}
<1>1. Bad = {}
  <2> SUFFICES ASSUME Bad # {} PROVE FALSE
    OBVIOUS
  <2>1. PICK m \in Bad : \A k \in Bad : m <= k
    BY LeastNumber
  <2>2. PICK s \in SUBSET S : Cardinality(s) = m /\ f[s] \notin Nat
    BY <2>1
  <2>3. s # {}
    BY <2>2 DEF Body
  <2>4. f[s \ {Some(s)}] \in Nat
    BY <2>1, <2>2, <2>3, OneFewer
  <2>5. Some(s) \in Job
    BY <2>3, OneFewer
  <2>6. spent[Some(s)] \in Nat
    BY <2>5 DEF TypeOK
  <2>7. f[s] = spent[Some(s)] + f[s \ {Some(s)}]
    BY <2>3 DEF Body
  <2>. QED
    BY <2>2, <2>4, <2>6, <2>7
<1>. QED
  BY <1>1, FS_CardinalityType

(* What the entries of some jobs add up to is a number. *)
LEMMA TotalType ==
    ASSUME TypeOK, NEW S \in SUBSET Job
    PROVE  Total(S) \in Nat
<1>1. IsFiniteSet(S)
  BY FitAssumption, FS_Subset
<1>2. Cardinality(S) \in Nat /\ Small(S, Cardinality(S)) = SUBSET S
  BY <1>1, FS_Subset, FS_CardinalityType DEF Small
<1>3. PICK g : Sums(g, S, Cardinality(S))
  BY <1>1, <1>2, SumsExist
<1>4. g = [s \in SUBSET S |-> Body(g, s)]
  BY <1>2, <1>3 DEF Sums
<1> DEFINE f == CHOOSE f : f = [s \in SUBSET S |-> Body(f, s)]
<1>5. f = [s \in SUBSET S |-> Body(f, s)]
  BY <1>4
<1>6. Total(S) = f[S]
  BY TotalIs
<1> HIDE DEF f
<1>7. \A s \in SUBSET S : f[s] = Body(f, s)
  BY <1>5
<1>. QED
  BY <1>1, <1>6, <1>7, SumsAreNumbers
-----------------------------------------------------------------------------
LEMMA MeanType ==
    ASSUME TypeOK, NEW j \in Job, Signal(j)
    PROVE  Mean(Kind[j]) \in Nat
<1> DEFINE F == Finished(Kind[j])
<1>1. F \in SUBSET Job
  BY DEF Finished
<1>2. Cardinality(F) \in Nat \ {0}
  <2>1. IsFiniteSet(F)
    BY <1>1, FitAssumption, FS_Subset
  <2>2. Cardinality(F) \in Nat
    BY <2>1, FS_CardinalityType
  <2>3. Cardinality(F) >= MinSamples
    BY DEF Signal
  <2>. QED
    BY <2>2, <2>3, FitAssumption
<1>3. Total(F) \in Nat
  BY <1>1, TotalType
<1> HIDE DEF F
<1>4. \A a \in Nat, b \in Nat \ {0} : a \div b \in Nat
  OBVIOUS
<1>5. Total(F) \div Cardinality(F) \in Nat
  BY <1>2, <1>3, <1>4
<1>. QED
  BY <1>5 DEF F, Mean

(* What a run costs is foreseen, which is no more than there was room for,  *)
(* or a surprise.                                                           *)
LEMMA ForeseenFits ==
    ASSUME TypeOK, NEW j \in Job, NEW cost \in Nat, seen < Ceiling
    PROVE  /\ Unforeseen(j, cost) \in Nat
           /\ seen + cost <= Ceiling + Unforeseen(j, cost)
<1>1. seen \in Nat /\ Ceiling \in Nat
  BY FitAssumption DEF TypeOK
<1>2. PICK f \in Nat : /\ f <= Ceiling - seen
                       /\ Unforeseen(j, cost) = IF cost > f THEN cost - f ELSE 0
  <2>1. CASE ~Signal(j)
    BY <1>1, <2>1 DEF Unforeseen
  <2>2. CASE Signal(j) /\ Fits(j)
    <3>1. Mean(Kind[j]) \in Nat /\ Mean(Kind[j]) <= Ceiling - seen
      BY <2>2, MeanType DEF Fits, Room
    <3>. QED
      BY <2>2, <3>1 DEF Unforeseen
  <2>3. CASE Signal(j) /\ ~Fits(j)
    <3>1. Room \in Nat /\ Room = Ceiling - seen
      BY <1>1 DEF Room
    <3>. QED
      BY <2>3, <3>1 DEF Unforeseen
  <2>. QED
    BY <2>1, <2>2, <2>3
<1>. QED
  BY <1>1, <1>2

(* The job whose run ends is the one the tick started, and what it costs is *)
(* a number.                                                                *)
LEMMA RunFacts ==
    ASSUME FitInv, NEW j \in Job, Running(j)
    PROVE  /\ seen \in Nat /\ seen < Ceiling
           /\ used <= seen + surprise + strangers
           /\ Opening(j) \in Nat /\ Need[j] \in Nat /\ progress[j] \in Nat
           /\ Wanted(j) \in Nat /\ progress[j] <= Need[j]
           /\ cap[j] \in Nat
<1>1. /\ seen \in Nat /\ Need[j] \in Nat /\ progress[j] \in Nat /\ Reread \in Nat
      /\ progress[j] <= Need[j] /\ cap[j] \in Nat
  BY FitAssumption DEF FitInv, WalkInv, TypeOK, TickInv
<1>2. Opening(j) \in Nat
  BY <1>1 DEF Opening
<1>3. Wanted(j) \in Nat
  BY <1>1, <1>2 DEF Wanted
<1>. QED
  BY <1>1, <1>2, <1>3 DEF FitInv, TickInv, Running

(* The window after a run. *)
LEMMA WindowAfter ==
    ASSUME FitInv, NEW j \in Job, Running(j), NEW cost \in Nat,
           used' = used + cost,
           surprise' = surprise + Unforeseen(j, cost),
           UNCHANGED strangers
    PROVE  used' \in Nat /\ surprise' \in Nat /\ WithinCeiling'
<1>1. /\ seen \in Nat /\ seen < Ceiling /\ Ceiling \in Nat
      /\ used <= seen + surprise + strangers
      /\ used \in Nat /\ surprise \in Nat /\ strangers \in Nat
  <2>1. used \in Nat /\ surprise \in Nat /\ strangers \in Nat /\ Ceiling \in Nat
    BY FitAssumption DEF FitInv, WalkInv, TypeOK
  <2>. QED
    BY <2>1, RunFacts
<1> DEFINE more == Unforeseen(j, cost)
<1>2. more \in Nat /\ seen + cost <= Ceiling + more
  BY <1>1, ForeseenFits DEF FitInv, WalkInv
<1>3. used' = used + cost /\ surprise' = surprise + more
  OBVIOUS
<1> HIDE DEF more
<1>4. used' <= Ceiling + surprise' + strangers
  BY <1>1, <1>2, <1>3
<1>. QED
  BY <1>1, <1>2, <1>3, <1>4 DEF WithinCeiling

LEMMA Charged ==
    ASSUME FitInv, NEW j \in Job, Running(j), NEW cost \in Nat, Charge(j, cost)
    PROVE  /\ spent' \in [Job -> 0 .. MaxSpent]
           /\ used' \in Nat /\ surprise' \in Nat /\ WithinCeiling'
<1>1. spent \in [Job -> 0 .. MaxSpent] /\ MaxSpent \in Nat
  BY FitAssumption DEF FitInv, WalkInv, TypeOK
<1>2. ASSUME NEW n \in Nat
      PROVE  Min({n, MaxSpent}) \in 0 .. MaxSpent
  <2>1. \E x \in {n, MaxSpent} : \A y \in {n, MaxSpent} : x <= y
    BY <1>1
  <2>2. /\ Min({n, MaxSpent}) \in {n, MaxSpent}
        /\ Min({n, MaxSpent}) <= MaxSpent
    BY <2>1 DEF Min
  <2>. QED
    BY <1>1, <2>2
<1>3. spent[j] + cost \in Nat
  BY <1>1
<1>4. spent' \in [Job -> 0 .. MaxSpent]
  BY <1>1, <1>2, <1>3 DEF Charge
<1>. QED
  BY <1>4, WindowAfter DEF Charge

LEMMA FitInit == Init => FitInv
<1> SUFFICES ASSUME Init PROVE FitInv
  OBVIOUS
<1>1. status \in [Job -> Status]
  BY DEF Init, Status
<1>2. spent \in [Job -> 0 .. MaxSpent]
  <2>1. PICK c \in [Past -> PastCosts] :
           spent = [j \in Job |-> IF j \in Past THEN c[j] ELSE 0]
    BY DEF Init
  <2>2. ASSUME NEW j \in Job
        PROVE  (IF j \in Past THEN c[j] ELSE 0) \in 0 .. MaxSpent
    <3>1. PastCosts \subseteq 0 .. MaxSpent /\ 0 \in 0 .. MaxSpent
      BY FitAssumption
    <3>2. j \in Past => c[j] \in PastCosts
      OBVIOUS
    <3>. QED
      BY <3>1, <3>2
  <2>. QED
    BY <2>1, <2>2
<1>3. /\ cap \in [Job -> Nat] /\ progress \in [Job -> Nat]
      /\ rest \in [Job -> 0 .. Cooldown]
  BY FitAssumption DEF Init, NoCap
<1>4. left \in 1 .. WindowLength /\ strangers \in 0 .. MaxStrangers
  BY FitAssumption DEF Init
<1>5. TypeOK
  BY <1>1, <1>2, <1>3, <1>4 DEF Init, TypeOK
<1>6. WalkInv /\ WithinCeiling /\ TickInv
  BY <1>5, FitAssumption DEF Init, WalkInv, WithinCeiling, TickInv
<1>. QED
  BY <1>6 DEF FitInv

LEMMA WorldStep ==
    ASSUME FitInv, (\E j \in Job : Create(j)) \/ Interactive \/ Calibrate \/ Pass
    PROVE  FitInv'
<1> USE FitAssumption
<1>1. ASSUME NEW j \in Job, Create(j)
      PROVE  FitInv'
  BY <1>1 DEF FitInv, WalkInv, WithinCeiling, TickInv, TypeOK, Create, Status, Runnable,
              windowVars, tickVars
<1>2. CASE Interactive
  BY <1>2 DEF FitInv, WalkInv, WithinCeiling, TickInv, TypeOK, Interactive, jobVars, tickVars
<1>3. CASE Calibrate
  BY <1>3 DEF FitInv, WalkInv, WithinCeiling, TickInv, TypeOK, Calibrate,
              jobVars, windowVars, tickVars
<1>4. CASE Pass
  <2>1. rest' \in [Job -> 0 .. Cooldown]
    <3>1. rest \in [Job -> 0 .. Cooldown] /\ Cooldown \in Nat
      BY DEF FitInv, WalkInv, TypeOK
    <3>2. ASSUME NEW j \in Job
          PROVE  (IF rest[j] = 0 THEN 0 ELSE rest[j] - 1) \in 0 .. Cooldown
      BY <3>1
    <3>. QED
      BY <1>4, <3>2 DEF Pass
  <2>2. /\ UNCHANGED <<status, cap, spent, progress, pc, seen, todo, calibrated>>
        /\ ticked' = FALSE
    BY <1>4 DEF Pass
  <2>3. CASE left > 1
    <3>1. left' = left - 1 /\ UNCHANGED <<used, strangers, surprise>>
      BY <1>4, <2>3 DEF Pass
    <3>2. left' \in 1 .. WindowLength
      BY <2>3, <3>1 DEF FitInv, WalkInv, TypeOK
    <3>. QED
      BY <2>1, <2>2, <3>1, <3>2 DEF FitInv, WalkInv, WithinCeiling, TickInv, TypeOK
  <2>4. CASE ~(left > 1)
    <3>1. left' = WindowLength /\ used' = 0 /\ strangers' = 0 /\ surprise' = 0
      BY <1>4, <2>4 DEF Pass
    <3>2. left' \in 1 .. WindowLength /\ strangers' \in 0 .. MaxStrangers
      BY <3>1
    <3>3. TypeOK'
      BY <2>1, <2>2, <3>1, <3>2 DEF FitInv, WalkInv, TypeOK
    <3>4. WalkInv'
      BY <2>2, <3>3 DEF FitInv, WalkInv
    <3>5. seen \in Nat /\ used' <= Ceiling + surprise' + strangers'
          /\ used' <= seen' + surprise' + strangers'
      BY <2>2, <3>1 DEF FitInv, WalkInv, TypeOK
    <3>. QED
      BY <2>2, <3>4, <3>5 DEF FitInv, WithinCeiling, TickInv
  <2>. QED
    BY <2>3, <2>4
<1>. QED
  BY <1>1, <1>2, <1>3, <1>4

LEMMA TickStep ==
    ASSUME FitInv, Tick
    PROVE  FitInv'
<1>1. status' \in [Job -> Status]
  BY DEF Tick, SweptStatus, FitInv, WalkInv, TypeOK, Status, Runnable
<1>2. Candidates(status') \subseteq Job
  BY DEF Candidates
<1>3. TypeOK' /\ (todo' = {} <=> pc' = "idle") /\ pc' # "run"
  BY <1>1, <1>2 DEF Tick, FitInv, WalkInv, TypeOK, windowVars
<1>4. WithinCeiling' /\ TickInv'
  BY FitAssumption
     DEF Tick, FitInv, WalkInv, TypeOK, WithinCeiling, TickInv, windowVars
<1>. QED
  BY <1>3, <1>4 DEF FitInv, WalkInv

LEMMA WalkStep ==
    ASSUME FitInv, Walk
    PROVE  FitInv'
<1> PICK j \in todo : DispatchAsIs(j) \/ DispatchCapped(j) \/ Promote(j) \/ Defer(j)
  BY DEF Walk
<1>1. j \in Job /\ TypeOK /\ pc = "walk" /\ todo \subseteq Job
      /\ seen \in Nat /\ seen < Ceiling
  BY DEF FitInv, WalkInv, TypeOK, TickInv, LookingAt, DispatchAsIs, DispatchCapped,
         Promote, Defer
<1>2. /\ UNCHANGED <<spent, progress, rest, windowVars, ticked, calibrated>>
      /\ WithinCeiling'
  BY DEF DispatchAsIs, DispatchCapped, Promote, Defer, FitInv, WithinCeiling, windowVars
<1>3. cap' \in [Job -> Nat]
  BY <1>1, FitAssumption
     DEF DispatchAsIs, DispatchCapped, Promote, Defer, TypeOK, Room
<1>4. status' \in [Job -> Status]
  BY <1>1 DEF DispatchAsIs, DispatchCapped, Promote, Defer, Dispatch, TypeOK, Status, Runnable
<1>5. \/ pc' = "run" /\ todo' = {j} /\ status'[j] = "running" /\ seen' = seen
      \/ NextCandidate(j)
  BY <1>1 DEF DispatchAsIs, DispatchCapped, Promote, Defer, Dispatch, TypeOK
<1>6. /\ pc' \in {"idle", "walk", "run"} /\ seen' \in Nat /\ todo' \subseteq Job
      /\ todo' = {} <=> pc' = "idle"
      /\ pc' = "run" => \E i \in Job : todo' = {i} /\ status'[i] = "running"
      /\ pc' # "idle" => seen' = seen
  BY <1>1, <1>5 DEF NextCandidate, Return
<1>7. TypeOK'
  BY <1>1, <1>2, <1>3, <1>4, <1>6 DEF TypeOK, windowVars
<1>8. TickInv'
  BY <1>1, <1>2, <1>6 DEF FitInv, TickInv, windowVars
<1>. QED
  BY <1>2, <1>6, <1>7, <1>8 DEF FitInv, WalkInv

LEMMA RunStep ==
    ASSUME FitInv, Run
    PROVE  FitInv'
<1> PICK j \in todo : RunCutOff(j) \/ RunSucceeds(j) \/ RunFails(j) \/ RunLost(j)
  BY DEF Run
<1>1. j \in Job /\ TypeOK /\ Running(j)
  BY DEF FitInv, WalkInv, TypeOK, RunCutOff, RunSucceeds, RunFails, RunLost
<1>2. /\ Return
      /\ UNCHANGED <<cap, left, strangers, ticked, calibrated>>
  BY DEF RunCutOff, RunSucceeds, RunFails, RunLost, Charge
<1>3. status' \in [Job -> Status]
  BY <1>1 DEF RunCutOff, RunSucceeds, RunFails, RunLost, TypeOK, Status, Runnable
<1>4. /\ spent' \in [Job -> 0 .. MaxSpent]
      /\ used' \in Nat /\ surprise' \in Nat /\ WithinCeiling'
  <2>1. ASSUME NEW cost \in Nat, Charge(j, cost)
        PROVE  /\ spent' \in [Job -> 0 .. MaxSpent]
               /\ used' \in Nat /\ surprise' \in Nat /\ WithinCeiling'
    BY <1>1, <2>1, Charged
  <2>2. CASE RunCutOff(j)
    BY <1>1, <2>1, <2>2, RunFacts DEF RunCutOff
  <2>3. CASE RunSucceeds(j)
    BY <1>1, <2>1, <2>3, RunFacts DEF RunSucceeds
  <2>4. CASE RunFails(j)
    <3>1. 1 .. Wanted(j) \subseteq Nat
      BY <1>1, RunFacts
    <3>. QED
      BY <2>1, <2>4, <3>1 DEF RunFails
  <2>5. CASE RunLost(j)
    <3>1. 0 .. Wanted(j) \subseteq Nat
      BY <1>1, RunFacts
    <3>2. used' \in Nat /\ surprise' \in Nat /\ WithinCeiling'
      BY <1>1, <1>2, <2>5, <3>1, WindowAfter DEF RunLost
    <3>. QED
      BY <1>1, <2>5, <3>2 DEF RunLost, TypeOK
  <2>. QED
    BY <2>2, <2>3, <2>4, <2>5
<1>5. /\ progress' \in [Job -> Nat] /\ rest' \in [Job -> 0 .. Cooldown]
      /\ \A i \in Job : progress'[i] <= Need[i]
  <2>1. CASE RunCutOff(j)
    <3> DEFINE kept == progress[j] + cap[j] - Opening(j)
               held == Max({progress[j], kept})
    <3>1. /\ progress[j] \in Nat /\ kept \in Int
          /\ progress[j] <= Need[j] /\ kept <= Need[j]
      BY <1>1, <2>1, RunFacts DEF RunCutOff, Wanted
    <3> HIDE DEF kept
    <3>2. held \in {progress[j], kept} /\ held >= progress[j]
      <4>1. \E x \in {progress[j], kept} : \A y \in {progress[j], kept} : x >= y
        BY <3>1
      <4>. QED
        BY <4>1 DEF Max
    <3>3. held \in Nat /\ held <= Need[j]
      BY <3>1, <3>2
    <3>4. progress' = [progress EXCEPT ![j] = held]
      BY <1>1, <2>1 DEF RunCutOff, kept, TypeOK
    <3> HIDE DEF held
    <3>5. rest' \in [Job -> 0 .. Cooldown]
      BY <1>1, <2>1, FitAssumption DEF RunCutOff, TypeOK
    <3>. QED
      BY <1>1, <3>3, <3>4, <3>5 DEF FitInv, TickInv, TypeOK
  <2>2. CASE ~RunCutOff(j)
    BY <2>2 DEF RunSucceeds, RunFails, RunLost, FitInv, WalkInv, TickInv, TypeOK
  <2>. QED
    BY <2>1, <2>2
<1>6. TypeOK'
  BY <1>1, <1>2, <1>3, <1>4, <1>5 DEF TypeOK, Return
<1>. QED
  BY <1>2, <1>4, <1>5, <1>6 DEF FitInv, WalkInv, TickInv, Return

(* Every variable has its type, and the window is filled past the ceiling   *)
(* only by what the loop could not know, whatever was cut off, resumed or   *)
(* deferred in it (Tick, FitJob, CapBudget).                                *)
THEOREM FitInvariant == Spec => []FitInv
<1>1. Init => FitInv
  BY FitInit
<1>2. FitInv /\ [Next]_vars => FitInv'
  <2>1. ASSUME FitInv, UNCHANGED vars
        PROVE  FitInv'
    BY <2>1 DEF FitInv, WalkInv, WithinCeiling, TickInv, TypeOK, vars, jobVars,
                windowVars, tickVars
  <2>. QED
    BY <2>1, WorldStep, TickStep, WalkStep, RunStep DEF Next
<1>. QED
  BY <1>1, <1>2, PTL DEF Spec
=============================================================================
