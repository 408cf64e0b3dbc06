---------------------------- MODULE TunerProofs ----------------------------
(***************************************************************************)
(* Theorems about the tuner for every configuration config.Validate lets   *)
(* through and every table: what happens to its settings when Recommend is *)
(* applied over and over while the statistics move.                        *)
(***************************************************************************)
EXTENDS TuneLoop, TLAPS

-----------------------------------------------------------------------------
(* Integer division.                                                       *)

\* Integer division rounds down.
LEMMA DivBounds ==
  ASSUME NEW a \in Int, NEW b \in Nat \ {0}
  PROVE  a \div b \in Int /\ b * (a \div b) <= a /\ b * (a \div b) > a - b
<1>1. a \div b \in Int
  BY Z3
<1>2. b * (a \div b) <= a
  BY Z3
<1>3. b * (a \div b) > a - b
  BY Z3
<1> QED
  BY <1>1, <1>2, <1>3

LEMMA DivNat ==
  ASSUME NEW a \in Nat, NEW b \in Nat \ {0}
  PROVE  a \div b \in Nat
BY Z3

LEMMA ModOfMultiple ==
  ASSUME NEW k \in Int, NEW b \in Nat \ {0}
  PROVE  (b * k) % b = 0
BY Z3

LEMMA MulMonotone ==
  ASSUME NEW b \in Nat \ {0}, NEW m \in Int, NEW n \in Int
  PROVE  m <= n <=> b * m <= b * n
BY Z3

\* CeilDiv(a, b) is the least n with a <= b * n.
LEMMA CeilDivLeast ==
  ASSUME NEW a \in Nat, NEW b \in Nat \ {0}, NEW n \in Int
  PROVE  CeilDiv(a, b) \in Int /\ (CeilDiv(a, b) <= n <=> a <= b * n)
<1> DEFINE q == CeilDiv(a, b)
<1>1. q \in Int /\ b * q <= a + b - 1 /\ b * q > a - 1
  BY DivBounds, a + b - 1 \in Int DEF CeilDiv
<1> HIDE DEF q
<1>2. b * q \in Int /\ b * n \in Int /\ b * (n + 1) = b * n + b
  BY <1>1
<1>3. ASSUME q <= n PROVE a <= b * n
  <2>1. b * q <= b * n
    BY <1>1, <1>3, MulMonotone
  <2> QED
    BY <1>1, <1>2, <2>1
<1>4. ASSUME a <= b * n PROVE q <= n
  <2>1. ~(b * (n + 1) <= b * q)
    BY <1>1, <1>2, <1>4
  <2>2. ~(n + 1 <= q)
    BY <1>1, <2>1, MulMonotone
  <2> QED
    BY <1>1, <2>2
<1> QED
  BY <1>1, <1>3, <1>4 DEF q

LEMMA RoundDivType ==
  ASSUME NEW a \in Nat, NEW b \in Nat \ {0}
  PROVE  RoundDiv(a, b) \in Nat
<1>1. 2 * a + b \in Nat /\ 2 * b \in Nat \ {0}
  OBVIOUS
<1> QED
  BY <1>1, DivNat DEF RoundDiv

\* RoundUpTo(n, q) is the least multiple of q that is at least n.
LEMMA RoundUpToFacts ==
  ASSUME NEW n \in Int, NEW q \in Nat \ {0}
  PROVE  /\ RoundUpTo(n, q) \in Int
         /\ RoundUpTo(n, q) % q = 0
         /\ n <= RoundUpTo(n, q) /\ RoundUpTo(n, q) < n + q
<1> DEFINE d == n \div q
<1>1. d \in Int /\ q * d <= n /\ q * d > n - q
  BY DivBounds
<1>2. CASE n % q = 0
  BY <1>2 DEF RoundUpTo
<1>3. CASE n % q # 0
  <2>1. n # q * d
    BY <1>1, <1>3, ModOfMultiple
  <2>2. RoundUpTo(n, q) = q * (d + 1)
    BY <1>1, <1>3 DEF RoundUpTo
  <2> HIDE DEF d
  <2>3. q * (d + 1) = q * d + q /\ q * d \in Int /\ d + 1 \in Int
    BY <1>1
  <2>4. (q * (d + 1)) % q = 0
    BY <2>3, ModOfMultiple
  <2> QED
    BY <1>1, <2>1, <2>2, <2>3, <2>4
<1> QED
  BY <1>2, <1>3

-----------------------------------------------------------------------------
(* What Recommend returns.                                                 *)

\* A throttled table with writes needs a limit if and only if the limit covers the
\* write rate with headroom.
LEMMA RawCostLimitLeast ==
  ASSUME NEW s \in TableSnapshot, Writing(s), HasCapacity(s.settings), NEW n \in Int
  PROVE  RawCostLimit(s) \in Int /\ (RawCostLimit(s) <= n <=> Covers(s, n))
<1> DEFINE a == s.gen * HeadroomPct * s.settings.delay
           b == 100 * s.window * CapacityScale
<1>1. s.gen \in Nat /\ s.window \in Nat \ {0} /\ s.settings.delay \in Nat
  BY DEF TableSnapshot, VacuumSettings, Writing, HasCapacity
<1>2. a \in Nat /\ b \in Nat \ {0}
  <2>1. s.gen * HeadroomPct \in Nat /\ s.window * CapacityScale \in Nat \ {0}
    BY <1>1, TunerAssumption, RaceAssumption
  <2>2. 100 * s.window * CapacityScale = 100 * (s.window * CapacityScale)
    BY <1>1, RaceAssumption
  <2> QED
    BY <1>1, <2>1, <2>2
<1>3. RawCostLimit(s) = CeilDiv(a, b)
  BY DEF RawCostLimit
<1>4. Covers(s, n) <=> a <= b * n
  BY DEF Covers
<1> QED
  BY <1>2, <1>3, <1>4, CeilDivLeast

\* A limit that covers the write rate with headroom keeps up.
LEMMA CoversKeepsUp ==
  ASSUME NEW s \in TableSnapshot, HasCapacity(s.settings), Covers(s, s.settings.limit)
  PROVE  KeepingUp(s)
<1> DEFINE g == s.gen * s.settings.delay
           c == s.settings.limit * CapacityScale * s.window
<1>1. /\ s.gen \in Nat /\ s.window \in Nat /\ s.settings.delay \in Nat /\ s.settings.limit \in Nat
      /\ HeadroomPct \in Nat /\ HeadroomPct >= 100 /\ CapacityScale \in Nat
  BY TunerAssumption, RaceAssumption DEF TableSnapshot, VacuumSettings, HasCapacity
<1>2. g \in Nat /\ c \in Nat
  BY <1>1
<1>3. s.gen * HeadroomPct * s.settings.delay = HeadroomPct * g
  BY <1>1
<1>4. 100 * s.window * CapacityScale * s.settings.limit = 100 * c
  BY <1>1
<1>5. HeadroomPct * g <= 100 * c
  BY <1>3, <1>4 DEF Covers
<1> HIDE DEF g, c
<1>6. 100 * g <= HeadroomPct * g
  BY <1>1, <1>2, Z3
<1>7. g <= c
  BY <1>1, <1>2, <1>5, <1>6
<1> QED
  BY <1>7 DEF KeepingUp, g, c

\* A table that cannot keep up is at critical risk: Recommend does not skip it.
LEMMA LosingIsCritical ==
  ASSUME NEW s, ~KeepingUp(s)
  PROVE  Risk(s) = RiskCritical
<1>1. Given(s, "cannot keep up")
  BY DEF Given
<1> QED
  BY <1>1 DEF Risk, CriticalReasons

\* NeededCostLimit stays within max_cost_limit.
LEMMA NeededCostLimitBounded ==
  ASSUME NEW s \in TableSnapshot
  PROVE  NeededCostLimit(s) \in Int /\ NeededCostLimit(s) <= MaxCostLimit
<1>1. RawCostLimit(s) \in Int
  <2>1. CASE Writing(s) /\ HasCapacity(s.settings)
    BY <2>1, RawCostLimitLeast
  <2>2. CASE ~(Writing(s) /\ HasCapacity(s.settings))
    BY <2>2, TunerAssumption DEF RawCostLimit, TableSnapshot, VacuumSettings
  <2> QED
    BY <2>1, <2>2
<1>2. \A n \in Int : RoundUpTo(n, MinCostLimit) \in Int
  BY RoundUpToFacts, TunerAssumption
<1>3. s.settings.limit \in Int
  BY DEF TableSnapshot, VacuumSettings
<1> QED
  BY <1>1, <1>2, <1>3, TunerAssumption DEF NeededCostLimit, AtMost

\* What NeededCostLimit returns for a throttled table that cannot keep up.
LEMMA NeededCostLimitFacts ==
  ASSUME NEW s \in TableSnapshot, HasCapacity(s.settings), ~KeepingUp(s)
  PROVE  LET n == NeededCostLimit(s)
         IN  \/ n <= s.settings.limit /\ MaxCostLimit <= s.settings.limit
             \/ /\ n > s.settings.limit
                /\ \/ n = MaxCostLimit /\ ~Covers(s, MaxCostLimit - MinCostLimit)
                   \/ /\ n % MinCostLimit = 0
                      /\ Covers(s, n)
                      /\ n > MinCostLimit => ~Covers(s, n - MinCostLimit)
<1> DEFINE raw == RawCostLimit(s)
           floor == IF raw < MinCostLimit THEN MinCostLimit ELSE raw
           up == RoundUpTo(floor, MinCostLimit)
           limit == s.settings.limit
<1>1. Writing(s) /\ limit \in Int /\ MinCostLimit \in Nat \ {0} /\ MaxCostLimit \in Nat
  BY TunerAssumption DEF KeepingUp, TableSnapshot, VacuumSettings
<1>2. raw \in Int /\ \A n \in Int : raw <= n <=> Covers(s, n)
  BY <1>1, RawCostLimitLeast
<1>3. floor \in Int /\ raw <= floor
  BY <1>1, <1>2
<1>4. up \in Int /\ up % MinCostLimit = 0 /\ floor <= up /\ up < floor + MinCostLimit
  BY <1>1, <1>3, RoundUpToFacts
<1>5. limit < raw
  BY <1>1, <1>2, CoversKeepsUp
<1>6. NeededCostLimit(s) =
        IF AtMost(up, MaxCostLimit) <= limit
        THEN AtMost(RoundUpTo(limit + MinCostLimit, MinCostLimit), MaxCostLimit)
        ELSE AtMost(up, MaxCostLimit)
  BY DEF NeededCostLimit
<1>7. MinCostLimit % MinCostLimit = 0 /\ MinCostLimit <= MaxCostLimit
  BY TunerAssumption
<1>8. RoundUpTo(MinCostLimit, MinCostLimit) = MinCostLimit
  BY <1>7 DEF RoundUpTo
<1>9. RoundUpTo(limit + MinCostLimit, MinCostLimit) \in Int
  BY <1>1, limit + MinCostLimit \in Int, RoundUpToFacts
<1>10. raw < MinCostLimit => up = MinCostLimit
  BY <1>8
<1>11. ~(raw < MinCostLimit) => floor = raw
  OBVIOUS
<1> HIDE DEF raw, floor, up, limit
<1>12. CASE up > MaxCostLimit
  <2>1. ~(raw < MinCostLimit) /\ raw > MaxCostLimit - MinCostLimit
    BY <1>1, <1>2, <1>4, <1>7, <1>10, <1>11, <1>12
  <2>2. ~Covers(s, MaxCostLimit - MinCostLimit)
    BY <1>1, <1>2, <2>1
  <2> QED
    BY <1>1, <1>6, <1>9, <1>12, <2>2 DEF AtMost, limit
<1>13. CASE up <= MaxCostLimit
  <2>1. AtMost(up, MaxCostLimit) = up /\ limit < up
    BY <1>1, <1>2, <1>3, <1>4, <1>5, <1>13 DEF AtMost
  <2>2. NeededCostLimit(s) = up
    BY <1>1, <1>4, <1>6, <2>1
  <2>3. Covers(s, up)
    BY <1>2, <1>3, <1>4
  <2>4. up > MinCostLimit => ~Covers(s, up - MinCostLimit)
    BY <1>1, <1>2, <1>4, <1>10, <1>11
  <2> QED
    BY <1>4, <2>1, <2>2, <2>3, <2>4 DEF limit
<1> QED
  BY <1>1, <1>4, <1>12, <1>13

-----------------------------------------------------------------------------
(* The types of TuneLoop.                                                  *)

LEMMA RoundScaleType ==
  ASSUME NEW v \in Nat
  PROVE  RoundScale(v) \in Nat
BY RoundDivType, TunerAssumption DEF RoundScale

LEMMA TargetDeadType ==
  ASSUME NEW s \in TableSnapshot
  PROVE  TargetDead(s) \in Nat
BY TunerAssumption DEF TargetDead, TableSnapshot

\* A proposed scale factor is a natural number: the lower bound of the clamp is above 0.
LEMMA TargetScaleType ==
  ASSUME NEW s \in TableSnapshot, Writing(s), TableSize(s) > 0
  PROVE  TargetScale(s) \in Nat
<1> DEFINE excess == (TargetDead(s) - s.settings.threshold * s.window) * ScaleUnit
           size == TableSize(s) * s.window
<1>1. /\ s.window \in Nat \ {0} /\ s.settings.threshold \in Nat /\ TableSize(s) \in Nat \ {0}
      /\ TargetDead(s) \in Nat
  BY TargetDeadType DEF TableSnapshot, VacuumSettings, Writing, TableSize
<1>2. excess \in Int /\ size \in Nat \ {0}
  BY <1>1, RaceAssumption
<1>3. RoundScale(MinScaleFactor) \in Nat /\ RoundScale(MaxScaleFactor) \in Nat
  BY RoundScaleType, TunerAssumption
<1>4. TargetScale(s) =
        IF excess < MinScaleFactor * size THEN RoundScale(MinScaleFactor)
        ELSE IF excess > MaxScaleFactor * size THEN RoundScale(MaxScaleFactor)
        ELSE RoundDiv(excess, size * ScaleGrain) * ScaleGrain
  BY DEF TargetScale
<1> HIDE DEF excess, size
<1>5. size * ScaleGrain \in Nat \ {0} /\ MinScaleFactor * size \in Nat
  BY <1>2, TunerAssumption
<1>6. ~(excess < MinScaleFactor * size) => RoundDiv(excess, size * ScaleGrain) \in Nat
  BY <1>2, <1>5, RoundDivType
<1> QED
  BY <1>3, <1>4, <1>6, TunerAssumption

\* Recommend proposes settings, and leaves cost_delay alone.
LEMMA RecommendType ==
  ASSUME NEW s \in TableSnapshot
  PROVE  Recommend(s) \in VacuumSettings /\ Recommend(s).delay = s.settings.delay
<1>1. s.settings \in VacuumSettings
  BY DEF TableSnapshot
<1>2. NeededCostLimit(s) \in Int
  BY NeededCostLimitBounded
<1>3. ASSUME ChangesScale(s) PROVE TargetScale(s) \in Nat /\ AbsoluteThreshold(s) \in Nat
  <2>1. TargetScale(s) \in Nat
    BY <1>3, TargetScaleType DEF ChangesScale
  <2>2. RoundDiv(TargetDead(s), s.window) \in Nat
    BY <1>3, TargetDeadType, RoundDivType DEF ChangesScale, Writing, TableSnapshot
  <2> QED
    BY <2>1, <2>2, TunerAssumption DEF AbsoluteThreshold, Clamp
<1>4. RaisesCostLimit(s) => NeededCostLimit(s) \in Nat
  BY <1>1, <1>2 DEF RaisesCostLimit, VacuumSettings
<1> QED
  BY <1>1, <1>3, <1>4 DEF Recommend, VacuumSettings

\* What a run leaves of the snapshot.
LEMMA TunedFacts ==
  ASSUME NEW s \in TableSnapshot
  PROVE  /\ Tuned(s) \in TableSnapshot
         /\ Tuned(s).settings = Recommend(s)
         /\ Tuned(s).live = s.live /\ Tuned(s).dead = s.dead /\ Tuned(s).rel = s.rel
         /\ Tuned(s).gen = s.gen /\ Tuned(s).window = s.window
         /\ Tuned(s).settings.delay = s.settings.delay
BY RecommendType DEF Tuned, TableSnapshot

\* The limit Recommend proposes.
LEMMA RecommendLimit ==
  ASSUME NEW s \in TableSnapshot
  PROVE  Recommend(s).limit = IF Risk(s) # RiskOK /\ RaisesCostLimit(s)
                              THEN NeededCostLimit(s) ELSE s.settings.limit
BY DEF Recommend, TableSnapshot, VacuumSettings

\* The variables keep their types.
THEOREM TypeCorrect == Spec => []TypeOK
<1>1. Init => TypeOK
  <2> SUFFICES ASSUME Init PROVE TypeOK
    OBVIOUS
  <2> DEFINE first == [scale : Scales, threshold : Thresholds, limit : Limits, delay : Delays]
  <2>1. first \subseteq VacuumSettings
    BY LoopAssumption DEF VacuumSettings
  <2>2. rows \in Nat /\ {-1, rows} \subseteq Int /\ {rows} \subseteq Nat /\ {0} \subseteq Nat
    BY LoopAssumption DEF Init
  <2> HIDE DEF first
  <2>3. [live : {rows}, dead : {0}, rel : {-1, rows}, gen : Carried, window : {0}, age : Ages,
         settings : first] \subseteq TableSnapshot
    BY <2>1, <2>2, LoopAssumption DEF TableSnapshot
  <2> QED
    BY <2>3 DEF Init, TypeOK, first
<1>2. TypeOK /\ [Next]_vars => TypeOK'
  <2> SUFFICES ASSUME TypeOK, [Next]_vars PROVE TypeOK'
    OBVIOUS
  <2> USE DEF TypeOK
  <2>1. CASE Tune
    BY <2>1, TunedFacts DEF Tune
  <2>2. CASE Hour
    <3>1. workload \in Nat
      BY LoopAssumption
    <3>2. table.dead + workload \in Nat /\ table.gen + workload \in Nat /\ table.window + 1 \in Nat
      BY <3>1 DEF TableSnapshot
    <3>3. [table EXCEPT !.dead = @ + workload, !.gen = @ + workload, !.window = @ + 1]
            \in TableSnapshot
      BY <3>2 DEF TableSnapshot
    <3> QED
      BY <2>2, <3>3 DEF Hour
  <2>3. CASE SteadyHour
    <3>1. workload \in Nat
      BY LoopAssumption
    <3>2. table.dead + workload \in Nat
      BY <3>1 DEF TableSnapshot
    <3> QED
      BY <2>3, <3>2 DEF SteadyHour, TableSnapshot
  <2>4. rows \in Nat /\ rows \in Int
    BY LoopAssumption
  <2>5. CASE Autovacuum
    <3>1. [table EXCEPT !.dead = 0, !.live = rows, !.rel = rows] \in TableSnapshot
      BY <2>4 DEF TableSnapshot
    <3> QED
      BY <2>5, <3>1 DEF Autovacuum
  <2>6. CASE Analyze
    <3>1. [table EXCEPT !.live = rows, !.rel = rows] \in TableSnapshot
      BY <2>4 DEF TableSnapshot
    <3> QED
      BY <2>6, <3>1 DEF Analyze
  <2>7. CASE ResetStatistics
    <3>1. [table EXCEPT !.live = 0, !.dead = 0, !.gen = 0, !.window = 0] \in TableSnapshot
      BY DEF TableSnapshot
    <3> QED
      BY <2>7, <3>1 DEF ResetStatistics
  <2>8. CASE ShiftWorkload
    BY <2>8 DEF ShiftWorkload
  <2>9. CASE UNCHANGED vars
    BY <2>9 DEF vars
  <2> QED
    BY <2>1, <2>2, <2>3, <2>5, <2>6, <2>7, <2>8, <2>9 DEF Next
<1> QED
  BY <1>1, <1>2, PTL DEF Spec

-----------------------------------------------------------------------------
(* cost_limit.                                                             *)

\* Only a run of pgav changes the settings.
LEMMA OnlyTuneChangesSettings ==
  ASSUME TypeOK, [Next]_vars, ~Tune
  PROVE  Settings' = Settings
BY DEF TypeOK, TableSnapshot, Next, vars, Settings, Hour, SteadyHour, Autovacuum, Analyze,
     ResetStatistics, ShiftWorkload

LEMMA TuneSets ==
  ASSUME TypeOK, Tune
  PROVE  /\ Settings' = Recommend(table)
         /\ table'.gen = table.gen /\ table'.window = table.window
BY TunedFacts DEF TypeOK, Tune, Settings

\* No sequence of runs ever lowers cost_limit or raises it beyond max_cost_limit.
THEOREM CostLimitOnlyRaisedHolds == Spec => CostLimitOnlyRaised
<1>1. TypeOK /\ [Next]_vars =>
        [/\ Settings'.limit >= Settings.limit
         /\ Settings'.limit > Settings.limit => Settings'.limit <= MaxCostLimit]_vars
  <2> SUFFICES ASSUME TypeOK, [Next]_vars
               PROVE  /\ Settings'.limit >= Settings.limit
                      /\ Settings'.limit > Settings.limit => Settings'.limit <= MaxCostLimit
    OBVIOUS
  <2>1. table \in TableSnapshot /\ Settings.limit \in Int
    BY DEF TypeOK, TableSnapshot, VacuumSettings, Settings
  <2>2. CASE Tune
    <3>1. Settings'.limit = IF Risk(table) # RiskOK /\ RaisesCostLimit(table)
                            THEN NeededCostLimit(table) ELSE Settings.limit
      BY <2>1, <2>2, TuneSets, RecommendLimit DEF Settings
    <3> QED
      BY <2>1, <3>1, NeededCostLimitBounded DEF RaisesCostLimit, Settings
  <2>3. CASE ~Tune
    BY <2>1, <2>3, OnlyTuneChangesSettings
  <2> QED
    BY <2>2, <2>3
<1> QED
  BY <1>1, TypeCorrect, PTL DEF Spec, CostLimitOnlyRaised

\* A raise of cost_limit is the smallest round step that covers the write rate, or
\* max_cost_limit.
THEOREM SmallestCoveringStepHolds == Spec => SmallestCoveringStep
<1> DEFINE Step == Settings'.limit # Settings.limit /\ HasCapacity(Settings) =>
         \/ Settings'.limit = MaxCostLimit /\ ~Covers(table, MaxCostLimit - MinCostLimit)
         \/ /\ Settings'.limit % MinCostLimit = 0
            /\ Covers(table, Settings'.limit)
            /\ Settings'.limit > MinCostLimit => ~Covers(table, Settings'.limit - MinCostLimit)
<1>1. TypeOK /\ [Next]_vars => [Step]_vars
  <2> SUFFICES ASSUME TypeOK, [Next]_vars, Settings'.limit # Settings.limit, HasCapacity(Settings)
               PROVE  Step
    OBVIOUS
  <2>1. Tune /\ table \in TableSnapshot
    BY OnlyTuneChangesSettings DEF TypeOK
  <2>2. Settings'.limit = IF Risk(table) # RiskOK /\ RaisesCostLimit(table)
                          THEN NeededCostLimit(table) ELSE Settings.limit
    BY <2>1, TuneSets, RecommendLimit DEF Settings
  <2>3. RaisesCostLimit(table) /\ Settings'.limit = NeededCostLimit(table)
    BY <2>2
  <2>4. ~KeepingUp(table) /\ Settings'.limit > Settings.limit
    BY <2>3 DEF RaisesCostLimit, Settings
  <2>5. Settings.limit \in Int /\ Settings'.limit \in Int
    BY <2>1, <2>3, NeededCostLimitBounded DEF TableSnapshot, VacuumSettings, Settings
  <2> QED
    BY <2>1, <2>3, <2>4, <2>5, NeededCostLimitFacts DEF Settings
<1> QED
  BY <1>1, TypeCorrect, PTL DEF Spec, SmallestCoveringStep

\* There is no reason to raise the limit of a table, or no room.
LimitAtRest(s) == KeepingUp(s) \/ s.settings.limit >= MaxCostLimit

\* A run leaves a throttled table with a limit at rest.
LEMMA TunedLimitAtRest ==
  ASSUME NEW s \in TableSnapshot, HasCapacity(s.settings)
  PROVE  LimitAtRest(Tuned(s))
<1> DEFINE t == Tuned(s)
<1>1. /\ t \in TableSnapshot
      /\ t.gen = s.gen /\ t.window = s.window /\ t.settings.delay = s.settings.delay
  BY TunedFacts
<1>2. t.settings.limit = IF Risk(s) # RiskOK /\ RaisesCostLimit(s)
                         THEN NeededCostLimit(s) ELSE s.settings.limit
  BY TunedFacts, RecommendLimit
<1> HIDE DEF t
<1>3. Writing(t) <=> Writing(s)
  BY <1>1 DEF Writing
<1>4. s.settings.limit \in Int /\ t.settings.limit \in Int /\ NeededCostLimit(s) \in Int
      /\ MaxCostLimit \in Int
  BY <1>1, NeededCostLimitBounded, TunerAssumption DEF TableSnapshot, VacuumSettings
<1>5. CASE KeepingUp(s)
  <2>1. t.settings.limit = s.settings.limit
    BY <1>2, <1>5 DEF RaisesCostLimit
  <2>2. KeepingUp(t)
    BY <1>1, <1>3, <1>5, <2>1 DEF KeepingUp, HasCapacity
  <2> QED
    BY <2>2 DEF LimitAtRest, t
<1>6. CASE ~KeepingUp(s)
  <2>1. Risk(s) # RiskOK
    BY <1>6, LosingIsCritical DEF RiskCritical, RiskOK
  <2>2. CASE NeededCostLimit(s) <= s.settings.limit
    <3>1. t.settings.limit = s.settings.limit
      BY <1>2, <1>4, <2>2 DEF RaisesCostLimit
    <3>2. t.settings.limit >= MaxCostLimit
      BY <1>4, <1>6, <2>2, <3>1, NeededCostLimitFacts
    <3> QED
      BY <3>2 DEF LimitAtRest, t
  <2>3. CASE NeededCostLimit(s) > s.settings.limit
    <3>1. t.settings.limit = NeededCostLimit(s)
      BY <1>2, <1>6, <2>1, <2>3 DEF RaisesCostLimit
    <3>2. t.settings.limit = MaxCostLimit \/ Covers(s, t.settings.limit)
      BY <1>4, <1>6, <2>3, <3>1, NeededCostLimitFacts
    <3>3. CASE t.settings.limit = MaxCostLimit
      BY <1>4, <3>3 DEF LimitAtRest, t
    <3>4. CASE Covers(s, t.settings.limit)
      <4>1. Covers(t, t.settings.limit)
        BY <1>1, <3>4 DEF Covers
      <4>2. HasCapacity(t.settings)
        BY <1>1, <1>4, <2>3, <3>1 DEF HasCapacity
      <4>3. KeepingUp(t)
        BY <1>1, <4>1, <4>2, CoversKeepsUp
      <4> QED
        BY <4>3 DEF LimitAtRest, t
    <3> QED
      BY <3>2, <3>3, <3>4
  <2> QED
    BY <1>4, <2>2, <2>3
<1> QED
  BY <1>5, <1>6

\* One run lets a throttled table keep up, or leaves it at max_cost_limit or above.
THEOREM OneRunCatchesUpHolds == Spec => OneRunCatchesUp
<1>1. TypeOK /\ [Next]_vars =>
        [Tune /\ HasCapacity(Settings) => KeepingUp(table') \/ Settings'.limit >= MaxCostLimit]_vars
  BY TunedLimitAtRest DEF TypeOK, Tune, Settings, LimitAtRest
<1> QED
  BY <1>1, TypeCorrect, PTL DEF Spec, OneRunCatchesUp

-----------------------------------------------------------------------------
(* Runs that follow each other with nothing else happening.                *)

\* A limit at rest stays what it is.
LEMMA LimitStays ==
  ASSUME NEW s \in TableSnapshot, LimitAtRest(s)
  PROVE  Recommend(s).limit = s.settings.limit /\ LimitAtRest(Tuned(s))
<1>1. ~RaisesCostLimit(s)
  <2>1. NeededCostLimit(s) \in Int /\ NeededCostLimit(s) <= MaxCostLimit
    BY NeededCostLimitBounded
  <2>2. s.settings.limit \in Int /\ MaxCostLimit \in Int
    BY TunerAssumption DEF TableSnapshot, VacuumSettings
  <2> QED
    BY <2>1, <2>2 DEF LimitAtRest, RaisesCostLimit
<1>2. Recommend(s).limit = s.settings.limit
  BY <1>1, RecommendLimit
<1>3. KeepingUp(Tuned(s)) <=> KeepingUp(s)
  BY <1>2, TunedFacts DEF KeepingUp, Writing, HasCapacity
<1> QED
  BY <1>2, <1>3, TunedFacts DEF LimitAtRest

\* Rounding what is rounded changes nothing.
LEMMA RoundScaleOfMultiple ==
  ASSUME NEW k \in Nat
  PROVE  RoundScale(k * ScaleGrain) = k * ScaleGrain
<1> DEFINE g == ScaleGrain
           num == 2 * (k * g) + g
           den == 2 * g
           q == num \div den
<1>1. g \in Nat \ {0} /\ k * g \in Nat /\ num \in Int /\ den \in Nat \ {0}
  BY TunerAssumption
<1>2. RoundScale(k * ScaleGrain) = q * ScaleGrain
  BY DEF RoundScale, RoundDiv
<1> HIDE DEF num, den
<1>3. q \in Int /\ den * q <= num /\ den * q > num - den
  BY <1>1, DivBounds
<1> HIDE DEF q, g
<1>4. /\ den * q = 2 * (g * q) /\ num = 2 * (g * k) + g /\ den = 2 * g
      /\ g * q \in Int /\ g * k \in Int
  BY <1>1, <1>3 DEF num, den
<1>5. g * (k + 1) = g * k + g /\ g * (q + 1) = g * q + g
  BY <1>1, <1>3
<1>6. ~(k + 1 <= q)
  <2>1. ~(g * (k + 1) <= g * q)
    BY <1>1, <1>3, <1>4, <1>5
  <2> QED
    BY <1>1, <1>3, <2>1, MulMonotone
<1>7. ~(q + 1 <= k)
  <2>1. ~(g * (q + 1) <= g * k)
    BY <1>1, <1>3, <1>4, <1>5
  <2> QED
    BY <1>1, <1>3, <2>1, MulMonotone
<1>8. q = k
  BY <1>3, <1>6, <1>7
<1> QED
  BY <1>2, <1>8

\* The target scale factor is a multiple of the grain, and does not depend on the settings
\* but for the threshold.
LEMMA TargetScaleRounded ==
  ASSUME NEW s \in TableSnapshot, Writing(s), TableSize(s) > 0
  PROVE  RoundScale(TargetScale(s)) = TargetScale(s)
<1> DEFINE excess == (TargetDead(s) - s.settings.threshold * s.window) * ScaleUnit
           size == TableSize(s) * s.window
<1>1. /\ s.window \in Nat \ {0} /\ s.settings.threshold \in Nat /\ TableSize(s) \in Nat \ {0}
      /\ TargetDead(s) \in Nat
  BY TargetDeadType DEF TableSnapshot, VacuumSettings, Writing, TableSize
<1>2. excess \in Int /\ size \in Nat \ {0}
  BY <1>1, RaceAssumption
<1>3. TargetScale(s) =
        IF excess < MinScaleFactor * size THEN RoundScale(MinScaleFactor)
        ELSE IF excess > MaxScaleFactor * size THEN RoundScale(MaxScaleFactor)
        ELSE RoundDiv(excess, size * ScaleGrain) * ScaleGrain
  BY DEF TargetScale
<1> HIDE DEF excess, size
<1>4. RoundDiv(MinScaleFactor, ScaleGrain) \in Nat /\ RoundDiv(MaxScaleFactor, ScaleGrain) \in Nat
  BY RoundDivType, TunerAssumption
<1>5. size * ScaleGrain \in Nat \ {0} /\ MinScaleFactor * size \in Nat
  BY <1>2, TunerAssumption
<1>6. ~(excess < MinScaleFactor * size) => RoundDiv(excess, size * ScaleGrain) \in Nat
  BY <1>2, <1>5, RoundDivType
<1>7. PICK k \in Nat : TargetScale(s) = k * ScaleGrain
  BY <1>3, <1>4, <1>6 DEF RoundScale
<1> QED
  BY <1>7, RoundScaleOfMultiple

\* What a run looks at when it decides about the trigger is the same in the next run, but
\* for the trigger itself.
LEMMA SameTargets ==
  ASSUME NEW s \in TableSnapshot
  PROVE  LET t == Tuned(s)
         IN  /\ TableSize(t) = TableSize(s) /\ TargetDead(t) = TargetDead(s)
             /\ Writing(t) <=> Writing(s)
             /\ AbsoluteThreshold(t) = AbsoluteThreshold(s)
             /\ t.settings.threshold = s.settings.threshold => TargetScale(t) = TargetScale(s)
<1> DEFINE t == Tuned(s)
<1>1. TableSize(t) = TableSize(s) /\ TargetDead(t) = TargetDead(s) /\ (Writing(t) <=> Writing(s))
  BY TunedFacts DEF TableSize, TargetDead, Writing
<1>2. AbsoluteThreshold(t) = AbsoluteThreshold(s)
  BY <1>1, TunedFacts DEF AbsoluteThreshold
<1>3. t.settings.threshold = s.settings.threshold => TargetScale(t) = TargetScale(s)
  BY <1>1, TunedFacts DEF TargetScale
<1> QED
  BY <1>1, <1>2, <1>3

\* The run switches the table to an absolute threshold.
Switches(s) == Risk(s) # RiskOK /\ ChangesScale(s) /\ UsesAbsoluteThreshold(s)

\* A run that does not switch is the last one to change anything, if it leaves the limit at rest.
LEMMA PlainRunIsLast ==
  ASSUME NEW s \in TableSnapshot, ~Switches(s), LimitAtRest(Tuned(s))
  PROVE  SaysNoChange(Tuned(s))
<1> DEFINE t == Tuned(s)
<1>1. t \in TableSnapshot /\ t.settings = Recommend(s)
  BY TunedFacts
<1>2. Recommend(t).limit = t.settings.limit
  BY <1>1, LimitStays
<1>3. CASE Risk(s) = RiskOK
  <2>1. t = s
    BY <1>3 DEF Recommend, Tuned, TableSnapshot
  <2> QED
    BY <1>3, <2>1 DEF Recommend, SaysNoChange
<1>4. CASE Risk(s) # RiskOK /\ ~ChangesScale(s)
  <2>1. t.settings.scale = s.settings.scale /\ t.settings.threshold = s.settings.threshold
    BY <1>1, <1>4 DEF Recommend, TableSnapshot, VacuumSettings
  <2>2. Late(t) <=> Late(s)
    BY <2>1, TunedFacts, SameTargets
       DEF Late, HoursToTriggerOver, Due, Remaining, TriggerAt, TriggerDeadTuples
  <2>3. ~ChangesScale(t)
    BY <1>4, <2>1, <2>2, SameTargets DEF ChangesScale
  <2> QED
    BY <1>1, <1>2, <2>3 DEF Recommend, SaysNoChange, TableSnapshot, VacuumSettings
<1>5. CASE Risk(s) # RiskOK /\ ChangesScale(s) /\ ~UsesAbsoluteThreshold(s)
  <2>1. t.settings.scale = TargetScale(s) /\ t.settings.threshold = s.settings.threshold
    BY <1>1, <1>5 DEF Recommend, TableSnapshot, VacuumSettings
  <2>2. TargetScale(t) = RoundScale(t.settings.scale)
    BY <1>5, <2>1, SameTargets, TargetScaleRounded DEF ChangesScale
  <2>3. ~ChangesScale(t)
    BY <2>2 DEF ChangesScale
  <2> QED
    BY <1>1, <1>2, <2>3 DEF Recommend, SaysNoChange, TableSnapshot, VacuumSettings
<1> QED
  BY <1>3, <1>4, <1>5 DEF Switches

\* A table that was switched to an absolute threshold is not switched to another one.
LEMMA SwitchedStays ==
  ASSUME NEW s \in TableSnapshot, Switches(s), LimitAtRest(Tuned(s)), Switches(Tuned(s))
  PROVE  SaysNoChange(Tuned(s))
<1> DEFINE t == Tuned(s)
<1>1. t \in TableSnapshot /\ t.settings = Recommend(s)
  BY TunedFacts
<1>2. Recommend(t).limit = t.settings.limit
  BY <1>1, LimitStays
<1>3. t.settings.scale = 0 /\ t.settings.threshold = AbsoluteThreshold(s)
  BY <1>1 DEF Switches, Recommend, TableSnapshot, VacuumSettings
<1>4. AbsoluteThreshold(t) = t.settings.threshold
  BY <1>3, SameTargets
<1>5. Recommend(t) = [t.settings EXCEPT !.limit = Recommend(t).limit, !.scale = 0,
                                        !.threshold = AbsoluteThreshold(t)]
  BY <1>1 DEF Switches, Recommend, TableSnapshot, VacuumSettings
<1>6. t.settings \in VacuumSettings
  BY <1>1 DEF TableSnapshot
<1> HIDE DEF t
<1>7. Recommend(t) = t.settings
  BY <1>2, <1>3, <1>4, <1>5, <1>6, ZenonT(30) DEF VacuumSettings
<1> QED
  BY <1>7 DEF SaysNoChange, t

\* A table with nothing to change is not changed.
LEMMA IdleRun ==
  ASSUME NEW s \in TableSnapshot, SaysNoChange(s)
  PROVE  Tuned(s) = s
BY DEF SaysNoChange, Tuned, TableSnapshot

\* The third of three runs in a row finds nothing to change on a throttled table: the first
\* settles the limit, and the second is the last to touch the trigger.
THEOREM ThirdRunIsIdleHolds == Spec => []ThirdRunIsIdle
<1>1. TypeOK => ThirdRunIsIdle
  <2> SUFFICES ASSUME TypeOK, HasCapacity(Settings)
               PROVE  SaysNoChange(Tuned(Tuned(table)))
    BY DEF ThirdRunIsIdle
  <2> DEFINE s == table
             t == Tuned(s)
  <2>1. s \in TableSnapshot /\ t \in TableSnapshot
    BY TunedFacts DEF TypeOK
  <2>2. LimitAtRest(t) /\ LimitAtRest(Tuned(t))
    BY <2>1, TunedLimitAtRest, LimitStays DEF Settings
  <2>3. CASE ~Switches(t)
    BY <2>1, <2>2, <2>3, PlainRunIsLast
  <2>4. CASE Switches(t)
    <3>1. SaysNoChange(t)
      BY <2>1, <2>2, <2>4, PlainRunIsLast, SwitchedStays
    <3> QED
      BY <2>1, <3>1, IdleRun
  <2> QED
    BY <2>3, <2>4
<1> QED
  BY <1>1, TypeCorrect, PTL
=============================================================================
