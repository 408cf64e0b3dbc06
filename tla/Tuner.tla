------------------------------- MODULE Tuner -------------------------------
(***************************************************************************)
(* domain.Recommend: the settings pgav proposes for one table.             *)
(***************************************************************************)
EXTENDS VacuumRace

CONSTANTS
    MaxHoursBetweenVacuum,
    MinScaleFactor, MaxScaleFactor,   \* in units of 1/ScaleUnit
    ScaleGrain,                       \* 10^-scale_decimals, in the same units
    MinThreshold, MaxThreshold,
    CostLimitBump, MinCostLimit, MaxCostLimit,
    HeadroomPct                       \* cost_limit_headroom, in %

\* config.Validate
ASSUME TunerAssumption ==
    /\ MaxHoursBetweenVacuum \in Nat \ {0}
    /\ MinScaleFactor \in Nat \ {0} /\ MaxScaleFactor \in Nat /\ MinScaleFactor <= MaxScaleFactor
    /\ ScaleGrain \in Nat \ {0}
    /\ MinThreshold \in Nat \ {0} /\ MaxThreshold \in Nat /\ MinThreshold <= MaxThreshold
    /\ CostLimitBump \in Nat \ {0}
    /\ MinCostLimit \in Nat \ {0} /\ MaxCostLimit \in Nat /\ MinCostLimit <= MaxCostLimit
    /\ HeadroomPct \in Nat /\ HeadroomPct >= 100

\* app.tunerParams uses the threshold of the scale-factor warning as the size of a
\* large table.
LargeTableRelTuples == MinTriggerForScaleWarning

\* math.Ceil and math.Round of a / b, for b > 0
CeilDiv(a, b) == (a + b - 1) \div b
RoundDiv(a, b) == (2 * a + b) \div (2 * b)

Clamp(v, lo, hi) == IF v < lo THEN lo ELSE IF v > hi THEN hi ELSE v

AtMost(n, hi) == IF n > hi THEN hi ELSE n

\* Fault: rounds down.
RoundDownTo(n, quantum) == (n \div quantum) * quantum

RoundUpTo(n, quantum) ==
    IF n % quantum = 0 THEN n ELSE (n \div quantum + 1) * quantum

RoundScale(v) == RoundDiv(v, ScaleGrain) * ScaleGrain

\* reltuples, or the live tuples of a table that was never analyzed
TableSize(s) == IF s.rel <= 0 THEN s.live ELSE s.rel

\* Fault: the capacity of one unit of cost_limit is taken at a delay of 1.
RawCostLimitNoDelay(s) ==
    IF Writing(s) /\ HasCapacity(s.settings)
    THEN CeilDiv(s.gen * HeadroomPct, 100 * s.window * CapacityScale)
    ELSE s.settings.limit + CostLimitBump

\* The cost_limit whose capacity is the write rate times the headroom, or, when the
\* model gives no capacity to scale from, the current one plus a bump.
RawCostLimit(s) ==
    IF Writing(s) /\ HasCapacity(s.settings)
    THEN CeilDiv(s.gen * HeadroomPct * s.settings.delay, 100 * s.window * CapacityScale)
    ELSE s.settings.limit + CostLimitBump

NeededCostLimit(s) ==
    LET raw == RawCostLimit(s)
        floor == IF raw < MinCostLimit THEN MinCostLimit ELSE raw
        n == AtMost(RoundUpTo(floor, MinCostLimit), MaxCostLimit)
    IN  IF n <= s.settings.limit
        THEN AtMost(RoundUpTo(s.settings.limit + MinCostLimit, MinCostLimit), MaxCostLimit)
        ELSE n

\* Fault: takes the dead tuples there are for those that were generated.
TargetDeadFromDead(s) ==
    IF s.dead * MaxHoursBetweenVacuum < s.window THEN s.window ELSE s.dead * MaxHoursBetweenVacuum

\* targetTrigger is TargetDead(s) / s.window: the dead tuples of the target interval,
\* at least one.
TargetDead(s) ==
    IF s.gen * MaxHoursBetweenVacuum < s.window THEN s.window ELSE s.gen * MaxHoursBetweenVacuum

\* Fault: no lower bound.
TargetScaleUnclamped(s) ==
    LET excess == (TargetDead(s) - s.settings.threshold * s.window) * ScaleUnit
        size == TableSize(s) * s.window
    IN  IF excess > MaxScaleFactor * size THEN RoundScale(MaxScaleFactor)
        ELSE RoundDiv(excess, size * ScaleGrain) * ScaleGrain

\* Fault: computed from the current trigger instead of the threshold.
TargetScaleFromTrigger(s) ==
    LET excess == (TargetDead(s) - TriggerAt(s) * s.window) * ScaleUnit
        size == TableSize(s) * s.window
    IN  IF excess < MinScaleFactor * size THEN RoundScale(MinScaleFactor)
        ELSE IF excess > MaxScaleFactor * size THEN RoundScale(MaxScaleFactor)
        ELSE RoundDiv(excess, size * ScaleGrain) * ScaleGrain

\* (targetTrigger - threshold) / reltuples, clamped, then rounded.
TargetScale(s) ==
    LET excess == (TargetDead(s) - s.settings.threshold * s.window) * ScaleUnit
        size == TableSize(s) * s.window
    IN  IF excess < MinScaleFactor * size THEN RoundScale(MinScaleFactor)
        ELSE IF excess > MaxScaleFactor * size THEN RoundScale(MaxScaleFactor)
        ELSE RoundDiv(excess, size * ScaleGrain) * ScaleGrain

AbsoluteThreshold(s) ==
    Clamp(RoundDiv(TargetDead(s), s.window), MinThreshold, MaxThreshold)

Late(s) == HoursToTriggerOver(s, MaxHoursBetweenVacuum) \/ (Due(s) /\ s.dead > 0)

\* Fault: the needed limit is taken whatever the current one is.
RaisesCostLimitUnchecked(s) == ~KeepingUp(s)

RaisesCostLimit(s) == ~KeepingUp(s) /\ NeededCostLimit(s) > s.settings.limit

ChangesScale(s) ==
    /\ TableSize(s) > 0
    /\ Writing(s)
    /\ Late(s)
    /\ TargetScale(s) # RoundScale(s.settings.scale)

UsesAbsoluteThreshold(s) ==
    TableSize(s) >= LargeTableRelTuples /\ TargetScale(s) <= MinScaleFactor

\* Recommendation.Proposed; Recommendation.Current is s.settings.
Recommend(s) ==
    IF Risk(s) = RiskOK THEN s.settings
    ELSE LET limit == IF RaisesCostLimit(s) THEN NeededCostLimit(s) ELSE s.settings.limit
         IN  IF ~ChangesScale(s) THEN [s.settings EXCEPT !.limit = limit]
             ELSE IF UsesAbsoluteThreshold(s)
             THEN [s.settings EXCEPT !.limit = limit, !.scale = 0,
                                     !.threshold = AbsoluteThreshold(s)]
             ELSE [s.settings EXCEPT !.limit = limit, !.scale = TargetScale(s)]

\* The reason "no change".
SaysNoChange(s) == Recommend(s) = s.settings
=============================================================================
