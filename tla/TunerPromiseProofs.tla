------------------------- MODULE TunerPromiseProofs -------------------------
(***************************************************************************)
(* Three promises of the documents do not hold as they are written: the    *)
(* bounds of the tuner, a trigger that fires in time, and "no change" for  *)
(* a table vacuum keeps up with.  These theorems say exactly how much of   *)
(* each one does hold, for every configuration and table.                  *)
(***************************************************************************)
EXTENDS TunerProofs

-----------------------------------------------------------------------------
(* Rounding.                                                               *)

\* RoundDiv(a, b) is at most half a unit away from a / b.
LEMMA RoundDivBounds ==
  ASSUME NEW a \in Int, NEW b \in Nat \ {0}
  PROVE  /\ RoundDiv(a, b) \in Int
         /\ 2 * (b * RoundDiv(a, b)) <= 2 * a + b
         /\ 2 * a < 2 * (b * RoundDiv(a, b)) + b
<1> DEFINE num == 2 * a + b
           den == 2 * b
           q == num \div den
<1>1. num \in Int /\ den \in Nat \ {0} /\ RoundDiv(a, b) = q
  BY DEF RoundDiv
<1>2. q \in Int /\ den * q <= num /\ den * q > num - den
  <2> HIDE DEF num, den
  <2> QED
    BY <1>1, DivBounds
<1> HIDE DEF q
<1>3. den * q = 2 * (b * q) /\ b * q \in Int
  BY <1>2
<1> QED
  BY <1>1, <1>2, <1>3

\* What is at most n after multiplication is at most n before.
LEMMA RoundDivAtMost ==
  ASSUME NEW a \in Int, NEW b \in Nat \ {0}, NEW n \in Int, a <= b * n
  PROVE  RoundDiv(a, b) <= n
<1> DEFINE q == RoundDiv(a, b)
<1>1. q \in Int /\ 2 * (b * q) <= 2 * a + b
  BY RoundDivBounds
<1> HIDE DEF q
<1>2. b * q \in Int /\ b * n \in Int /\ b * (n + 1) = b * n + b
  BY <1>1
<1>3. ~(b * (n + 1) <= b * q)
  BY <1>1, <1>2
<1>4. ~(n + 1 <= q)
  BY <1>1, <1>3, MulMonotone
<1> QED
  BY <1>1, <1>4 DEF q

\* Rounding keeps the order of a ratio and a number, also when the ratio is rounded in
\* the units of the number times its own denominator.
LEMMA RoundDivOrder ==
  ASSUME NEW a \in Int, NEW m \in Int, NEW size \in Nat \ {0}, NEW g \in Nat \ {0}
  PROVE  /\ m * size <= a => RoundDiv(m, g) <= RoundDiv(a, size * g)
         /\ a <= m * size => RoundDiv(a, size * g) <= RoundDiv(m, g)
<1> DEFINE p == RoundDiv(m, g)
           q == RoundDiv(a, size * g)
<1>1. size * g \in Nat \ {0} /\ m * size \in Int
  OBVIOUS
<1>2. /\ p \in Int /\ 2 * (g * p) <= 2 * m + g /\ 2 * m < 2 * (g * p) + g
      /\ q \in Int /\ 2 * ((size * g) * q) <= 2 * a + size * g
      /\ 2 * a < 2 * ((size * g) * q) + size * g
  BY <1>1, RoundDivBounds
<1> HIDE DEF p, q
<1>3. PICK gp \in Int, gq \in Int : gp = g * p /\ gq = g * q
  BY <1>2
<1>4. (size * g) * q = size * gq
  BY <1>2, <1>3
<1>5. g * (p + 1) = gp + g /\ g * (q + 1) = gq + g
  BY <1>2, <1>3
<1>6. ASSUME m * size <= a PROVE p <= q
  <2>1. size * (2 * m) < size * (2 * gq + g)
    BY <1>1, <1>2, <1>3, <1>4, <1>6
  <2>2. ~(2 * gq + g <= 2 * m)
    <3>1. 2 * gq + g \in Int /\ 2 * m \in Int
      BY <1>3
    <3>2. size * (2 * gq + g) \in Int /\ size * (2 * m) \in Int
      BY <3>1
    <3> QED
      BY <2>1, <3>1, <3>2, MulMonotone
  <2>3. ~(g * (q + 1) <= g * p)
    BY <1>2, <1>3, <1>5, <2>2
  <2>4. ~(q + 1 <= p)
    BY <1>2, <2>3, MulMonotone
  <2> QED
    BY <1>2, <2>4
<1>7. ASSUME a <= m * size PROVE q <= p
  <2>1. size * (2 * gq) <= size * (2 * m + g)
    BY <1>1, <1>2, <1>3, <1>4, <1>7
  <2>2. 2 * gq <= 2 * m + g
    <3>1. 2 * gq \in Int /\ 2 * m + g \in Int
      BY <1>3
    <3> QED
      BY <2>1, <3>1, MulMonotone
  <2>3. ~(g * (p + 1) <= g * q)
    BY <1>2, <1>3, <1>5, <2>2
  <2>4. ~(p + 1 <= q)
    BY <1>2, <2>3, MulMonotone
  <2> QED
    BY <1>2, <2>4
<1> QED
  BY <1>6, <1>7 DEF p, q

-----------------------------------------------------------------------------
(* The scale factor and the threshold Recommend proposes.                  *)

Size(s) == TableSize(s) * s.window
Excess(s) == (TargetDead(s) - s.settings.threshold * s.window) * ScaleUnit

LEMMA TargetTypes ==
  ASSUME NEW s \in TableSnapshot, Writing(s), TableSize(s) > 0
  PROVE  /\ s.window \in Nat \ {0} /\ s.settings.threshold \in Nat /\ s.settings.scale \in Nat
         /\ TableSize(s) \in Nat \ {0} /\ TargetDead(s) \in Nat
         /\ Excess(s) \in Int /\ Size(s) \in Nat \ {0}
<1>1. /\ s.window \in Nat \ {0} /\ s.settings.threshold \in Nat /\ s.settings.scale \in Nat
      /\ TableSize(s) \in Nat \ {0} /\ TargetDead(s) \in Nat
  BY TargetDeadType DEF TableSnapshot, VacuumSettings, Writing, TableSize
<1> QED
  BY <1>1, RaceAssumption DEF Excess, Size

\* The target scale factor lies between the rounded bounds.
LEMMA TargetScaleBetween ==
  ASSUME NEW s \in TableSnapshot, Writing(s), TableSize(s) > 0
  PROVE  /\ TargetScale(s) \in Nat
         /\ RoundScale(MinScaleFactor) <= TargetScale(s)
         /\ TargetScale(s) <= RoundScale(MaxScaleFactor)
<1> DEFINE g == ScaleGrain
           lo == RoundDiv(MinScaleFactor, g)
           hi == RoundDiv(MaxScaleFactor, g)
           mid == RoundDiv(Excess(s), Size(s) * g)
<1>1. Excess(s) \in Int /\ Size(s) \in Nat \ {0} /\ g \in Nat \ {0}
  BY TargetTypes, TunerAssumption
<1>2. Size(s) * g \in Nat \ {0}
  BY <1>1
<1>3. lo \in Int /\ hi \in Int /\ mid \in Int
  <2>1. MinScaleFactor \in Int /\ MaxScaleFactor \in Int
    BY TunerAssumption
  <2> HIDE DEF g
  <2> QED
    BY <1>1, <1>2, <2>1, RoundDivBounds
<1>4. lo <= hi
  <2>1. MinScaleFactor \in Int /\ MaxScaleFactor \in Int /\ MinScaleFactor * 1 <= MaxScaleFactor
    BY TunerAssumption
  <2>2. 1 \in Nat \ {0} /\ 1 * g = g
    BY <1>1
  <2> HIDE DEF g
  <2>3. RoundDiv(MinScaleFactor, g) <= RoundDiv(MaxScaleFactor, 1 * g)
    BY <1>1, <2>1, <2>2, RoundDivOrder
  <2> QED
    BY <2>2, <2>3
<1>5. TargetScale(s) = IF Excess(s) < MinScaleFactor * Size(s) THEN lo * g
                       ELSE IF Excess(s) > MaxScaleFactor * Size(s) THEN hi * g
                       ELSE mid * g
  BY DEF TargetScale, Excess, Size, RoundScale
<1>6. MinScaleFactor * Size(s) \in Int /\ MaxScaleFactor * Size(s) \in Int
  BY <1>1, TunerAssumption
<1>7. MinScaleFactor * Size(s) <= Excess(s) => lo <= mid
  <2>1. MinScaleFactor \in Int
    BY TunerAssumption
  <2> HIDE DEF g
  <2> QED
    BY <1>1, <2>1, RoundDivOrder
<1>8. Excess(s) <= MaxScaleFactor * Size(s) => mid <= hi
  <2>1. MaxScaleFactor \in Int
    BY TunerAssumption
  <2> HIDE DEF g
  <2> QED
    BY <1>1, <2>1, RoundDivOrder
<1>9. PICK k \in Int : TargetScale(s) = k * g /\ lo <= k /\ k <= hi
  <2> HIDE DEF lo, hi, mid, g
  <2>1. \E k \in {lo, mid, hi} : TargetScale(s) = k * g /\ lo <= k /\ k <= hi
    BY <1>1, <1>3, <1>4, <1>5, <1>6, <1>7, <1>8
  <2> QED
    BY <1>3, <2>1
<1>10. RoundScale(MinScaleFactor) = lo * g /\ RoundScale(MaxScaleFactor) = hi * g
  BY DEF RoundScale
<1> HIDE DEF lo, hi, mid, g
<1>11. g * lo <= g * k /\ g * k <= g * hi
  BY <1>1, <1>3, <1>9, MulMonotone
<1>12. TargetScale(s) \in Nat
  BY TargetScaleType
<1> QED
  BY <1>1, <1>3, <1>9, <1>10, <1>11, <1>12

\* The target scale factor is at most half a grain above the exact one, or is the rounded
\* minimum.
LEMMA TargetScaleOnTarget ==
  ASSUME NEW s \in TableSnapshot, Writing(s), TableSize(s) > 0
  PROVE  \/ TargetScale(s) = RoundScale(MinScaleFactor)
         \/ 2 * (Size(s) * TargetScale(s)) <= 2 * Excess(s) + Size(s) * ScaleGrain
<1> DEFINE g == ScaleGrain
           hi == RoundDiv(MaxScaleFactor, g)
           mid == RoundDiv(Excess(s), Size(s) * g)
<1>1. Excess(s) \in Int /\ Size(s) \in Nat \ {0} /\ g \in Nat \ {0} /\ MaxScaleFactor \in Nat
  BY TargetTypes, TunerAssumption
<1>2. Size(s) * g \in Nat \ {0}
  BY <1>1
<1>3. /\ hi \in Int /\ 2 * (g * hi) <= 2 * MaxScaleFactor + g
      /\ mid \in Int /\ 2 * ((Size(s) * g) * mid) <= 2 * Excess(s) + Size(s) * g
  <2> HIDE DEF g
  <2>1. MaxScaleFactor \in Int
    BY <1>1
  <2>2. hi \in Int /\ 2 * (g * hi) <= 2 * MaxScaleFactor + g
    BY <1>1, <2>1, RoundDivBounds
  <2>3. mid \in Int /\ 2 * ((Size(s) * g) * mid) <= 2 * Excess(s) + Size(s) * g
    BY <1>1, <1>2, RoundDivBounds
  <2> QED
    BY <2>2, <2>3
<1>4. TargetScale(s) = IF Excess(s) < MinScaleFactor * Size(s) THEN RoundScale(MinScaleFactor)
                       ELSE IF Excess(s) > MaxScaleFactor * Size(s) THEN hi * g
                       ELSE mid * g
  BY DEF TargetScale, Excess, Size, RoundScale
<1> HIDE DEF hi, mid, g
<1>5. CASE TargetScale(s) = RoundScale(MinScaleFactor)
  BY <1>5
<1>6. CASE TargetScale(s) = mid * g
  <2>1. (Size(s) * g) * mid = Size(s) * (mid * g)
    BY <1>1, <1>3
  <2> QED
    BY <1>3, <1>6, <2>1 DEF g
<1>7. CASE TargetScale(s) = hi * g /\ Excess(s) > MaxScaleFactor * Size(s)
  <2>1. 2 * (g * hi) \in Int /\ 2 * MaxScaleFactor + g \in Int /\ g * hi = hi * g
    BY <1>1, <1>3
  <2>2. Size(s) * (2 * (g * hi)) <= Size(s) * (2 * MaxScaleFactor + g)
    BY <1>1, <1>3, <2>1, MulMonotone
  <2>3. PICK x \in Int : x = hi * g
    BY <1>1, <1>3
  <2>4. Size(s) * (2 * MaxScaleFactor + g) = 2 * (MaxScaleFactor * Size(s)) + Size(s) * g
    BY <1>1
  <2>5. Size(s) * (2 * x) = 2 * (Size(s) * x) /\ Size(s) * x \in Int
    BY <1>1, <2>3
  <2>6. MaxScaleFactor * Size(s) \in Int /\ Size(s) * g \in Int
    BY <1>1
  <2>7. 2 * (Size(s) * x) <= 2 * (MaxScaleFactor * Size(s)) + Size(s) * g
    BY <2>1, <2>2, <2>3, <2>4, <2>5
  <2> QED
    BY <1>1, <1>7, <2>3, <2>5, <2>6, <2>7 DEF g
<1> QED
  BY <1>4, <1>5, <1>6, <1>7

\* What a run makes of the two settings of the trigger.
LEMMA RecommendTrigger ==
  ASSUME NEW s \in TableSnapshot
  PROVE  LET p == Recommend(s)
         IN  \/ p.scale = s.settings.scale /\ p.threshold = s.settings.threshold
             \/ /\ ChangesScale(s) /\ p.scale = 0
                /\ p.threshold = AbsoluteThreshold(s)
             \/ /\ ChangesScale(s) /\ p.scale = TargetScale(s)
                /\ p.threshold = s.settings.threshold
BY DEF Recommend, TableSnapshot, VacuumSettings

\* A higher scale factor beside the same threshold is a later trigger.
LEMMA TriggerOrder ==
  ASSUME NEW s \in TableSnapshot, NEW m \in Nat, NEW n \in Nat, m <= n
  PROVE  (m * AtLeast0(s.rel)) \div ScaleUnit <= (n * AtLeast0(s.rel)) \div ScaleUnit
<1> DEFINE r == AtLeast0(s.rel)
           x == (m * r) \div ScaleUnit
           y == (n * r) \div ScaleUnit
<1>1. r \in Nat /\ ScaleUnit \in Nat \ {0}
  BY RaceAssumption DEF TableSnapshot, AtLeast0
<1> HIDE DEF r
<1>2. m * r \in Nat /\ n * r \in Nat /\ m * r <= n * r
  <2>1. CASE r = 0
    BY <2>1
  <2>2. CASE r # 0
    <3>1. r * m <= r * n /\ r * m = m * r /\ r * n = n * r
      BY <1>1, <2>2, MulMonotone
    <3> QED
      BY <1>1, <3>1
  <2> QED
    BY <2>1, <2>2
<1>3. /\ x \in Int /\ ScaleUnit * x <= m * r
      /\ y \in Int /\ ScaleUnit * y > n * r - ScaleUnit
  BY <1>1, <1>2, DivBounds
<1> HIDE DEF x, y
<1>4. ScaleUnit * (y + 1) = ScaleUnit * y + ScaleUnit /\ ScaleUnit * x \in Int /\ ScaleUnit * y \in Int
  BY <1>1, <1>3
<1>5. ~(ScaleUnit * (y + 1) <= ScaleUnit * x)
  BY <1>1, <1>2, <1>3, <1>4
<1>6. ~(y + 1 <= x)
  BY <1>1, <1>3, <1>5, MulMonotone
<1> QED
  BY <1>3, <1>6 DEF x, y, r

-----------------------------------------------------------------------------
(* "TunerConfig holds recommendation bounds."                              *)

\* Rounding to scale_decimals takes neither bound of the scale factor out of the bounds.
\* The default configuration is one of these; Validate accepts others.
BoundsSurviveRounding ==
    /\ MinScaleFactor <= RoundScale(MinScaleFactor)
    /\ RoundScale(MaxScaleFactor) <= MaxScaleFactor

\* internal/config/config.go:54: a scale factor that is proposed is within its bounds, or
\* is the 0 that goes with an absolute threshold, and an absolute threshold is within its
\* own bounds.
ProposalWithinBounds ==
    [][/\ Settings'.scale # Settings.scale =>
             \/ Settings'.scale \in MinScaleFactor .. MaxScaleFactor
             \/ Settings'.scale = 0 /\ Settings'.threshold \in MinThreshold .. MaxThreshold
       /\ Settings'.threshold # Settings.threshold =>
             Settings'.scale = 0 /\ Settings'.threshold \in MinThreshold .. MaxThreshold]_vars

LEMMA AbsoluteThresholdFacts ==
  ASSUME NEW s \in TableSnapshot, Writing(s), TableSize(s) > 0
  PROVE  /\ AbsoluteThreshold(s) \in MinThreshold .. MaxThreshold
         /\ \/ AbsoluteThreshold(s) = MinThreshold
            \/ AbsoluteThreshold(s) <= RoundDiv(TargetDead(s), s.window)
<1>1. RoundDiv(TargetDead(s), s.window) \in Int
  <2>1. TargetDead(s) \in Int /\ s.window \in Nat \ {0}
    BY TargetTypes
  <2> QED
    BY <2>1, RoundDivBounds
<1> QED
  BY <1>1, TunerAssumption DEF AbsoluteThreshold, Clamp

\* Bounds that rounding respects are respected by every proposal: the rounding after the
\* clamp, which the run tune_bounds shows to leave them, is the only way out.
THEOREM ProposalWithinBoundsHolds ==
  ASSUME BoundsSurviveRounding
  PROVE  Spec => ProposalWithinBounds
<1> DEFINE Step ==
       /\ Settings'.scale # Settings.scale =>
             \/ Settings'.scale \in MinScaleFactor .. MaxScaleFactor
             \/ Settings'.scale = 0 /\ Settings'.threshold \in MinThreshold .. MaxThreshold
       /\ Settings'.threshold # Settings.threshold =>
             Settings'.scale = 0 /\ Settings'.threshold \in MinThreshold .. MaxThreshold
<1>1. TypeOK /\ [Next]_vars => [Step]_vars
  <2> SUFFICES ASSUME TypeOK, [Next]_vars PROVE Step
    OBVIOUS
  <2>1. CASE ~Tune
    BY <2>1, OnlyTuneChangesSettings
  <2>2. CASE Tune
    <3> DEFINE s == table
    <3>1. s \in TableSnapshot /\ Settings' = Recommend(s) /\ Settings = s.settings
      BY <2>2, TuneSets DEF TypeOK, Settings
    <3> HIDE DEF s
    <3>2. ASSUME ChangesScale(s)
          PROVE  /\ TargetScale(s) \in MinScaleFactor .. MaxScaleFactor
                 /\ AbsoluteThreshold(s) \in MinThreshold .. MaxThreshold
      <4>1. RoundScale(MinScaleFactor) \in Nat /\ RoundScale(MaxScaleFactor) \in Nat
        BY RoundScaleType, TunerAssumption
      <4>2. Writing(s) /\ TableSize(s) > 0
        BY <3>2 DEF ChangesScale
      <4>3. MinScaleFactor \in Int /\ MaxScaleFactor \in Int
        BY TunerAssumption
      <4>4. /\ TargetScale(s) \in Nat
            /\ RoundScale(MinScaleFactor) <= TargetScale(s)
            /\ TargetScale(s) <= RoundScale(MaxScaleFactor)
        BY <3>1, <4>2, TargetScaleBetween
      <4>5. TargetScale(s) \in MinScaleFactor .. MaxScaleFactor
        BY <4>1, <4>3, <4>4, BoundsSurviveRounding DEF BoundsSurviveRounding
      <4>6. AbsoluteThreshold(s) \in MinThreshold .. MaxThreshold
        BY <3>1, <4>2, AbsoluteThresholdFacts
      <4> QED
        BY <4>5, <4>6
    <3> QED
      BY <3>1, <3>2, RecommendTrigger
  <2> QED
    BY <2>1, <2>2
<1> QED
  BY <1>1, TypeCorrect, PTL DEF Spec, ProposalWithinBounds

-----------------------------------------------------------------------------
(* "Recommend computes settings so the trigger fires within                *)
(* MaxHoursBetweenVacuum."                                                 *)

\* The trigger is at most the target of the table, but for the rounding of the threshold
\* or of the scale factor: half a tuple, or half of a grain of scale_decimals.
OnTarget(s, settings) ==
    LET trigger == TriggerDeadTuples(settings, s.rel)
    IN  IF settings.scale = 0
        THEN 2 * s.window * trigger <= 2 * TargetDead(s) + s.window
        ELSE 2 * ScaleUnit * s.window * trigger
               <= 2 * ScaleUnit * TargetDead(s) + ScaleGrain * TableSize(s) * s.window

\* internal/domain/recommend.go:79: a run that moves the trigger brings it down to the
\* dead tuples of max_hours_between_vacuum, unless a minimum stops it.
TriggerOnTarget ==
    [][Tune =>
         \/ Settings'.scale = Settings.scale /\ Settings'.threshold = Settings.threshold
         \/ Settings'.scale = RoundScale(MinScaleFactor)
         \/ Settings'.scale = 0 /\ Settings'.threshold = MinThreshold
         \/ OnTarget(table, Settings')]_vars

LEMMA AbsoluteOnTarget ==
  ASSUME NEW s \in TableSnapshot, Writing(s), TableSize(s) > 0, NEW settings \in VacuumSettings,
         settings.scale = 0, settings.threshold = AbsoluteThreshold(s)
  PROVE  settings.threshold = MinThreshold \/ OnTarget(s, settings)
<1> DEFINE v == RoundDiv(TargetDead(s), s.window)
           w == s.window
<1>1. TargetDead(s) \in Nat /\ w \in Nat \ {0} /\ settings.threshold \in Nat
  BY TargetTypes DEF VacuumSettings
<1>2. v \in Int /\ 2 * (w * v) <= 2 * TargetDead(s) + w
  <2>1. TargetDead(s) \in Int
    BY <1>1
  <2> HIDE DEF w
  <2> QED
    BY <1>1, <2>1, RoundDivBounds DEF w
<1>3. TriggerDeadTuples(settings, s.rel) = settings.threshold
  <2>1. AtLeast0(s.rel) \in Nat /\ ScaleUnit \in Nat \ {0}
    BY RaceAssumption DEF AtLeast0, TableSnapshot
  <2>2. 0 * AtLeast0(s.rel) = 0 /\ 0 \div ScaleUnit = 0
    BY <2>1, Z3
  <2> QED
    BY <1>1, <2>2 DEF TriggerDeadTuples
<1>4. settings.threshold = MinThreshold \/ settings.threshold <= v
  BY AbsoluteThresholdFacts
<1> HIDE DEF v
<1>5. ASSUME settings.threshold <= v PROVE OnTarget(s, settings)
  <2>1. w * settings.threshold <= w * v
    BY <1>1, <1>2, <1>5, MulMonotone
  <2>2. 2 * w * settings.threshold = 2 * (w * settings.threshold) /\ w * settings.threshold \in Int
    BY <1>1
  <2>3. w * v \in Int
    BY <1>1, <1>2
  <2> QED
    BY <1>1, <1>2, <1>3, <2>1, <2>2, <2>3 DEF OnTarget
<1> QED
  BY <1>4, <1>5

\* The trigger of a scale factor beside the threshold of the table.
LEMMA ScaledTrigger ==
  ASSUME NEW s \in TableSnapshot, Writing(s), TableSize(s) > 0, NEW v \in Nat
  PROVE  LET trigger == s.settings.threshold + (v * AtLeast0(s.rel)) \div ScaleUnit
         IN  /\ trigger \in Nat
             /\ ScaleUnit * trigger <= ScaleUnit * s.settings.threshold + TableSize(s) * v
<1> DEFINE r == AtLeast0(s.rel)
           z == TableSize(s)
           th == s.settings.threshold
           x == (v * r) \div ScaleUnit
<1>1. th \in Nat /\ z \in Nat \ {0} /\ ScaleUnit \in Nat \ {0}
  BY TargetTypes, RaceAssumption
<1>2. r \in Nat /\ r <= z
  BY <1>1 DEF AtLeast0, TableSize, TableSnapshot
<1> HIDE DEF r, z, th
<1>3. v * r \in Nat /\ v * r <= z * v /\ z * v \in Nat
  <2>1. CASE v = 0
    BY <1>1, <1>2, <2>1
  <2>2. CASE v # 0
    <3>1. v * r <= v * z
      BY <1>1, <1>2, <2>2, MulMonotone
    <3> QED
      BY <1>1, <1>2, <3>1
  <2> QED
    BY <2>1, <2>2
<1>4. x \in Nat /\ ScaleUnit * x <= v * r
  <2> DEFINE p == v * r
  <2>1. p \in Nat
    BY <1>3
  <2> HIDE DEF p
  <2>2. p \div ScaleUnit \in Nat
    BY <1>1, <2>1, DivNat
  <2>3. ScaleUnit * (p \div ScaleUnit) <= p
    BY <1>1, <2>1, DivBounds
  <2> QED
    BY <2>2, <2>3 DEF p
<1> HIDE DEF x
<1>5. ScaleUnit * (th + x) = ScaleUnit * th + ScaleUnit * x /\ ScaleUnit * x \in Nat
      /\ ScaleUnit * th \in Nat
  BY <1>1, <1>4
<1>6. th + x \in Nat /\ ScaleUnit * (th + x) <= ScaleUnit * th + z * v
  BY <1>1, <1>3, <1>4, <1>5
<1> QED
  BY <1>6 DEF r, z, th, x

\* The trigger of the target scale factor in dead tuples of the statistics window, against
\* the dead tuples of the target interval.
LEMMA ScaledTarget ==
  ASSUME NEW s \in TableSnapshot, Writing(s), TableSize(s) > 0,
         NEW trigger \in Nat, NEW v \in Nat,
         ScaleUnit * trigger <= ScaleUnit * s.settings.threshold + TableSize(s) * v,
         2 * (Size(s) * v) <= 2 * Excess(s) + Size(s) * ScaleGrain
  PROVE  2 * ScaleUnit * s.window * trigger
           <= 2 * ScaleUnit * TargetDead(s) + ScaleGrain * TableSize(s) * s.window
<1> DEFINE w == s.window
           th == s.settings.threshold
           z == TableSize(s)
           T == TargetDead(s)
           U == ScaleUnit
           g == ScaleGrain
<1>1. /\ w \in Nat \ {0} /\ th \in Nat /\ z \in Nat \ {0} /\ T \in Nat /\ U \in Nat \ {0}
      /\ g \in Nat \ {0}
  BY TargetTypes, RaceAssumption, TunerAssumption
<1>2. U * trigger <= U * th + z * v
  OBVIOUS
<1>3. 2 * ((z * w) * v) <= 2 * ((T - th * w) * U) + (z * w) * g
  BY DEF Size, Excess
<1> HIDE DEF w, th, z, T, U, g
<1>4. w * (U * trigger) <= w * (U * th + z * v)
  <2>1. U * trigger \in Int /\ U * th + z * v \in Int
    BY <1>1
  <2> QED
    BY <1>1, <1>2, <2>1, MulMonotone
<1>5. PICK a \in Int, b \in Int, c \in Int, t \in Int, e \in Int :
        a = w * (U * trigger) /\ b = w * (U * th) /\ c = (z * w) * v /\ t = U * T /\ e = (z * w) * g
  BY <1>1
<1>6. w * (U * th + z * v) = b + c
  BY <1>1, <1>5
<1>7. (T - th * w) * U = t - b
  BY <1>1, <1>5
<1>8. 2 * a <= 2 * t + e
  BY <1>3, <1>4, <1>5, <1>6, <1>7
<1>9. 2 * U * w * trigger = 2 * a /\ 2 * U * T = 2 * t /\ g * z * w = e
  BY <1>1, <1>5
<1> QED
  BY <1>8, <1>9 DEF w, z, T, U, g

LEMMA ScaledOnTarget ==
  ASSUME NEW s \in TableSnapshot, Writing(s), TableSize(s) > 0, NEW settings \in VacuumSettings,
         settings.scale = TargetScale(s), settings.threshold = s.settings.threshold,
         TargetScale(s) # RoundScale(MinScaleFactor)
  PROVE  OnTarget(s, settings)
<1>1. /\ TargetScale(s) \in Nat /\ RoundScale(MinScaleFactor) \in Nat
      /\ RoundScale(MinScaleFactor) <= TargetScale(s)
  BY TargetScaleBetween, RoundScaleType, TunerAssumption
<1>2. settings.scale # 0
  BY <1>1
<1>3. 2 * (Size(s) * TargetScale(s)) <= 2 * Excess(s) + Size(s) * ScaleGrain
  BY TargetScaleOnTarget
<1> DEFINE trigger == s.settings.threshold + (TargetScale(s) * AtLeast0(s.rel)) \div ScaleUnit
<1>4. /\ trigger \in Nat
      /\ ScaleUnit * trigger <= ScaleUnit * s.settings.threshold + TableSize(s) * TargetScale(s)
  BY <1>1, ScaledTrigger
<1>5. TriggerDeadTuples(settings, s.rel) = trigger
  BY DEF TriggerDeadTuples
<1> HIDE DEF trigger
<1>6. 2 * ScaleUnit * s.window * trigger
        <= 2 * ScaleUnit * TargetDead(s) + ScaleGrain * TableSize(s) * s.window
  BY <1>1, <1>3, <1>4, ScaledTarget
<1> QED
  BY <1>2, <1>5, <1>6 DEF OnTarget

\* Every proposal that moves the trigger brings it to the target interval, up to rounding,
\* unless it is one of the two minima: neither maximum ever delays it.
THEOREM TriggerOnTargetHolds == Spec => TriggerOnTarget
<1> DEFINE Step ==
       Tune =>
         \/ Settings'.scale = Settings.scale /\ Settings'.threshold = Settings.threshold
         \/ Settings'.scale = RoundScale(MinScaleFactor)
         \/ Settings'.scale = 0 /\ Settings'.threshold = MinThreshold
         \/ OnTarget(table, Settings')
<1>1. TypeOK /\ [Next]_vars => [Step]_vars
  <2> SUFFICES ASSUME TypeOK, Tune PROVE Step
    OBVIOUS
  <2> DEFINE s == table
             p == Recommend(s)
  <2>1. s \in TableSnapshot /\ Settings' = p /\ Settings = s.settings
    BY TuneSets DEF TypeOK, Settings
  <2>2. p \in VacuumSettings
    BY <2>1, RecommendType
  <2>3. \/ p.scale = s.settings.scale /\ p.threshold = s.settings.threshold
        \/ ChangesScale(s) /\ p.scale = 0 /\ p.threshold = AbsoluteThreshold(s)
        \/ ChangesScale(s) /\ p.scale = TargetScale(s) /\ p.threshold = s.settings.threshold
    BY <2>1, RecommendTrigger
  <2>4. ChangesScale(s) => Writing(s) /\ TableSize(s) > 0
    BY DEF ChangesScale
  <2>5. \/ p.scale = s.settings.scale /\ p.threshold = s.settings.threshold
        \/ p.scale = RoundScale(MinScaleFactor)
        \/ p.scale = 0 /\ p.threshold = MinThreshold
        \/ OnTarget(s, p)
    <3> HIDE DEF s, p
    <3> QED
      BY <2>1, <2>2, <2>3, <2>4, AbsoluteOnTarget, ScaledOnTarget
  <2> QED
    BY <2>1, <2>5
<1> QED
  BY <1>1, TypeCorrect, PTL DEF Spec, TriggerOnTarget

\* LateTriggerNotRaised under what the code does not check: the scale factor found has
\* scale_decimals decimals and is no smaller than the minimum, and the trigger is no
\* smaller than min_threshold.
LateTriggerNotRaisedAboveMinima ==
    [][/\ Tune /\ HoursToTriggerOver(table, MaxHoursBetweenVacuum)
       /\ RoundScale(Settings.scale) = Settings.scale
       /\ RoundScale(MinScaleFactor) <= Settings.scale
       /\ MinThreshold <= TriggerAt(table)
       => TriggerAt(table') <= TriggerAt(table)]_vars

\* A trigger that fires too late is beyond the target.
LEMMA LateBeyondTarget ==
  ASSUME NEW s \in TableSnapshot, NEW trigger \in Nat \ {0}, TriggerAt(s) = trigger,
         HoursToTriggerOver(s, MaxHoursBetweenVacuum)
  PROVE  TargetDead(s) <= s.window * trigger
<1> DEFINE w == s.window
           d == s.dead
           h == s.gen * MaxHoursBetweenVacuum
<1>1. w \in Nat \ {0} /\ d \in Nat /\ s.gen \in Nat /\ MaxHoursBetweenVacuum \in Nat
  BY TunerAssumption DEF HoursToTriggerOver, Writing, TableSnapshot
<1>2. (trigger - d) * w > MaxHoursBetweenVacuum * s.gen
  BY DEF HoursToTriggerOver, Remaining
<1>3. h \in Nat /\ h = MaxHoursBetweenVacuum * s.gen
  BY <1>1
<1>4. TargetDead(s) = IF h < w THEN w ELSE h
  BY DEF TargetDead
<1> HIDE DEF w, d, h
<1>5. PICK x \in Nat, y \in Nat : x = w * trigger /\ y = w * d
  BY <1>1
<1>6. (trigger - d) * w = x - y
  BY <1>1, <1>5
<1>7. w <= x
  <2>1. w * 1 <= w * trigger
    BY <1>1, MulMonotone
  <2> QED
    BY <1>1, <1>5, <2>1
<1>8. TargetDead(s) <= x
  BY <1>1, <1>2, <1>3, <1>4, <1>5, <1>6, <1>7
<1> QED
  BY <1>5, <1>8 DEF w

\* The target scale factor of a table whose trigger is beyond the target is not above a
\* rounded scale factor that the table has.
LEMMA TargetScaleNotAbove ==
  ASSUME NEW s \in TableSnapshot, Writing(s), TableSize(s) > 0,
         RoundScale(s.settings.scale) = s.settings.scale,
         TargetDead(s) <= s.window * TriggerAt(s)
  PROVE  \/ TargetScale(s) = RoundScale(MinScaleFactor)
         \/ TargetScale(s) <= s.settings.scale
<1> DEFINE w == s.window
           th == s.settings.threshold
           v == s.settings.scale
           z == TableSize(s)
           T == TargetDead(s)
           U == ScaleUnit
           g == ScaleGrain
           trigger == TriggerAt(s)
<1>1. /\ w \in Nat \ {0} /\ th \in Nat /\ v \in Nat /\ z \in Nat \ {0} /\ T \in Nat
      /\ U \in Nat \ {0} /\ g \in Nat \ {0}
  BY TargetTypes, RaceAssumption, TunerAssumption
<1>2. trigger \in Nat /\ U * trigger <= U * th + z * v
  BY <1>1, ScaledTrigger DEF TriggerAt, TriggerDeadTuples
<1>3. PICK k \in Int : v = k * g
  <2>1. s.settings.scale \in Nat /\ ScaleGrain \in Nat \ {0}
    BY <1>1
  <2>2. RoundDiv(s.settings.scale, ScaleGrain) \in Nat
    BY <2>1, RoundDivType
  <2>3. s.settings.scale = RoundDiv(s.settings.scale, ScaleGrain) * ScaleGrain
    BY DEF RoundScale
  <2> QED
    BY <2>2, <2>3
<1>4. Excess(s) <= Size(s) * v
  <2>1. Excess(s) = (T - th * w) * U /\ Size(s) = z * w
    BY DEF Excess, Size
  <2> HIDE DEF w, th, v, z, T, U, g, trigger
  <2>2. T <= w * trigger
    BY DEF w, T, trigger
  <2>3. U * T <= U * (w * trigger)
    BY <1>1, <1>2, <2>2, MulMonotone, w * trigger \in Int
  <2>4. w * (U * trigger) <= w * (U * th + z * v)
    <3>1. U * trigger \in Int /\ U * th + z * v \in Int
      BY <1>1, <1>2
    <3> QED
      BY <1>1, <1>2, <3>1, MulMonotone
  <2>5. PICK a \in Int, b \in Int, c \in Int, t \in Int :
          a = U * (w * trigger) /\ b = w * (U * th) /\ c = (z * w) * v /\ t = U * T
    BY <1>1, <1>2
  <2>6. /\ w * (U * trigger) = a /\ w * (U * th + z * v) = b + c /\ (T - th * w) * U = t - b
    BY <1>1, <1>2, <2>5
  <2> QED
    BY <2>1, <2>3, <2>4, <2>5, <2>6
<1>5. TargetScale(s) = IF Excess(s) < MinScaleFactor * Size(s) THEN RoundScale(MinScaleFactor)
                       ELSE IF Excess(s) > MaxScaleFactor * Size(s)
                       THEN RoundScale(MaxScaleFactor)
                       ELSE RoundDiv(Excess(s), Size(s) * g) * g
  BY DEF TargetScale, Excess, Size
<1>6. Excess(s) \in Int /\ Size(s) \in Nat \ {0} /\ MaxScaleFactor \in Nat
  BY TargetTypes, TunerAssumption
<1> HIDE DEF v, g
<1>7. ASSUME Excess(s) > MaxScaleFactor * Size(s) PROVE RoundScale(MaxScaleFactor) <= v
  <2>1. MaxScaleFactor <= g * k
    <3>1. Size(s) * MaxScaleFactor <= Size(s) * v
      BY <1>1, <1>4, <1>6, <1>7
    <3>2. MaxScaleFactor <= v
      BY <1>1, <1>6, <3>1, MulMonotone
    <3> QED
      BY <1>1, <1>3, <3>2
  <2>2. RoundDiv(MaxScaleFactor, g) <= k
    BY <1>1, <1>3, <1>6, <2>1, RoundDivAtMost
  <2>3. RoundDiv(MaxScaleFactor, g) \in Int
    BY <1>1, <1>6, RoundDivType
  <2>4. g * RoundDiv(MaxScaleFactor, g) <= g * k
    BY <1>1, <1>3, <2>2, <2>3, MulMonotone
  <2> QED
    BY <1>1, <1>3, <2>3, <2>4 DEF RoundScale, g
<1>8. RoundDiv(Excess(s), Size(s) * g) * g <= v
  <2>1. PICK e \in Int, m \in Nat \ {0} : e = Excess(s) /\ m = Size(s) * g
    BY <1>1, <1>6
  <2>2. Size(s) * v = m * k
    BY <1>1, <1>3, <1>6, <2>1
  <2>3. RoundDiv(e, m) <= k /\ RoundDiv(e, m) \in Int
    BY <1>3, <1>4, <2>1, <2>2, RoundDivAtMost, RoundDivBounds
  <2>4. g * RoundDiv(e, m) <= g * k
    BY <1>1, <1>3, <2>3, MulMonotone
  <2> QED
    BY <1>1, <1>3, <2>1, <2>3, <2>4
<1> QED
  BY <1>5, <1>7, <1>8 DEF v

\* Only a minimum, or a scale factor found with more decimals, raises a late trigger: what
\* the run tune_late finds is all there is.
THEOREM LateTriggerNotRaisedAboveMinimaHolds == Spec => LateTriggerNotRaisedAboveMinima
<1> DEFINE Step ==
       /\ Tune /\ HoursToTriggerOver(table, MaxHoursBetweenVacuum)
       /\ RoundScale(Settings.scale) = Settings.scale
       /\ RoundScale(MinScaleFactor) <= Settings.scale
       /\ MinThreshold <= TriggerAt(table)
       => TriggerAt(table') <= TriggerAt(table)
<1>1. TypeOK /\ [Next]_vars => [Step]_vars
  <2> SUFFICES ASSUME TypeOK, Tune, HoursToTriggerOver(table, MaxHoursBetweenVacuum),
                      RoundScale(Settings.scale) = Settings.scale,
                      RoundScale(MinScaleFactor) <= Settings.scale,
                      MinThreshold <= TriggerAt(table)
               PROVE  TriggerAt(table') <= TriggerAt(table)
    OBVIOUS
  <2> DEFINE s == table
             p == Recommend(s)
             r == AtLeast0(s.rel)
             new == p.threshold + (p.scale * r) \div ScaleUnit
             old == s.settings.threshold + (s.settings.scale * r) \div ScaleUnit
  <2>1. s \in TableSnapshot /\ Settings = s.settings
    BY DEF TypeOK, Settings
  <2>2. TriggerAt(table') = new /\ TriggerAt(table) = old
    BY <2>1, TunedFacts DEF Tune, TriggerAt, TriggerDeadTuples
  <2>3. /\ s.settings.threshold \in Nat /\ s.settings.scale \in Nat
        /\ p.threshold \in Nat /\ p.scale \in Nat
    BY <2>1, RecommendType DEF TableSnapshot, VacuumSettings
  <2>4. r \in Nat /\ ScaleUnit \in Nat \ {0}
    BY <2>1, RaceAssumption DEF AtLeast0, TableSnapshot
  <2>5. /\ (s.settings.scale * r) \div ScaleUnit \in Nat
        /\ (p.scale * r) \div ScaleUnit \in Nat
    <3>1. s.settings.scale * r \in Nat /\ p.scale * r \in Nat
      BY <2>3, <2>4
    <3> QED
      BY <2>4, <3>1, DivNat
  <2>6. \/ p.scale = s.settings.scale /\ p.threshold = s.settings.threshold
        \/ ChangesScale(s) /\ p.scale = 0 /\ p.threshold = AbsoluteThreshold(s)
        \/ ChangesScale(s) /\ p.scale = TargetScale(s) /\ p.threshold = s.settings.threshold
    BY <2>1, RecommendTrigger
  <2>7. old \in Nat \ {0} /\ TargetDead(s) <= s.window * old
    <3>1. old \in Nat
      BY <2>3, <2>5
    <3>2. old \in Nat \ {0}
      BY <2>2, <3>1, TunerAssumption
    <3>3. TriggerAt(s) = old /\ HoursToTriggerOver(s, MaxHoursBetweenVacuum)
      BY <2>2
    <3> HIDE DEF old, s
    <3>4. TargetDead(s) <= s.window * old
      BY <2>1, <3>2, <3>3, LateBeyondTarget
    <3> QED
      BY <3>2, <3>4
  <2>8. CASE p.scale = s.settings.scale /\ p.threshold = s.settings.threshold
    BY <2>2, <2>3, <2>5, <2>8
  <2>9. CASE ChangesScale(s) /\ p.scale = 0 /\ p.threshold = AbsoluteThreshold(s)
    <3>1. Writing(s) /\ TableSize(s) > 0
      BY <2>9 DEF ChangesScale
    <3>2. s.window \in Nat \ {0} /\ TargetDead(s) \in Int
      BY <2>1, <3>1, TargetTypes
    <3>3. RoundDiv(TargetDead(s), s.window) \in Int
      BY <3>2, RoundDivBounds
    <3>4. RoundDiv(TargetDead(s), s.window) <= old
      <4> HIDE DEF old
      <4> QED
        BY <2>7, <3>2, RoundDivAtMost
    <3>5. p.threshold = MinThreshold \/ p.threshold <= RoundDiv(TargetDead(s), s.window)
      BY <2>1, <2>9, <3>1, AbsoluteThresholdFacts
    <3>6. p.threshold <= old
      <4> HIDE DEF old
      <4> QED
        BY <2>2, <2>3, <2>7, <3>3, <3>4, <3>5
    <3>7. 0 * r = 0 /\ 0 \div ScaleUnit = 0
      BY <2>4, Z3
    <3>8. new = p.threshold
      BY <2>3, <2>9, <3>7
    <3> QED
      BY <2>2, <3>6, <3>8
  <2>10. CASE ChangesScale(s) /\ p.scale = TargetScale(s) /\ p.threshold = s.settings.threshold
    <3>1. Writing(s) /\ TableSize(s) > 0
      BY <2>10 DEF ChangesScale
    <3>2. TargetScale(s) = RoundScale(MinScaleFactor) \/ TargetScale(s) <= s.settings.scale
      <4>1. TriggerAt(s) = old
        BY <2>2
      <4> HIDE DEF old, s
      <4> QED
        BY <2>1, <2>7, <3>1, <4>1, TargetScaleNotAbove
    <3>3. p.scale <= s.settings.scale
      BY <2>1, <2>10, <3>2
    <3>4. (p.scale * r) \div ScaleUnit <= (s.settings.scale * r) \div ScaleUnit
      BY <2>1, <2>3, <3>3, TriggerOrder
    <3> QED
      BY <2>2, <2>3, <2>5, <2>10, <3>4
  <2> QED
    BY <2>6, <2>8, <2>9, <2>10
<1> QED
  BY <1>1, TypeCorrect, PTL DEF Spec, LateTriggerNotRaisedAboveMinima

-----------------------------------------------------------------------------
(* "no change: vacuum can keep up with this table"                         *)

\* internal/adapter/inbound/cli/render.go:86, but for a table whose cost_limit is at
\* max_cost_limit: there "no change" only says that there is no room for one.
NoChangeMeansDone == SaysNoChange(table) => LimitAtRest(table)

\* A table that cannot keep up is given a higher limit whenever there is room for one, also
\* when the model has no capacity to scale from.
LEMMA RoomMeansRaise ==
  ASSUME NEW s \in TableSnapshot, ~LimitAtRest(s)
  PROVE  RaisesCostLimit(s)
<1> DEFINE limit == s.settings.limit
           raw == RawCostLimit(s)
           floor == IF raw < MinCostLimit THEN MinCostLimit ELSE raw
           up == RoundUpTo(floor, MinCostLimit)
           step == RoundUpTo(limit + MinCostLimit, MinCostLimit)
<1>1. /\ ~KeepingUp(s) /\ limit \in Nat /\ limit < MaxCostLimit
      /\ MinCostLimit \in Nat \ {0} /\ MaxCostLimit \in Nat
  BY TunerAssumption DEF LimitAtRest, TableSnapshot, VacuumSettings
<1>2. raw \in Int
  <2>1. CASE Writing(s) /\ HasCapacity(s.settings)
    BY <2>1, RawCostLimitLeast
  <2>2. CASE ~(Writing(s) /\ HasCapacity(s.settings))
    BY <1>1, <2>2, TunerAssumption DEF RawCostLimit
  <2> QED
    BY <2>1, <2>2
<1>3. up \in Int
  <2>1. floor \in Int
    BY <1>1, <1>2
  <2> HIDE DEF floor
  <2> QED
    BY <1>1, <2>1, RoundUpToFacts
<1>4. step \in Int /\ limit + MinCostLimit <= step
  <2>1. limit + MinCostLimit \in Int
    BY <1>1
  <2> HIDE DEF limit
  <2> QED
    BY <1>1, <2>1, RoundUpToFacts
<1>5. NeededCostLimit(s) = IF AtMost(up, MaxCostLimit) <= limit
                           THEN AtMost(step, MaxCostLimit) ELSE AtMost(up, MaxCostLimit)
  BY DEF NeededCostLimit
<1> HIDE DEF limit, up, step
<1>6. NeededCostLimit(s) > limit
  BY <1>1, <1>3, <1>4, <1>5 DEF AtMost
<1> QED
  BY <1>1, <1>6 DEF RaisesCostLimit, limit

\* A table without a change keeps up or is at max_cost_limit: the second, which the run
\* tune_no_change finds, is all there is.
THEOREM NoChangeMeansDoneHolds == Spec => []NoChangeMeansDone
<1>1. TypeOK => NoChangeMeansDone
  <2> SUFFICES ASSUME TypeOK, SaysNoChange(table), ~LimitAtRest(table) PROVE FALSE
    BY DEF NoChangeMeansDone
  <2>1. table \in TableSnapshot /\ RaisesCostLimit(table)
    BY RoomMeansRaise DEF TypeOK
  <2>2. Risk(table) # RiskOK
    BY LosingIsCritical DEF LimitAtRest, RiskCritical, RiskOK
  <2>3. Recommend(table).limit = NeededCostLimit(table)
    BY <2>1, <2>2, RecommendLimit
  <2>4. Recommend(table).limit = table.settings.limit
    BY DEF SaysNoChange
  <2> QED
    BY <2>1, <2>3, <2>4, NeededCostLimitBounded DEF RaisesCostLimit, TableSnapshot, VacuumSettings
<1> QED
  BY <1>1, TypeCorrect, PTL
====
