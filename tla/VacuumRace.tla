---------------------------- MODULE VacuumRace ----------------------------
(***************************************************************************)
(* domain.Assess: the race between the dead tuples a table produces and    *)
(* what autovacuum reclaims under cost throttling, and the risk read off   *)
(* it.  The code computes in float64; here every quantity is a ratio of    *)
(* integers and every comparison of two ratios is made by cross            *)
(* multiplication, so that the boundaries are exact.                       *)
(***************************************************************************)
EXTENDS Integers

CONSTANTS
    HighDeadPct, CriticalDeadPct,           \* high_dead_ratio, critical_dead_ratio, in %
    HighHours,                              \* high_hours_to_trigger
    WraparoundWarningPct, WraparoundCriticalPct,
    MinTriggerForScaleWarning,
    CapacityScale,   \* tuples/hour one unit of cost_limit reclaims at a cost_delay of 1
    ScaleUnit        \* a scale factor of 1.0

\* config.Validate
ASSUME RaceAssumption ==
    /\ HighDeadPct \in 1 .. 99 /\ CriticalDeadPct \in HighDeadPct + 1 .. 99
    /\ HighHours \in Nat \ {0}
    /\ WraparoundWarningPct \in 1 .. 99 /\ WraparoundCriticalPct \in WraparoundWarningPct + 1 .. 100
    /\ MinTriggerForScaleWarning \in Nat \ {0}
    /\ CapacityScale \in Nat \ {0}
    /\ ScaleUnit \in Nat \ {0}

\* VacuumSettings. A cost_limit of 0, which a server may have as its default, stands for
\* vacuum_cost_limit to PostgreSQL; a cost_delay of 0 is its "no throttling".
VacuumSettings == [scale : Nat, threshold : Nat, limit : Nat, delay : Nat]

\* TableSnapshot: `gen` dead tuples were generated in a statistics window of `window`
\* hours; rel is -1 before the first ANALYZE; `age` is the freeze age in % of its maximum.
TableSnapshot ==
    [live : Nat, dead : Nat, rel : Int, gen : Nat, window : Nat, age : Nat,
     settings : VacuumSettings]

AtLeast0(n) == IF n < 0 THEN 0 ELSE n

TriggerDeadTuples(settings, rel) ==
    settings.threshold + (settings.scale * AtLeast0(rel)) \div ScaleUnit

TriggerAt(s) == TriggerDeadTuples(s.settings, s.rel)

DeadRatioAtLeast(s, pct) ==
    s.live + s.dead > 0 /\ 100 * s.dead >= pct * (s.live + s.dead)

\* DeadRatePerHour is s.gen / s.window, or zero.
Writing(s) == s.window > 0 /\ s.gen > 0

\* VacuumCapacityPerHour is limit * CapacityScale / delay, or zero: also when cost_delay
\* is 0 and PostgreSQL would not throttle at all.
HasCapacity(settings) == settings.limit > 0 /\ settings.delay > 0

KeepingUp(s) ==
    \/ ~Writing(s)
    \/ /\ HasCapacity(s.settings)
       /\ s.gen * s.settings.delay <= s.settings.limit * CapacityScale * s.window

Remaining(s) == TriggerAt(s) - s.dead

\* HoursToTrigger = 0
Due(s) == Remaining(s) <= 0

\* HoursToTrigger > hours; without writes it is -1
HoursToTriggerOver(s, hours) ==
    ~Due(s) /\ Writing(s) /\ Remaining(s) * s.window > hours * s.gen

-----------------------------------------------------------------------------
(* classify *)

RiskOK == 0  RiskWarning == 1  RiskHigh == 2  RiskCritical == 3

CriticalReasons == {"wraparound critical", "cannot keep up", "dead critical"}
HighReasons == {"dead high", "trigger exceeded", "scale factor too large"}
WarningReasons == {"freeze age high"}

\* classify gives the reason. The cases of each of its three switches exclude each other.
Given(s, reason) ==
    CASE reason = "wraparound critical" -> s.age >= WraparoundCriticalPct
      [] reason = "freeze age high" -> s.age \in WraparoundWarningPct .. WraparoundCriticalPct - 1
      [] reason = "cannot keep up" -> ~KeepingUp(s)
      [] reason = "dead critical" -> DeadRatioAtLeast(s, CriticalDeadPct)
      [] reason = "dead high" -> DeadRatioAtLeast(s, HighDeadPct) /\ ~DeadRatioAtLeast(s, CriticalDeadPct)
      [] reason = "trigger exceeded" -> Due(s) /\ DeadRatioAtLeast(s, HighDeadPct)
      [] reason = "scale factor too large" ->
             HoursToTriggerOver(s, HighHours) /\ TriggerAt(s) >= MinTriggerForScaleWarning

\* The highest level of a reason given.
Risk(s) ==
    IF \E r \in CriticalReasons : Given(s, r) THEN RiskCritical
    ELSE IF \E r \in HighReasons : Given(s, r) THEN RiskHigh
    ELSE IF \E r \in WarningReasons : Given(s, r) THEN RiskWarning
    ELSE RiskOK
=============================================================================
