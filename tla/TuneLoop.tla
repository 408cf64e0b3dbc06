------------------------------ MODULE TuneLoop ------------------------------
(***************************************************************************)
(* One table under repeated `pgav tune --apply`: the statistics move with  *)
(* the workload, autovacuum and ANALYZE between two runs, and each run     *)
(* applies what Recommend makes of the statistics it finds.                *)
(***************************************************************************)
EXTENDS Tuner

CONSTANTS
    Sizes,        \* live tuples a table may have
    Ages,         \* freeze ages, in % of autovacuum_freeze_max_age
    Scales, Thresholds, Limits, Delays,   \* settings found on the first run
    Rates,        \* dead tuples an hour of the workload may generate
    Carried,      \* dead tuples the counters may show from before a restart of the server
    MaxWindow,    \* the longest statistics window explored, in hours (a bound)
    MaxPileUp     \* the hours of writes between two vacuums explored (a bound)

ASSUME LoopAssumption ==
    /\ Sizes \subseteq Nat /\ Ages \subseteq Nat
    /\ Scales \subseteq Nat /\ Thresholds \subseteq Nat /\ Limits \subseteq Nat /\ Delays \subseteq Nat
    /\ Rates \subseteq Nat /\ Carried \subseteq Nat
    /\ MaxWindow \in Nat /\ MaxPileUp \in Nat

VARIABLES
    table,      \* the TableSnapshot a run would read now
    rows,       \* the live tuples the table has, whatever the statistics say
    workload    \* dead tuples generated per hour at present

vars == <<table, rows, workload>>

TypeOK == table \in TableSnapshot /\ rows \in Sizes /\ workload \in Rates

\* A table before or after its first ANALYZE, with any of the settings, as the server
\* starts. Its counters outlive the restart, but the statistics window begins anew, with
\* the server, when they were never reset.
Init ==
    /\ rows \in Sizes
    /\ table \in [live : {rows}, dead : {0}, rel : {-1, rows}, gen : Carried, window : {0},
                  age : Ages,
                  settings : [scale : Scales, threshold : Thresholds, limit : Limits,
                              delay : Delays]]
    /\ workload \in Rates

\* The snapshot after a run that applies what it recommends.
Tuned(s) == [s EXCEPT !.settings = Recommend(s)]

\* `pgav tune --apply`
Tune ==
    /\ table' = Tuned(table)
    /\ UNCHANGED <<rows, workload>>

\* PostgreSQL and the application (external): an hour of writes, a vacuum, an ANALYZE,
\* a reset of the statistics (pg_stat_reset, or the crash of a server), a change of
\* workload.
Hour ==
    /\ table.window < MaxWindow
    /\ table' = [table EXCEPT !.dead = @ + workload, !.gen = @ + workload, !.window = @ + 1]
    /\ UNCHANGED <<rows, workload>>

\* An hour that leaves the average rate of a longer window as it is: only dead tuples
\* pile up.
SteadyHour ==
    /\ table.window = MaxWindow /\ table.gen = workload * MaxWindow
    /\ table.dead < MaxPileUp * workload
    /\ table' = [table EXCEPT !.dead = @ + workload]
    /\ UNCHANGED <<rows, workload>>

Autovacuum ==
    /\ table.dead > TriggerAt(table)
    /\ table' = [table EXCEPT !.dead = 0, !.live = rows, !.rel = rows]
    /\ UNCHANGED <<rows, workload>>

Analyze ==
    /\ table.rel # rows \/ table.live # rows
    /\ table' = [table EXCEPT !.live = rows, !.rel = rows]
    /\ UNCHANGED <<rows, workload>>

\* A new statistics window begins; reltuples is no statistic and stays.
ResetStatistics ==
    /\ table' = [table EXCEPT !.live = 0, !.dead = 0, !.gen = 0, !.window = 0]
    /\ UNCHANGED <<rows, workload>>

ShiftWorkload ==
    /\ workload' \in Rates
    /\ UNCHANGED <<table, rows>>

Next ==
    Tune \/ Hour \/ SteadyHour \/ Autovacuum \/ Analyze \/ ResetStatistics \/ ShiftWorkload

Spec == Init /\ [][Next]_vars

-----------------------------------------------------------------------------
Settings == table.settings

\* A run never takes I/O budget away from a table, and never gives it more than
\* max_cost_limit.
CostLimitOnlyRaised ==
    [][/\ Settings'.limit >= Settings.limit
       /\ Settings'.limit > Settings.limit => Settings'.limit <= MaxCostLimit]_vars

\* docs/race-model.md: cost_limit is raised to the smallest round step that covers the
\* write rate with headroom; only max_cost_limit may stop it short.
Covers(s, limit) ==
    s.gen * HeadroomPct * s.settings.delay <= 100 * s.window * CapacityScale * limit

SmallestCoveringStep ==
    [][Settings'.limit # Settings.limit /\ HasCapacity(Settings) =>
         \/ Settings'.limit = MaxCostLimit /\ ~Covers(table, MaxCostLimit - MinCostLimit)
         \/ /\ Settings'.limit % MinCostLimit = 0
            /\ Covers(table, Settings'.limit)
            /\ Settings'.limit > MinCostLimit => ~Covers(table, Settings'.limit - MinCostLimit)]_vars

\* One run is enough: a throttled table that cannot keep up does so after it, or is at
\* max_cost_limit.
OneRunCatchesUp ==
    [][Tune /\ HasCapacity(Settings) => KeepingUp(table') \/ Settings'.limit >= MaxCostLimit]_vars

\* Runs that follow each other with nothing else happening come to rest: the second may
\* still add a scale factor to the absolute threshold the first one set, the third
\* finds nothing to change, unless the capacity model had nothing to scale from.
ThirdRunIsIdle == HasCapacity(Settings) => SaysNoChange(Tuned(Tuned(table)))

\* Once the workload stays the same the settings come to rest, however vacuums, ANALYZEs,
\* resets and runs follow each other: no run takes back what an earlier one has done about
\* the same writes. A workload that changes for ever may well move them for ever.
SettingsSettle == <>[][UNCHANGED workload]_vars => <>[][UNCHANGED Settings]_vars

\* internal/config/config.go: TunerConfig holds recommendation bounds. So a scale factor
\* that is proposed beside the threshold a table has lies between them.
ScaleWithinBounds ==
    [][Tune /\ Settings'.scale # Settings.scale /\ Settings'.threshold = Settings.threshold =>
           Settings'.scale \in MinScaleFactor .. MaxScaleFactor]_vars

\* internal/domain/recommend.go: Recommend computes settings so that the trigger fires
\* within MaxHoursBetweenVacuum. So a trigger that fires too late is not moved further off.
LateTriggerNotRaised ==
    [][Tune /\ HoursToTriggerOver(table, MaxHoursBetweenVacuum) =>
           TriggerAt(table') <= TriggerAt(table)]_vars

\* internal/adapter/inbound/cli/render.go: `pgav analyze` prints "no change: vacuum can
\* keep up with this table" when nothing changes.
NoChangeMeansKeepingUp == SaysNoChange(table) => KeepingUp(table)
=============================================================================
