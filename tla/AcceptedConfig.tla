--------------------------- MODULE AcceptedConfig ---------------------------
(***************************************************************************)
(* Service.assessParams, tunerParams and doctorParams: the assessment, the *)
(* tuner and the score under the configuration of the run, and whether     *)
(* what their modules assume of it is what Validate guarantees.            *)
(***************************************************************************)
EXTENDS Command

Power10(n) == CASE n = 0 -> 1 [] n = 1 -> 10 [] n = 2 -> 100 [] n = 3 -> 1000
                [] n = 4 -> 10000 [] n = 5 -> 100000 [] n = 6 -> 1000000

\* formatScale prints six decimals.
PrintedDecimals == 6

\* 100 tuples an hour that one unit of cost_limit reclaims at a cost_delay of 1 ms.
CapacityOfUnit(c) ==
    (36000 * c.assumed_tuples_per_page) \div ((1 + c.io_multiplier) * c.assumed_cost_per_page)

Advisor(c) == INSTANCE Doctor WITH
    HighDeadPct <- c.high_dead_ratio, CriticalDeadPct <- c.critical_dead_ratio,
    HighHours <- c.high_hours_to_trigger,
    WraparoundWarningPct <- c.wraparound_warning_ratio,
    WraparoundCriticalPct <- c.wraparound_critical_ratio,
    MinTriggerForScaleWarning <- c.min_trigger_for_scale_warning,
    CapacityScale <- CapacityOfUnit(c), ScaleUnit <- Power10(PrintedDecimals),
    MaxHoursBetweenVacuum <- c.max_hours_between_vacuum,
    MinScaleFactor <- c.min_scale_factor, MaxScaleFactor <- c.max_scale_factor,
    ScaleGrain <- Power10(PrintedDecimals - c.scale_decimals),
    MinThreshold <- c.min_threshold, MaxThreshold <- c.max_threshold,
    CostLimitBump <- c.cost_limit_bump,
    MinCostLimit <- c.min_cost_limit, MaxCostLimit <- c.max_cost_limit,
    HeadroomPct <- c.cost_limit_headroom,
    MinScore <- c.min_score, MaxScore <- c.max_score,
    CriticalPenalty <- c.critical_penalty, HighPenalty <- c.high_penalty,
    WarningPenalty <- c.warning_penalty, LongXactPenalty <- c.long_xact_penalty,
    WraparoundPenalty <- c.wraparound_penalty,
    Tables <- {}, Snapshots <- {}, MaxXacts <- 0,
    tables <- <<>>, xacts <- 0, enabled <- TRUE

\* The configuration is made of numbers, its scale factors can be printed, and what one
\* unit of cost_limit reclaims is not lost in the units of Config (a bound of the model).
Ordinary(c) ==
    /\ \A k \in Keys : c[k] # NaN
    /\ c.scale_decimals <= PrintedDecimals
    /\ (1 + c.io_multiplier) * c.assumed_cost_per_page <= 36000 * c.assumed_tuples_per_page

\* The configurations prepare may come to.
Configs == {Over(FlagLayer(i.flags), Load(i.file, i.env)) : i \in Inputs}

LabConfigs == {LabLoad(i.env) : i \in Inputs}

Seed(c) == INSTANCE LabSeed WITH
    Seeders <- {}, NTables <- 4, Sessions <- 2, Events <- 3,
    Rows <- <<c.orders_rows, c.sessions_rows, c.events_rows, c.customers_rows>>,
    ChunkSize <- c.chunk_size, Found <- {0},
    pc <- <<>>, alive <- <<>>, table <- <<>>, start <- <<>>, last <- <<>>, at <- <<>>,
    inserted <- <<>>, rows <- <<>>, reltuples <- <<>>, options <- {}

\* What VacuumRace, Tuner and Doctor assume of the configuration holds of every one that
\* prepare accepts, so that what is proved about them holds of every run that connects; and
\* so does what LabSeed assumes of every one that pgav-docker accepts. Two exceptions are
\* what Validate lets through: NaN, which no comparison of its rejects, and more decimals
\* than formatScale prints.
AcceptedMeansAssumed ==
    /\ conn # "new" /\ Ordinary(cfg) =>
           \E c \in Configs :
               /\ c = cfg
               /\ Advisor(c)!RaceAssumption
               /\ Advisor(c)!TunerAssumption
               /\ Advisor(c)!DoctorAssumption
    /\ pc = "lab" =>
           \E c \in LabConfigs : c = cfg /\ Seed(c)!SeedAssumption
=============================================================================
