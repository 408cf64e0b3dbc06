------------------------ MODULE AcceptedConfigProofs ------------------------
(***************************************************************************)
(* Proof that a configuration which prepare accepts gives the assessment,  *)
(* the tuner and the score the constants their modules assume, and one     *)
(* that pgav-docker accepts gives the seeding its own, whatever layers it  *)
(* was put together from.                                                  *)
(***************************************************************************)
EXTENDS AcceptedConfig, CommandProofs, Sequences

\* A configuration has a whole number for every number, or NaN.
Typed(c) == \A k \in NumberKeys : c[k] \in Int \cup {NaN}

\* And those of pgav-docker that LabSeed depends on are whole, as are their like.
LabNumbers == {"connect_timeout", "retry_interval", "ready_wait", "chunk_size", "orders_rows",
               "sessions_rows", "events_rows", "customers_rows"}

LabTyped(c) == \A k \in LabNumbers : c[k] \in Int

-----------------------------------------------------------------------------
(* What the layers add up to is typed.                                     *)

OtherNumberKeys ==
    {"min_trigger_for_scale_warning", "min_threshold", "max_threshold", "cost_limit_bump",
     "min_cost_limit", "max_cost_limit", "scale_decimals", "max_score", "min_score"}

LEMMA NumberKeysListed ==
    NumberKeys \subseteq DurationKeys \cup FloatKeys \cup OtherNumberKeys \cup PenaltyKeys
BY SMT DEF NumberKeys, Keys, TextKeys, Defaults, DurationKeys, FloatKeys, OtherNumberKeys, PenaltyKeys

LEMMA DefaultsTyped == Typed(Defaults)
<1> DEFINE d == Defaults
<1>1. /\ d.connect_timeout \in Int /\ d.query_timeout \in Int /\ d.long_xact_after \in Int
      /\ d.critical_penalty \in Int /\ d.high_penalty \in Int /\ d.warning_penalty \in Int
      /\ d.long_xact_penalty \in Int /\ d.wraparound_penalty \in Int
  BY SMT DEF Defaults
<1>2. /\ d.high_dead_ratio \in Int /\ d.critical_dead_ratio \in Int
      /\ d.high_hours_to_trigger \in Int /\ d.wraparound_warning_ratio \in Int
      /\ d.wraparound_critical_ratio \in Int /\ d.assumed_cost_per_page \in Int
      /\ d.assumed_tuples_per_page \in Int /\ d.io_multiplier \in Int
      /\ d.max_hours_between_vacuum \in Int /\ d.min_scale_factor \in Int
      /\ d.max_scale_factor \in Int /\ d.cost_limit_headroom \in Int
  BY SMT DEF Defaults
<1>3. /\ d.min_trigger_for_scale_warning \in Int /\ d.min_threshold \in Int
      /\ d.max_threshold \in Int /\ d.cost_limit_bump \in Int /\ d.min_cost_limit \in Int
      /\ d.max_cost_limit \in Int /\ d.scale_decimals \in Int /\ d.max_score \in Int
      /\ d.min_score \in Int
  BY SMT DEF Defaults
<1> HIDE DEF d
<1>4. /\ \A k \in DurationKeys \cup PenaltyKeys : d[k] \in Int
      /\ \A k \in FloatKeys : d[k] \in Int
      /\ \A k \in OtherNumberKeys : d[k] \in Int
  BY <1>1, <1>2, <1>3 DEF DurationKeys, PenaltyKeys, FloatKeys, OtherNumberKeys
<1>5. Typed(d)
  BY <1>4, NumberKeysListed DEF Typed
<1>6. QED
  BY <1>5 DEF d

LEMMA LoadTyped ==
    ASSUME NEW i \in Inputs, Loads(i.file, i.env)
    PROVE  Typed(Over(FlagLayer(i.flags), Load(i.file, i.env)))
<1> SUFFICES ASSUME NEW k \in NumberKeys
             PROVE  Over(FlagLayer(i.flags), Load(i.file, i.env))[k] \in Int \cup {NaN}
  BY DEF Typed
<1>1. k \in Keys /\ k \notin TextKeys /\ k \notin FlagKeys
  BY DEF NumberKeys, FlagKeys, TextKeys
<1>2. k \notin DOMAIN FlagLayer(i.flags)
  BY <1>1, CommandAssumption DEF FlagLayer, Without
<1>3. Over(FlagLayer(i.flags), Load(i.file, i.env))[k] = Load(i.file, i.env)[k]
  BY <1>1, <1>2, LoadPicks, OverPicks
<1>4. CASE k \in DOMAIN i.env
  <2>1. k \in EnvKeys \cup LabEnvKeys
    BY <1>4, CommandAssumption
  <2>2. i.env[k] \in Int \cup {NaN, Garbled}
    BY <1>4, CommandAssumption DEF NumberTyped
  <2>3. k \in EnvKeys
    BY <1>1, <2>1 DEF EnvKeys, LabEnvKeys, Keys, Defaults, TextKeys
  <2>4. i.env[k] # Garbled
    BY <1>4, <2>3 DEF Loads
  <2>5. QED
    BY <1>1, <1>3, <1>4, <2>2, <2>4, LoadPicks
<1>5. CASE k \notin DOMAIN i.env /\ k \in DOMAIN i.file \ ZeroKeys(i.file)
  <2>1. i.file[k] \in Int \cup {NaN, Garbled} /\ i.file[k] # Garbled
    BY <1>5, CommandAssumption DEF NumberTyped, Loads
  <2>2. QED
    BY <1>1, <1>3, <1>5, <2>1, LoadPicks
<1>6. CASE k \notin DOMAIN i.env /\ k \notin DOMAIN i.file \ ZeroKeys(i.file)
  BY <1>1, <1>3, <1>6, LoadPicks, DefaultsTyped DEF Typed
<1>7. QED
  BY <1>4, <1>5, <1>6

LEMMA LabDefaultsTyped == LabTyped(LabDefaults)
<1>1. /\ LabDefaults.connect_timeout \in Int /\ LabDefaults.retry_interval \in Int
      /\ LabDefaults.ready_wait \in Int /\ LabDefaults.chunk_size \in Int
      /\ LabDefaults.orders_rows \in Int /\ LabDefaults.sessions_rows \in Int
      /\ LabDefaults.events_rows \in Int /\ LabDefaults.customers_rows \in Int
  BY SMT DEF LabDefaults
<1>2. QED
  BY <1>1 DEF LabTyped, LabNumbers

LEMMA LabLoadTyped ==
    ASSUME NEW i \in Inputs, LabLoads(i.env)
    PROVE  LabTyped(LabLoad(i.env))
<1> SUFFICES ASSUME NEW k \in LabNumbers
             PROVE  LabLoad(i.env)[k] \in Int
  BY DEF LabTyped
<1>1. k \in DOMAIN LabDefaults
  BY SMT DEF LabNumbers, LabDefaults
<1>2. CASE k \in DOMAIN i.env
  <2>1. k \in LabNumberKeys
    BY <1>2, CommandAssumption DEF LabNumbers, LabNumberKeys, LabEnvKeys, EnvKeys
  <2>2. i.env[k] \in Int \cup {Garbled} /\ i.env[k] # Garbled
    BY <1>2, <2>1, CommandAssumption DEF LabLoads, LabNumberKeys
  <2>3. QED
    BY <1>1, <1>2, <2>2, OverPicks DEF LabLoad
<1>3. CASE k \notin DOMAIN i.env
  BY <1>1, <1>3, OverPicks, LabDefaultsTyped DEF LabLoad, LabTyped
<1>4. QED
  BY <1>2, <1>3
-----------------------------------------------------------------------------
(* What Validate accepts satisfies the assumptions.                        *)

\* Among whole numbers Go's comparisons are the usual ones.
LEMMA WholeComparisons ==
    ASSUME NEW a \in Int, NEW b \in Int
    PROVE  /\ a \prec b <=> a < b
           /\ a \preceq b <=> a <= b
           /\ Positive(a) <=> a > 0
BY CommandAssumption DEF \prec, \preceq, Positive

LEMMA OrdinaryIsWhole ==
    ASSUME NEW c, Typed(c), Ordinary(c)
    PROVE  /\ \A k \in DurationKeys \cup FloatKeys \cup OtherNumberKeys \cup PenaltyKeys : c[k] \in Int
           /\ c.scale_decimals <= PrintedDecimals
<1>1. DurationKeys \cup FloatKeys \cup OtherNumberKeys \cup PenaltyKeys \subseteq NumberKeys
  BY SMT DEF NumberKeys, Keys, TextKeys, Defaults, DurationKeys, FloatKeys, OtherNumberKeys, PenaltyKeys
<1>2. NumberKeys \subseteq Keys
  BY DEF NumberKeys
<1>3. QED
  BY <1>1, <1>2 DEF Typed, Ordinary

LEMMA Power10Positive == \A n \in 0 .. 6 : Power10(n) \in Nat \ {0}
BY DEF Power10

LEMMA CapacityPositive ==
    ASSUME NEW tpp \in Nat \ {0}, NEW io \in Nat, NEW cost \in Nat \ {0},
           (1 + io) * cost <= 36000 * tpp
    PROVE  (36000 * tpp) \div ((1 + io) * cost) \in Nat \ {0}
<1>1. PICK d : d = (1 + io) * cost
  OBVIOUS
<1>2. d \in Nat \ {0}
  BY <1>1
<1>3. PICK n : n = 36000 * tpp
  OBVIOUS
<1>4. n \in Nat /\ d <= n
  BY <1>1, <1>3
<1>5. n \div d \in Nat \ {0}
  BY <1>2, <1>4
<1>6. QED
  BY <1>1, <1>3, <1>5

LEMMA RaceAssumed ==
    ASSUME NEW c, Typed(c), Ordinary(c), ValidAssess(c)
    PROVE  Advisor(c)!RaceAssumption
<1>1. /\ c.high_dead_ratio \in Int /\ c.critical_dead_ratio \in Int
      /\ c.high_hours_to_trigger \in Int /\ c.wraparound_warning_ratio \in Int
      /\ c.wraparound_critical_ratio \in Int /\ c.assumed_cost_per_page \in Int
      /\ c.assumed_tuples_per_page \in Int /\ c.io_multiplier \in Int
      /\ c.min_trigger_for_scale_warning \in Int
  BY OrdinaryIsWhole DEF FloatKeys, OtherNumberKeys
<1>2. /\ c.high_dead_ratio \in 1 .. 99 /\ c.critical_dead_ratio \in c.high_dead_ratio + 1 .. 99
      /\ c.high_hours_to_trigger > 0
      /\ c.wraparound_warning_ratio \in 1 .. 99
      /\ c.wraparound_critical_ratio \in c.wraparound_warning_ratio + 1 .. 100
      /\ c.assumed_cost_per_page > 0 /\ c.assumed_tuples_per_page > 0
      /\ c.io_multiplier >= 0 /\ c.min_trigger_for_scale_warning > 0
  <2>1. 0 < c.high_dead_ratio /\ c.high_dead_ratio < 100
    BY <1>1, WholeComparisons DEF ValidAssess
  <2>2. c.high_dead_ratio < c.critical_dead_ratio /\ c.critical_dead_ratio < 100
    BY <1>1, WholeComparisons DEF ValidAssess
  <2>3. 0 < c.wraparound_warning_ratio /\ c.wraparound_warning_ratio < 100
    BY <1>1, WholeComparisons DEF ValidAssess
  <2>4. /\ c.wraparound_warning_ratio < c.wraparound_critical_ratio
        /\ c.wraparound_critical_ratio <= 100
    BY <1>1, WholeComparisons DEF ValidAssess
  <2>5. /\ c.high_hours_to_trigger > 0
        /\ c.assumed_cost_per_page > 0 /\ c.assumed_tuples_per_page > 0
        /\ c.io_multiplier >= 0 /\ c.min_trigger_for_scale_warning > 0
    BY <1>1, WholeComparisons DEF ValidAssess
  <2>6. QED
    BY <1>1, <2>1, <2>2, <2>3, <2>4, <2>5
<1>3. CapacityOfUnit(c) \in Nat \ {0}
  <2>1. PICK tpp, io, cost :
            /\ tpp = c.assumed_tuples_per_page /\ io = c.io_multiplier
            /\ cost = c.assumed_cost_per_page
    OBVIOUS
  <2>2. tpp \in Nat \ {0} /\ io \in Nat /\ cost \in Nat \ {0}
    BY <1>1, <1>2, <2>1
  <2>3. (1 + io) * cost <= 36000 * tpp
    BY <2>1 DEF Ordinary
  <2>4. (36000 * tpp) \div ((1 + io) * cost) \in Nat \ {0}
    BY <2>2, <2>3, CapacityPositive
  <2>5. QED
    BY <2>1, <2>4 DEF CapacityOfUnit
<1>4. Power10(PrintedDecimals) \in Nat \ {0}
  BY Power10Positive DEF PrintedDecimals
<1>5. QED
  BY <1>1, <1>2, <1>3, <1>4 DEF Advisor!RaceAssumption

LEMMA TunerAssumed ==
    ASSUME NEW c, Typed(c), Ordinary(c), ValidTuner(c)
    PROVE  Advisor(c)!TunerAssumption
<1>1. /\ c.max_hours_between_vacuum \in Int
      /\ c.min_scale_factor \in Int /\ c.max_scale_factor \in Int
      /\ c.min_threshold \in Int /\ c.max_threshold \in Int /\ c.cost_limit_bump \in Int
      /\ c.min_cost_limit \in Int /\ c.max_cost_limit \in Int
      /\ c.cost_limit_headroom \in Int /\ c.scale_decimals \in Int
  BY OrdinaryIsWhole DEF FloatKeys, OtherNumberKeys
<1>2. /\ c.max_hours_between_vacuum > 0
      /\ c.min_scale_factor > 0 /\ c.min_scale_factor <= c.max_scale_factor
      /\ c.min_threshold > 0 /\ c.min_threshold <= c.max_threshold
      /\ c.cost_limit_bump > 0
      /\ c.min_cost_limit > 0 /\ c.min_cost_limit <= c.max_cost_limit
      /\ c.cost_limit_headroom >= 100 /\ c.scale_decimals >= 0
  <2>1. c.min_scale_factor > 0 /\ c.min_scale_factor <= c.max_scale_factor
    BY <1>1, WholeComparisons DEF ValidTuner
  <2>2. c.min_threshold > 0 /\ c.min_threshold <= c.max_threshold
    BY <1>1, WholeComparisons DEF ValidTuner
  <2>3. c.min_cost_limit > 0 /\ c.min_cost_limit <= c.max_cost_limit
    BY <1>1, WholeComparisons DEF ValidTuner
  <2>4. /\ c.max_hours_between_vacuum > 0 /\ c.cost_limit_bump > 0
        /\ c.cost_limit_headroom >= 100 /\ c.scale_decimals >= 0
    BY <1>1, WholeComparisons DEF ValidTuner
  <2>5. QED
    BY <2>1, <2>2, <2>3, <2>4
<1>3. Power10(PrintedDecimals - c.scale_decimals) \in Nat \ {0}
  BY <1>1, <1>2, OrdinaryIsWhole, Power10Positive DEF PrintedDecimals
<1>4. QED
  BY <1>1, <1>2, <1>3 DEF Advisor!TunerAssumption

LEMMA DoctorAssumed ==
    ASSUME NEW c, Typed(c), Ordinary(c), ValidDoctor(c)
    PROVE  Advisor(c)!DoctorAssumption
<1>1. /\ c.min_score \in Int /\ c.max_score \in Int
      /\ \A k \in PenaltyKeys : c[k] \in Int
  BY OrdinaryIsWhole DEF OtherNumberKeys
<1>2. /\ c.min_score < c.max_score
      /\ \A k \in PenaltyKeys : c[k] \in Nat
  BY <1>1, WholeComparisons DEF ValidDoctor
<1>3. {c.critical_penalty, c.high_penalty, c.warning_penalty, c.long_xact_penalty,
       c.wraparound_penalty} \subseteq Nat
  BY <1>2 DEF PenaltyKeys
<1>4. Advisor(c)!IsFiniteSet({})
  <2>1. <<>> \in Seq({})
    OBVIOUS
  <2>2. QED
    BY <2>1 DEF Advisor!IsFiniteSet
<1>5. c.min_score \in Int /\ c.max_score \in Int /\ c.min_score < c.max_score
  BY <1>1, <1>2
<1>6. {} \subseteq Advisor(c)!TableSnapshot /\ 0 \in Nat
  OBVIOUS
<1>7. QED
  BY <1>3, <1>4, <1>5, <1>6, Zenon DEF Advisor!DoctorAssumption

LEMMA SeedAssumed ==
    ASSUME NEW c, LabTyped(c), LabValid(c)
    PROVE  Seed(c)!SeedAssumption
<1>1. /\ c.orders_rows > 0 /\ c.sessions_rows > 0 /\ c.events_rows > 0 /\ c.customers_rows > 0
      /\ c.chunk_size > 0
  BY DEF LabValid, ValidTables, LabTables, LabRows
<1>2. /\ c.orders_rows \in Int /\ c.sessions_rows \in Int /\ c.events_rows \in Int
      /\ c.customers_rows \in Int /\ c.chunk_size \in Int
  BY DEF LabTyped, LabNumbers
<1>3. <<c.orders_rows, c.sessions_rows, c.events_rows, c.customers_rows>> \in [1 .. 4 -> Nat \ {0}]
  BY <1>1, <1>2
<1>4. QED
  BY <1>1, <1>2, <1>3 DEF Seed!SeedAssumption, Seed!Tables

-----------------------------------------------------------------------------
(* Along a run.                                                            *)

\* The lab's configuration is the defaults under an environment that parsed.
LabLoaded ==
    /\ input \in Inputs
    /\ command = "lab" /\ pc \in {"validate", "lab"} =>
           LabLoads(input.env) /\ cfg = LabLoad(input.env)

LEMMA LabLoadedHolds == Spec => []LabLoaded
<1>1. Init => LabLoaded
  BY DEF Init, LabLoaded
<1>2. IInv /\ LabLoaded /\ [Next]_vars => LabLoaded'
  BY DEF Next, Pgav, Prepare, Read, Lab, LoadLabConfig, LabStops, LabFails, Finished, vars, run,
         asked, settings, ending, LabLoaded, Goto, Fail, FailOpen, IInv, ConnIsPc, Connected,
         WrongArguments, LoadConfig, LoadFails, Validate, Open, OpenFails, NewService,
         ClusterSettings, TableDefaults, TableSnapshots, LongTransactions, VacuumProgress,
         ReadFails, Reading, Answered, Render, RenderFails, Close, Exit, Interrupt, Hang, Reload, Alter
<1>3. QED
  BY <1>1, <1>2, InvariantHolds, PTL DEF Spec

\* Whoever connects, or runs the lab, does so under a configuration for which the theorems
\* about the assessment, the tuner, the score and the seeding hold: their assumptions are
\* what Validate guarantees, NaN and unprintable decimals apart.
THEOREM AcceptedMeansAssumedHolds == Spec => []AcceptedMeansAssumed
<1>1. IInv /\ input \in Inputs /\ LoadedIsLayers /\ LabLoaded => AcceptedMeansAssumed
  <2> SUFFICES ASSUME IInv, input \in Inputs, LoadedIsLayers, LabLoaded
               PROVE  AcceptedMeansAssumed
    OBVIOUS
  <2>1. ASSUME conn # "new", Ordinary(cfg)
        PROVE  \E c \in Configs : /\ c = cfg
                                   /\ Advisor(c)!RaceAssumption
                                   /\ Advisor(c)!TunerAssumption
                                   /\ Advisor(c)!DoctorAssumption
    <3>1. Valid(cfg) /\ command # "lab" /\ pc # "start" /\ err \notin {"arguments", "load"}
      BY <2>1 DEF IInv, ConnIsPc, Accepted
    <3>2. /\ Loads(input.file, input.env)
          /\ cfg = Over(FlagLayer(input.flags), Load(input.file, input.env))
      BY <3>1 DEF LoadedIsLayers
    <3>3. PICK c \in Configs : c = cfg
      BY <3>2 DEF Configs
    <3>4. Typed(c) /\ Ordinary(c) /\ Valid(c)
      BY <2>1, <3>1, <3>2, <3>3, LoadTyped
    <3>5. QED
      BY <3>3, <3>4, RaceAssumed, TunerAssumed, DoctorAssumed DEF Valid
  <2>2. ASSUME pc = "lab"
        PROVE  \E c \in LabConfigs : c = cfg /\ Seed(c)!SeedAssumption
    <3>1. /\ command = "lab" /\ LabValid(cfg)
          /\ LabLoads(input.env) /\ cfg = LabLoad(input.env)
      BY <2>2 DEF IInv, ConnIsPc, Accepted, LabLoaded
    <3>2. PICK c \in LabConfigs : c = cfg
      BY <3>1 DEF LabConfigs, LabLoaded
    <3>3. LabTyped(c) /\ LabValid(c)
      BY <3>1, <3>2, LabLoadTyped
    <3>4. QED
      BY <3>2, <3>3, SeedAssumed
  <2>3. QED
    BY <2>1, <2>2 DEF AcceptedMeansAssumed
<1>2. QED
  BY <1>1, InvariantHolds, LayersInvariant, LabLoadedHolds, PTL
=============================================================================
