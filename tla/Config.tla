------------------------------- MODULE Config -------------------------------
(***************************************************************************)
(* config.Defaults, Load and Validate: where a setting of pgav comes from  *)
(* and which settings it accepts.  A layer (the file, the environment, the *)
(* flags) gives values to some keys; a configuration gives one to each.    *)
(*                                                                         *)
(* Ratios are in %, tuples in hundreds, scale factors in 1/1000000, which  *)
(* is as fine as formatScale prints them, and durations in seconds.        *)
(***************************************************************************)
EXTENDS Integers

CONSTANTS
    Garbled,  \* what does not parse as the type of its key, or a file that does not parse
    NaN       \* ".nan", which YAML and strconv.ParseFloat take for a number

Defaults ==
    [dsn |-> "", application_name |-> "pgav", connect_timeout |-> 5, query_timeout |-> 15,
     log_level |-> "warn", log_format |-> "text",
     high_dead_ratio |-> 20, critical_dead_ratio |-> 40, high_hours_to_trigger |-> 8,
     wraparound_warning_ratio |-> 80, wraparound_critical_ratio |-> 95,
     assumed_cost_per_page |-> 10, assumed_tuples_per_page |-> 50, io_multiplier |-> 1,
     min_trigger_for_scale_warning |-> 10000,
     max_hours_between_vacuum |-> 4, min_scale_factor |-> 1000, max_scale_factor |-> 200000,
     min_threshold |-> 100, max_threshold |-> 1000, cost_limit_bump |-> 1800,
     min_cost_limit |-> 200, max_cost_limit |-> 10000, cost_limit_headroom |-> 125,
     scale_decimals |-> 3,
     max_score |-> 100, min_score |-> 0, critical_penalty |-> 15, high_penalty |-> 8,
     warning_penalty |-> 3, long_xact_penalty |-> 5, wraparound_penalty |-> 20,
     long_xact_after |-> 3600]

Keys == DOMAIN Defaults

TextKeys == {"dsn", "application_name", "log_level", "log_format"}
NumberKeys == Keys \ TextKeys
DurationKeys == {"connect_timeout", "query_timeout", "long_xact_after"}
FloatKeys == {"high_dead_ratio", "critical_dead_ratio", "high_hours_to_trigger",
              "wraparound_warning_ratio", "wraparound_critical_ratio", "assumed_cost_per_page",
              "assumed_tuples_per_page", "io_multiplier", "max_hours_between_vacuum",
              "min_scale_factor", "max_scale_factor", "cost_limit_headroom"}
PenaltyKeys == {"critical_penalty", "high_penalty", "warning_penalty", "long_xact_penalty",
                "wraparound_penalty"}

\* The variables applyEnv looks at, and the flags of the root command.
EnvKeys == {"dsn", "application_name", "connect_timeout", "query_timeout", "log_level",
            "log_format", "long_xact_after", "max_hours_between_vacuum"}
FlagKeys == {"dsn", "log_level"}

\* The stronger layer over the weaker one. Keys pgav does not know are ignored.
Over(layer, config) ==
    [k \in DOMAIN config |-> IF k \in DOMAIN layer THEN layer[k] ELSE config[k]]

\* What yaml, strconv and time.ParseDuration make of a number: NaN is a float64 only.
\* (Infinity, a float64 too, is left out.)
NumberTyped(layer) ==
    \A k \in DOMAIN layer \cap NumberKeys :
        \/ layer[k] \in Int \cup {Garbled}
        \/ layer[k] = NaN /\ k \in FloatKeys

Without(layer, dropped) == [k \in DOMAIN layer \ dropped |-> layer[k]]

\* The zero value of a key's type in fileConfig, which is also what an absent key has
\* there. Durations are text in the file and parsed afterwards: "0s" is not a zero value.
ZeroKeys(layer) ==
    {k \in DOMAIN layer \ DurationKeys : layer[k] = IF k \in TextKeys THEN "" ELSE 0}

\* Fault: zeros are taken over.
FileLayerObeyed(file) == file

\* mergeFile
FileLayer(file) == Without(file, ZeroKeys(file))

Loads(file, env) ==
    /\ \A k \in DOMAIN file : file[k] # Garbled
    /\ \A k \in DOMAIN env \cap EnvKeys : env[k] # Garbled

\* Fault: the file is read last.
LoadFileLast(file, env) == Over(FileLayer(file), Over(env, Defaults))

Load(file, env) == Over(env, Over(FileLayer(file), Defaults))

\* prepare: --dsn counts when it is given, even as "", --log-level when it is not "".
FlagLayer(flags) ==
    Without(flags, {k \in DOMAIN flags : k = "log_level" /\ flags[k] = ""})

-----------------------------------------------------------------------------
(* Validate.  Go's comparisons are false when one side is NaN; Validate    *)
(* rejects what compares badly, and lets NaN through.                      *)

a \prec b == a # NaN /\ b # NaN /\ a < b
a \preceq b == a # NaN /\ b # NaN /\ a <= b

Positive(v) == ~(v \preceq 0)

ValidPostgres(c) ==
    /\ Positive(c.connect_timeout) /\ Positive(c.query_timeout)
    /\ c.application_name # ""

ValidLog(c) ==
    /\ c.log_level \in {"debug", "info", "warn", "error"}
    /\ c.log_format \in {"text", "json"}

ValidAssess(c) ==
    /\ Positive(c.high_dead_ratio) /\ ~(100 \preceq c.high_dead_ratio)
    /\ ~(c.critical_dead_ratio \preceq c.high_dead_ratio) /\ ~(100 \preceq c.critical_dead_ratio)
    /\ Positive(c.high_hours_to_trigger)
    /\ Positive(c.wraparound_warning_ratio) /\ ~(100 \preceq c.wraparound_warning_ratio)
    /\ ~(c.wraparound_critical_ratio \preceq c.wraparound_warning_ratio)
    /\ ~(100 \prec c.wraparound_critical_ratio)
    /\ Positive(c.assumed_cost_per_page) /\ Positive(c.assumed_tuples_per_page)
    /\ ~(c.io_multiplier \prec 0)
    /\ Positive(c.min_trigger_for_scale_warning)

\* Fault: nothing is asked of the two bounds of the scale factor together.
ValidTunerUnordered(c) ==
    /\ Positive(c.max_hours_between_vacuum)
    /\ Positive(c.min_scale_factor)
    /\ Positive(c.min_threshold) /\ ~(c.max_threshold \prec c.min_threshold)
    /\ Positive(c.cost_limit_bump)
    /\ Positive(c.min_cost_limit) /\ ~(c.max_cost_limit \prec c.min_cost_limit)
    /\ Positive(c.max_cost_limit)
    /\ ~(c.cost_limit_headroom \prec 100)
    /\ ~(c.scale_decimals \prec 0)

ValidTuner(c) ==
    /\ Positive(c.max_hours_between_vacuum)
    /\ Positive(c.min_scale_factor) /\ ~(c.max_scale_factor \prec c.min_scale_factor)
    /\ Positive(c.min_threshold) /\ ~(c.max_threshold \prec c.min_threshold)
    /\ Positive(c.cost_limit_bump)
    /\ Positive(c.min_cost_limit) /\ ~(c.max_cost_limit \prec c.min_cost_limit)
    /\ Positive(c.max_cost_limit)
    /\ ~(c.cost_limit_headroom \prec 100)
    /\ ~(c.scale_decimals \prec 0)

ValidDoctor(c) ==
    /\ c.min_score \prec c.max_score
    /\ \A k \in PenaltyKeys : ~(c[k] \prec 0)
    /\ Positive(c.long_xact_after)

Valid(c) == ValidPostgres(c) /\ ValidLog(c) /\ ValidAssess(c) /\ ValidTuner(c) /\ ValidDoctor(c)
=============================================================================
