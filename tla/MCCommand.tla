----------------------------- MODULE MCCommand -----------------------------
(* A small instance of Command for TLC: files that each reach one boundary  *)
(* of Load or Validate, with and without an environment and flags on top.   *)
EXTENDS AcceptedConfig

Nothing == [k \in {} |-> 0]

Files ==
    {Nothing,
     [no_such_key |-> 1, log_level |-> "", log_format |-> "json"],
     [query_timeout |-> 0],
     [connect_timeout |-> Garbled],
     [log_format |-> "xml"],
     [high_dead_ratio |-> NaN, io_multiplier |-> NaN],
     [high_dead_ratio |-> 40],
     [critical_dead_ratio |-> 100],
     [max_scale_factor |-> 999],
     [max_scale_factor |-> 1000, min_threshold |-> 1000, wraparound_critical_ratio |-> 100,
      io_multiplier |-> 0, scale_decimals |-> 0, cost_limit_bump |-> 1],
     [max_threshold |-> 99],
     [max_cost_limit |-> 199],
     [cost_limit_headroom |-> 99],
     [scale_decimals |-> 7],
     [scale_decimals |-> -1],
     [critical_penalty |-> 0, high_penalty |-> 0, max_score |-> 1],
     [warning_penalty |-> -1],
     [min_score |-> 100]}

Environments ==
    {Nothing,
     [max_hours_between_vacuum |-> 0],
     [max_hours_between_vacuum |-> Garbled],
     [max_hours_between_vacuum |-> NaN, query_timeout |-> 11],
     [query_timeout |-> 0],
     [log_level |-> "info", dsn |-> "env"]}

\* The ones pgav-docker looks at; the first is ignored by it, and the last by pgav.
LabEnvironments ==
    {[max_hours_between_vacuum |-> Garbled, sessions_rows |-> 1],
     [connect_timeout |-> Garbled],
     [connect_timeout |-> 0],
     [orders_rows |-> 0],
     [orders_rows |-> 1, sessions_batch |-> 0],
     [ready_wait |-> 1, orders_pause |-> 1, long_xact |-> FALSE],
     [long_xact |-> Garbled, query_timeout |-> 11]}

Flags == {Nothing, [dsn |-> "", log_level |-> "debug"], [log_level |-> "loud"], [log_level |-> ""]}

MCServerLimits == {-1, 0, 1000}

\* One layer at a time, and some on top of each other.
Strong == [max_hours_between_vacuum |-> 5, query_timeout |-> 11, log_format |-> "text"]
MCInputs ==
    [file : Files, env : {Nothing}, flags : {Nothing}]
    \cup [file : {Nothing}, env : Environments \cup LabEnvironments, flags : {Nothing}]
    \cup [file : {Nothing}, env : {Nothing}, flags : Flags]
    \cup [file : {[query_timeout |-> 0, log_format |-> "xml", dsn |-> "file"]},
           env : {Strong}, flags : Flags]
=============================================================================
