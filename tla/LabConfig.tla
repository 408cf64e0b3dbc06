----------------------------- MODULE LabConfig -----------------------------
(***************************************************************************)
(* loadgen.Defaults, Load and Validate: the configuration of pgav-docker,  *)
(* which has no file and no flags.  Its environment is the one pgav sees,  *)
(* with two variables in common.  Durations are in milliseconds but for    *)
(* connect_timeout, in seconds as in Config; scale factors in 1/1000000.   *)
(***************************************************************************)
EXTENDS Config

LabDefaults ==
    [dsn |-> "", connect_timeout |-> 5, retry_interval |-> 500, ready_wait |-> 60000,
     schema |-> "public", chunk_size |-> 50000,
     orders |-> "orders", orders_rows |-> 400000, orders_payload |-> 24,
     sessions |-> "sessions", sessions_rows |-> 80000, sessions_payload |-> 64,
     events |-> "events", events_rows |-> 20000, events_payload |-> 16,
     customers |-> "customers", customers_rows |-> 10000, customers_payload |-> 16,
     orders_pause |-> 2000, orders_batch |-> 8000,
     sessions_pause |-> 80, sessions_batch |-> 400,
     events_pause |-> 3600000, events_batch |-> 0,
     sessions_scale_factor |-> 200000, sessions_cost_limit |-> 2, sessions_cost_delay |-> 100,
     events_scale_factor |-> 10000, events_threshold |-> 1000,
     long_xact |-> TRUE, app_prefix |-> "pgav-lab"]

LabEnvKeys == {"dsn", "connect_timeout", "ready_wait", "orders_rows", "sessions_rows",
               "orders_batch", "sessions_batch", "orders_pause", "sessions_pause", "long_xact"}

\* The ones of them that are parsed as a number or a duration.
LabNumberKeys == LabEnvKeys \ {"dsn", "long_xact"}

LabLoads(env) == \A k \in DOMAIN env \cap LabEnvKeys : env[k] # Garbled

LabLoad(env) == Over(env, LabDefaults)

LabTables == {"orders", "sessions", "events", "customers"}

LabRows(c) == [t \in LabTables |->
    CASE t = "orders" -> c.orders_rows [] t = "sessions" -> c.sessions_rows
      [] t = "events" -> c.events_rows [] t = "customers" -> c.customers_rows]

LabPayload(c) == [t \in LabTables |->
    CASE t = "orders" -> c.orders_payload [] t = "sessions" -> c.sessions_payload
      [] t = "events" -> c.events_payload [] t = "customers" -> c.customers_payload]

\* Fault: the rows are not looked at.
ValidTablesNameOnly(c) == \A t \in LabTables : c[t] # "" /\ LabPayload(c)[t] > 0

ValidTables(c) ==
    \A t \in LabTables : c[t] # "" /\ LabRows(c)[t] > 0 /\ LabPayload(c)[t] > 0

ValidTraffic(c) ==
    /\ c.orders_batch > 0 /\ c.sessions_batch > 0 /\ c.events_batch >= 0
    /\ c.orders_pause > 0 /\ c.sessions_pause > 0
    /\ c.events_batch > 0 => c.events_pause > 0

ValidParameters(c) ==
    /\ c.sessions_scale_factor > 0 /\ c.sessions_cost_limit > 0 /\ c.sessions_cost_delay > 0
    /\ c.events_scale_factor > 0 /\ c.events_threshold > 0

LabValid(c) ==
    /\ c.connect_timeout > 0 /\ c.retry_interval > 0 /\ c.ready_wait > 0
    /\ c.schema # "" /\ c.chunk_size > 0 /\ c.app_prefix # ""
    /\ ValidTables(c) /\ ValidTraffic(c) /\ ValidParameters(c)
=============================================================================
