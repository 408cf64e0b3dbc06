------------------------------ MODULE Command ------------------------------
(***************************************************************************)
(* One run of `pgav status`, `analyze TABLE`, `tune` (dry run) or          *)
(* `doctor`: main, runtime.prepare, the method of app.Service, the reads   *)
(* of postgres.Catalog, the report and the exit status.  The settings of   *)
(* the cluster and of a table, of which cost_limit stands for all, move    *)
(* between the reads; the server may stop answering; SIGINT or SIGTERM may *)
(* come at any time.  `tune --apply` goes on where TuneApply begins.       *)
(*                                                                         *)
(* Or one run of pgav-docker, here "lab", from its environment to its exit *)
(* status; what it does in between is in LabSeed and LabTraffic.           *)
(***************************************************************************)
EXTENDS LabConfig

CONSTANTS
    Inputs,            \* the files, environments and flags a user may give
    ServerLimits,      \* values of autovacuum_vacuum_cost_limit in postgresql.conf
    VacuumCostLimit,   \* vacuum_cost_limit
    TableLimits,       \* values of the table's autovacuum_vacuum_cost_limit
    Unset,             \* the table has no such reloption
    Missing,           \* there is no such table
    Unread             \* pgav has not read it

ASSUME CommandAssumption ==
    /\ \A i \in Inputs :
           /\ DOMAIN i.env \subseteq EnvKeys \cup LabEnvKeys /\ DOMAIN i.flags \subseteq FlagKeys
           /\ NumberTyped(i.file) /\ NumberTyped(i.env)
           /\ \A k \in DOMAIN i.env \cap LabNumberKeys : i.env[k] \in Int \cup {Garbled}
    /\ VacuumCostLimit \in Nat \ {0}
    /\ ServerLimits \subseteq Nat \cup {-1}
    /\ TableLimits \subseteq Nat \ {0}
    /\ {Unset, Missing, Unread, NaN} \cap Int = {}
    /\ Unset # Missing /\ Unset # Unread /\ Missing # Unread

VARIABLES
    \* the run
    command, input,
    cfg,          \* the configuration
    pc,
    err,          \* what failed, or "none"
    conn,         \* "new", "open" or "closed"
    default,      \* the default cost_limit, from the second read of the cluster settings
    seen,         \* the table's cost_limit in the report
    written,      \* the report has been written
    exit,         \* the exit status
    interrupted,  \* the context of main is cancelled
    \* the server
    answering, server, table,
    \* history, from the second read of the cluster settings to the read of the tables
    inForce,      \* the cost limits autovacuum obeyed
    moved         \* which of the two settings moved

asked == <<command, input>>
settings == <<default, seen>>
ending == <<written, exit>>
run == <<asked, cfg, pc, err, conn, settings, ending>>
cluster == <<answering, server, table>>
world == <<interrupted, cluster>>
history == <<inForce, moved>>
vars == <<run, world, history>>

Commands == {"status", "analyze", "tune", "doctor", "lab"}

TypeOK ==
    /\ command \in Commands /\ input \in Inputs
    /\ pc \in {"start", "validate", "open", "service", "cluster", "defaults", "rows",
               "xacts", "progress", "render", "close", "lab", "exit", "done"}
    /\ err \in {"none", "arguments", "load", "invalid", "open", "read", "render", "run"}
    /\ conn \in {"new", "open", "closed"}
    /\ default \in Nat \cup {Unread}
    /\ seen \in Nat \cup {Unread, Missing}
    /\ written \in BOOLEAN
    /\ exit \in {Unread, 0, 1, 2}
    /\ interrupted \in BOOLEAN /\ answering \in BOOLEAN
    /\ server \in ServerLimits
    /\ table \in TableLimits \cup {Unset, Missing}
    /\ inForce \subseteq Nat \cup {Missing}
    /\ moved \subseteq {"server", "table"}

Init ==
    /\ command \in Commands /\ input \in Inputs
    /\ cfg = IF command = "lab" THEN LabDefaults ELSE Defaults
    /\ pc = "start" /\ err = "none" /\ conn = "new"
    /\ default = Unread /\ seen = Unread
    /\ written = FALSE /\ exit = Unread
    /\ interrupted = FALSE /\ answering = TRUE
    /\ server \in ServerLimits
    /\ table \in TableLimits \cup {Unset, Missing}
    /\ inForce = {} /\ moved = {}

Goto(label) == pc' = label

\* An error before there is a connection, and one that the deferred cleanup follows.
Fail(e) == Goto("exit") /\ err' = e
FailOpen(e) == Goto("close") /\ err' = e

-----------------------------------------------------------------------------
(* runtime.prepare                                                         *)

\* cobra: not exactly one TABLE, or a flag it does not know.
WrongArguments ==
    /\ pc = "start" /\ command # "lab"
    /\ Fail("arguments")
    /\ UNCHANGED <<asked, cfg, conn, settings, ending, world, history>>

LoadConfig ==
    /\ pc = "start" /\ command # "lab"
    /\ ~interrupted /\ Loads(input.file, input.env)
    /\ cfg' = Over(FlagLayer(input.flags), Load(input.file, input.env))
    /\ Goto("validate")
    /\ UNCHANGED <<asked, err, conn, settings, ending, world, history>>

\* cmd/pgav-docker; loadgen.Load takes no context.
LoadLabConfig ==
    /\ pc = "start" /\ command = "lab"
    /\ LabLoads(input.env)
    /\ cfg' = LabLoad(input.env)
    /\ Goto("validate")
    /\ UNCHANGED <<asked, err, conn, settings, ending, world, history>>

LoadFails ==
    /\ pc = "start"
    /\ IF command = "lab" THEN ~LabLoads(input.env)
       ELSE interrupted \/ ~Loads(input.file, input.env)
    /\ Fail("load")
    /\ UNCHANGED <<asked, cfg, conn, settings, ending, world, history>>

Accepted == IF command = "lab" THEN LabValid(cfg) ELSE Valid(cfg)

\* Fault: app.New alone looks at the configuration.
ValidateNothing ==
    /\ pc = "validate"
    /\ Goto(IF command = "lab" THEN "lab" ELSE "open")
    /\ UNCHANGED <<asked, cfg, err, conn, settings, ending, world, history>>

Validate ==
    /\ pc = "validate"
    /\ IF Accepted THEN Goto(IF command = "lab" THEN "lab" ELSE "open") /\ UNCHANGED err
       ELSE Fail("invalid")
    /\ UNCHANGED <<asked, cfg, conn, settings, ending, world, history>>

Open ==
    /\ pc = "open" /\ ~interrupted /\ answering
    /\ conn' = "open"
    /\ Goto("service")
    /\ UNCHANGED <<asked, cfg, err, settings, ending, world, history>>

\* The DSN, the server's refusal, connect_timeout or a signal.
OpenFails ==
    /\ pc = "open"
    /\ Fail("open")
    /\ UNCHANGED <<asked, cfg, conn, settings, ending, world, history>>

\* app.New validates once more.
NewService ==
    /\ pc = "service"
    /\ IF Valid(cfg) THEN Goto("cluster") /\ UNCHANGED err ELSE FailOpen("invalid")
    /\ UNCHANGED <<asked, cfg, conn, settings, ending, world, history>>

-----------------------------------------------------------------------------
(* Service.Status, Analyze, Tune and Doctor                                *)

\* A query is answered: the server is there and the context is not cancelled.
Answered(read) == pc = read /\ ~interrupted /\ answering

ClusterSettings ==
    /\ Answered("cluster")
    /\ Goto("defaults")
    /\ UNCHANGED <<asked, cfg, err, conn, settings, ending, world, history>>

\* What autovacuum obeys for a table (external): 0 and -1 stand for vacuum_cost_limit.
Obeyed(s, t) ==
    IF t # Unset THEN t ELSE IF s > 0 THEN s ELSE VacuumCostLimit

\* Fault: autovacuum_vacuum_cost_limit alone counts.
ParseCostLimitNoFallback(s) == s

ParseCostLimit(s) == IF s < 0 THEN VacuumCostLimit ELSE s

\* TableSnapshots reads the cluster settings again, for the defaults of the tables.
TableDefaults ==
    /\ Answered("defaults")
    /\ default' = ParseCostLimit(server)
    /\ inForce' = {Obeyed(server, table)}
    /\ Goto("rows")
    /\ UNCHANGED <<asked, cfg, err, conn, seen, ending, world, moved>>

\* Fault: reloptions are not applied.
ApplyReloptionsNot(t) == IF t = Missing THEN Missing ELSE default

\* snapshotFromRow
ApplyReloptions(t) == IF t = Unset THEN default ELSE t

\* The rows with their reloptions; Analyze picks its table from them.
TableSnapshots ==
    /\ Answered("rows")
    /\ seen' = ApplyReloptions(table)
    /\ IF command = "analyze" /\ table = Missing THEN FailOpen("read")
       ELSE /\ Goto(CASE command = "status" -> "render"
                      [] command = "analyze" -> "progress"
                      [] OTHER -> "xacts")
            /\ UNCHANGED err
    /\ inForce' = {} /\ moved' = {}
    /\ UNCHANGED <<asked, cfg, conn, default, ending, world>>

LongTransactions ==
    /\ Answered("xacts")
    /\ Goto(IF command = "doctor" THEN "progress" ELSE "render")
    /\ UNCHANGED <<asked, cfg, err, conn, settings, ending, world, history>>

VacuumProgress ==
    /\ Answered("progress")
    /\ Goto("render")
    /\ UNCHANGED <<asked, cfg, err, conn, settings, ending, world, history>>

Reading == pc \in {"cluster", "defaults", "rows", "xacts", "progress"}

\* Fault: queries have no timeout of their own.
ReadFailsWhenInterrupted ==
    /\ Reading /\ (interrupted \/ answering)
    /\ FailOpen("read")
    /\ UNCHANGED <<asked, cfg, conn, settings, ending, world, history>>

\* Fault: the error of a read ends the process without the cleanup.
ReadFailsAtOnce ==
    /\ Reading
    /\ Fail("read")
    /\ UNCHANGED <<asked, cfg, conn, settings, ending, world, history>>

\* An error of the server, query_timeout, a signal, a setting that does not parse, or,
\* before the first read, a table name ParseTableID refuses.
ReadFails ==
    /\ Reading
    /\ FailOpen("read")
    /\ UNCHANGED <<asked, cfg, conn, settings, ending, world, history>>

-----------------------------------------------------------------------------
(* loadgen.Run: it returns nil once it is interrupted (LabTraffic), and an *)
(* error whenever something fails.                                         *)

LabStops ==
    /\ pc = "lab" /\ interrupted
    /\ Goto("exit")
    /\ UNCHANGED <<asked, cfg, err, conn, settings, ending, world, history>>

LabFails ==
    /\ pc = "lab"
    /\ Fail("run")
    /\ UNCHANGED <<asked, cfg, conn, settings, ending, world, history>>

-----------------------------------------------------------------------------
(* The report, the cleanup and the exit status                             *)

\* write...: the context is not looked at any more.
Render ==
    /\ pc = "render"
    /\ written' = TRUE
    /\ Goto("close")
    /\ UNCHANGED <<asked, cfg, err, conn, settings, exit, world, history>>

RenderFails ==
    /\ pc = "render"
    /\ FailOpen("render")
    /\ UNCHANGED <<asked, cfg, conn, settings, ending, world, history>>

\* cleanup: an error of Close is logged and nothing else.
Close ==
    /\ pc = "close"
    /\ conn' = "closed"
    /\ Goto("exit")
    /\ UNCHANGED <<asked, cfg, err, settings, ending, world, history>>

\* Fault: every error about the configuration exits with 2.
StatusOfConfigError == IF err = "none" THEN 0 ELSE IF err \in {"load", "invalid"} THEN 2 ELSE 1

\* run of cmd/pgav and of cmd/pgav-docker, which does not tell a variable that does not
\* parse from one that is rejected.
ExitStatus ==
    IF err = "none" THEN 0
    ELSE IF err = "invalid" \/ (command = "lab" /\ err = "load") THEN 2
    ELSE 1

Exit ==
    /\ pc = "exit"
    /\ exit' = ExitStatus
    /\ Goto("done")
    /\ UNCHANGED <<asked, cfg, err, conn, settings, written, world, history>>

-----------------------------------------------------------------------------
(* Signals, and the cluster (external) while it matters to the run (a      *)
(* bound): between the connection and the read of the tables.              *)

Interrupt ==
    /\ pc # "done" /\ ~interrupted
    /\ interrupted' = TRUE
    /\ UNCHANGED <<run, cluster, history>>

\* The server stops answering, and comes back.
Hang ==
    /\ pc # "done"
    /\ answering' = ~answering
    /\ UNCHANGED <<run, interrupted, server, table, history>>

\* Between the two reads that make up the settings of a table the history is kept.
Note(what) ==
    IF pc = "rows"
    THEN /\ inForce' = inForce \cup {Obeyed(server', table')}
         /\ moved' = moved \cup {what}
    ELSE UNCHANGED history

\* postgresql.conf is changed and reloaded.
Reload ==
    /\ pc \in {"cluster", "defaults", "rows"}
    /\ server' \in ServerLimits \ {server}
    /\ UNCHANGED <<run, interrupted, answering, table>>
    /\ Note("server")

\* ALTER TABLE ... SET or RESET, DROP TABLE, CREATE TABLE.
Alter ==
    /\ pc \in {"cluster", "defaults", "rows"}
    /\ table' \in (TableLimits \cup {Unset, Missing}) \ {table}
    /\ UNCHANGED <<run, interrupted, answering, server>>
    /\ Note("table")

-----------------------------------------------------------------------------

Prepare ==
    \/ WrongArguments \/ LoadConfig \/ LoadLabConfig \/ LoadFails \/ Validate
    \/ Open \/ OpenFails \/ NewService

Read ==
    \/ ClusterSettings \/ TableDefaults \/ TableSnapshots
    \/ LongTransactions \/ VacuumProgress \/ ReadFails

Lab == LabStops \/ LabFails

Pgav == Prepare \/ Read \/ Render \/ RenderFails \/ Close \/ Exit

Finished == pc = "done" /\ UNCHANGED vars

Next == Pgav \/ Lab \/ Interrupt \/ Hang \/ Reload \/ Alter \/ Finished

Spec == Init /\ [][Next]_vars

\* The run takes a step it can take, if only its timeout: Validate has seen to it that
\* connect_timeout and query_timeout are positive.
FairSpec == Spec /\ WF_vars(Pgav)

-----------------------------------------------------------------------------
\* prepare and main validate before they connect: whatever the layers add up to, no server
\* is reached, and nothing reported, under a configuration that Validate rejects.
NothingBeforeValidation ==
    (conn # "new" \/ written \/ pc = "lab") => Accepted

\* The exit status of pgav is 2 for a configuration that was read and rejected and for
\* nothing else, and 0 for a report that was written, although a signal or a failing Close
\* may have come since; that of pgav-docker is 2 also when a variable does not parse, and 0
\* only for a run that was interrupted.
ExitSaysWhat ==
    pc = "done" =>
        /\ exit = 2 <=> \/ ~Accepted
                        \/ command = "lab" /\ ~LabLoads(input.env)
        /\ exit = 0 => IF command = "lab" THEN interrupted ELSE written
        /\ written => exit = 0

\* No way through prepare and the command ends the process with its connection open.
ConnectionClosed ==
    pc \in {"exit", "done"} => conn # "open"

\* The cost_limit in the report, put together from two reads, is one that autovacuum obeyed
\* at some moment between them, unless both the server's and the table's setting moved in
\* between. (A 0 in postgresql.conf, which parseCostLimit takes literally, apart.)
SeenWasInForce ==
    [][seen' # seen => seen' \in inForce \/ moved = {"server", "table"} \/ seen' = 0]_vars

\* The strongest layer that gives the key.
Given(k) ==
    IF k \in DOMAIN FlagLayer(input.flags) THEN input.flags[k]
    ELSE IF k \in DOMAIN input.env THEN input.env[k]
    ELSE IF k \in DOMAIN input.file \ ZeroKeys(input.file) THEN input.file[k]
    ELSE Defaults[k]

\* What the user gave is what the run uses, a flag before the environment before the file,
\* except that a zero in the file stands for an absent key.
GivenIsObeyed ==
    command # "lab" /\ pc \notin {"start", "validate"} /\ err \notin {"arguments", "load"} =>
        \A k \in Keys : cfg[k] = Given(k)

\* No penalty of an accepted configuration is zero, although Validate would let it be: every
\* finding of `pgav doctor` costs something, which DoctorProofs needs for a full score to
\* mean a clean cluster. No environment variable sets one, and the file's zeros are dropped.
NothingIsFree ==
    conn # "new" => \A k \in PenaltyKeys : 0 < cfg[k]

\* Every command of pgav ends, whether the server answers or not.
CommandEnds == command # "lab" => <>(pc = "done")
=============================================================================
