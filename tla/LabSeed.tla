------------------------------ MODULE LabSeed ------------------------------
(***************************************************************************)
(* loadgen.seed: processes of pgav-docker filling the lab's tables, each   *)
(* resuming where the rows already there end.  The container is restarted  *)
(* whenever its process fails, and the server may still be executing the   *)
(* last statement of a process that is gone when the next one counts.      *)
(***************************************************************************)
EXTENDS Integers, FiniteSets

CONSTANTS
    Seeders,           \* processes: the ones restarted, or started side by side
    NTables,           \* the tables, 1 .. NTables in the order of `seed`
    Sessions, Events,  \* the two that get storage parameters
    Rows,              \* Rows[t]: TableSpec.Rows
    ChunkSize,
    Found              \* row counts an earlier configuration may have left (a bound)

Tables == 1 .. NTables

\* Config.Validate
ASSUME SeedAssumption ==
    /\ NTables \in Nat \ {0}
    /\ Sessions \in Tables /\ Events \in Tables
    /\ Rows \in [Tables -> Nat \ {0}]
    /\ ChunkSize \in Nat \ {0}
    /\ Found \subseteq Nat

VARIABLES
    pc,         \* the statement a process waits for, or the server still executes
    alive,      \* the process runs
    table,      \* the table it is at
    start,      \* first id of its current chunk
    last,       \* last id it has to insert into the table
    at,         \* the id its INSERT comes to next
    inserted,   \* the ids its INSERT has inserted and not committed
    rows,       \* rows[t]: the committed ids
    reltuples,  \* what the last ANALYZE counted, or -1
    options     \* the tables with the lab's storage parameters

local == <<pc, alive, table, start, last, at, inserted>>
vars == <<local, rows, reltuples, options>>

Statements == {"count", "insert", "analyze", "throttle", "friendly"}

TypeOK ==
    /\ pc \in [Seeders -> Statements \cup {"wait", "ready", "over"}]
    /\ alive \in [Seeders -> BOOLEAN]
    /\ table \in [Seeders -> Tables]
    /\ start \in [Seeders -> Nat \ {0}]
    /\ last \in [Seeders -> Nat]
    /\ at \in [Seeders -> Nat \ {0}]
    /\ inserted \in [Seeders -> SUBSET (Nat \ {0})]
    /\ rows \in [Tables -> SUBSET (Nat \ {0})]
    /\ reltuples \in [Tables -> Int]
    /\ options \subseteq {Sessions, Events}

\* A table that does not exist is the empty one.
Init ==
    /\ pc = [p \in Seeders |-> "wait"]
    /\ alive = [p \in Seeders |-> TRUE]
    /\ table = [p \in Seeders |-> 1]
    /\ start = [p \in Seeders |-> 1]
    /\ last = [p \in Seeders |-> 0]
    /\ at = [p \in Seeders |-> 1]
    /\ inserted = [p \in Seeders |-> {}]
    /\ \E n \in [Tables -> Found] : rows = [t \in Tables |-> 1 .. n[t]]
    /\ reltuples = [t \in Tables |-> -1]
    /\ options = {}

\* The statement is executed: a process that is gone sends no other.
Proceed(p, statement) == pc' = [pc EXCEPT ![p] = IF alive[p] THEN statement ELSE "over"]

-----------------------------------------------------------------------------
(* waitForPostgres: until PostgreSQL answers, or ReadyWait has passed.     *)

WaitForPostgres(p) ==
    /\ pc[p] = "wait" /\ alive[p]
    /\ Proceed(p, "count")
    /\ UNCHANGED <<alive, table, start, last, at, inserted, rows, reltuples, options>>

WaitFails(p) ==
    /\ pc[p] = "wait"
    /\ pc' = [pc EXCEPT ![p] = "over"]
    /\ alive' = [alive EXCEPT ![p] = FALSE]
    /\ UNCHANGED <<table, start, last, at, inserted, rows, reltuples, options>>

-----------------------------------------------------------------------------
(* seed *)

Existing(p) == Cardinality(rows[table[p]])

Remaining(p) == IF Rows[table[p]] < Existing(p) THEN 0 ELSE Rows[table[p]] - Existing(p)

\* Fault: the resumed insert starts one row early and ends one row early.
CountOffByOne(p) ==
    /\ pc[p] = "count"
    /\ last' = [last EXCEPT ![p] = Existing(p) + Remaining(p) - 1]
    /\ start' = [start EXCEPT ![p] = Existing(p)]
    /\ at' = [at EXCEPT ![p] = Existing(p)]
    /\ Proceed(p, IF Remaining(p) > 1 THEN "insert" ELSE "analyze")
    /\ UNCHANGED <<alive, table, inserted, rows, reltuples, options>>

\* Fault: counts again at every restart, and adds Rows to what is there.
CountAgain(p) ==
    /\ pc[p] = "count"
    /\ last' = [last EXCEPT ![p] = Existing(p) + Rows[table[p]]]
    /\ start' = [start EXCEPT ![p] = Existing(p) + 1]
    /\ at' = [at EXCEPT ![p] = Existing(p) + 1]
    /\ Proceed(p, "insert")
    /\ UNCHANGED <<alive, table, inserted, rows, reltuples, options>>

\* CREATE TABLE IF NOT EXISTS and the row count. The ids to insert are the ones after the
\* rows counted.
Count(p) ==
    /\ pc[p] = "count"
    /\ last' = [last EXCEPT ![p] = Existing(p) + Remaining(p)]
    /\ start' = [start EXCEPT ![p] = Existing(p) + 1]
    /\ at' = [at EXCEPT ![p] = Existing(p) + 1]
    /\ Proceed(p, IF Remaining(p) > 0 THEN "insert" ELSE "analyze")
    /\ UNCHANGED <<alive, table, inserted, rows, reltuples, options>>

\* chunks: every chunk but the last has ChunkSize rows.
ChunkEnd(p) == IF start[p] + ChunkSize - 1 > last[p] THEN last[p] ELSE start[p] + ChunkSize - 1

InsertedElsewhere(p, id) ==
    \E q \in Seeders \ {p} : table[q] = table[p] /\ id \in inserted[q]

\* One row of INSERT ... ON CONFLICT DO NOTHING (external): waits for a session that
\* has inserted the id and not committed, skips an id that is committed.
InsertRow(p) ==
    /\ pc[p] = "insert"
    /\ at[p] <= ChunkEnd(p)
    /\ ~InsertedElsewhere(p, at[p])
    /\ inserted' = [inserted EXCEPT ![p] = @ \cup ({at[p]} \ rows[table[p]])]
    /\ at' = [at EXCEPT ![p] = @ + 1]
    /\ UNCHANGED <<pc, alive, table, start, last, rows, reltuples, options>>

Commit(p) ==
    /\ rows' = [rows EXCEPT ![table[p]] = @ \cup inserted[p]]
    /\ inserted' = [inserted EXCEPT ![p] = {}]

\* Fault: the next chunk is the same chunk.
InsertChunkRepeats(p) ==
    /\ pc[p] = "insert"
    /\ at[p] > ChunkEnd(p)
    /\ Commit(p)
    /\ at' = [at EXCEPT ![p] = start[p]]
    /\ Proceed(p, "insert")
    /\ UNCHANGED <<alive, table, start, last, reltuples, options>>

\* The INSERT commits on its own; the next chunk follows, or ANALYZE.
InsertChunk(p) ==
    /\ pc[p] = "insert"
    /\ at[p] > ChunkEnd(p)
    /\ Commit(p)
    /\ start' = [start EXCEPT ![p] = ChunkEnd(p) + 1]
    /\ Proceed(p, IF ChunkEnd(p) < last[p] THEN "insert" ELSE "analyze")
    /\ UNCHANGED <<alive, table, last, at, reltuples, options>>

Analyze(p) ==
    /\ pc[p] = "analyze"
    /\ reltuples' = [reltuples EXCEPT ![table[p]] = Cardinality(rows[table[p]])]
    /\ IF alive[p] /\ table[p] < NTables
       THEN /\ table' = [table EXCEPT ![p] = @ + 1]
            /\ Proceed(p, "count")
       ELSE /\ Proceed(p, "throttle")
            /\ UNCHANGED table
    /\ UNCHANGED <<alive, start, last, at, inserted, rows, options>>

\* throttleSessionsSQL, friendlyEventsSQL
Throttle(p) ==
    /\ pc[p] = "throttle"
    /\ options' = options \cup {Sessions}
    /\ Proceed(p, "friendly")
    /\ UNCHANGED <<alive, table, start, last, at, inserted, rows, reltuples>>

Friendly(p) ==
    /\ pc[p] = "friendly"
    /\ options' = options \cup {Events}
    /\ Proceed(p, "ready")
    /\ UNCHANGED <<alive, table, start, last, at, inserted, rows, reltuples>>

\* Fault: the error of a statement is ignored and the next chunk tried.
FailGoesOn(p) ==
    /\ pc[p] \in Statements
    /\ inserted' = [inserted EXCEPT ![p] = {}]
    /\ IF alive[p] /\ pc[p] = "insert" /\ ChunkEnd(p) < last[p]
       THEN /\ start' = [start EXCEPT ![p] = ChunkEnd(p) + 1]
            /\ at' = [at EXCEPT ![p] = ChunkEnd(p) + 1]
            /\ UNCHANGED <<pc, alive>>
       ELSE /\ pc' = [pc EXCEPT ![p] = "over"]
            /\ alive' = [alive EXCEPT ![p] = FALSE]
            /\ UNCHANGED <<start, at>>
    /\ UNCHANGED <<table, last, rows, reltuples, options>>

\* The statement fails, or the server ends the session of a process that is gone:
\* what is not committed is lost. `seed` returns the error.
Fail(p) ==
    /\ pc[p] \in Statements
    /\ inserted' = [inserted EXCEPT ![p] = {}]
    /\ pc' = [pc EXCEPT ![p] = "over"]
    /\ alive' = [alive EXCEPT ![p] = FALSE]
    /\ UNCHANGED <<table, start, last, at, rows, reltuples, options>>

\* SIGTERM, SIGKILL, a lost connection: the server goes on with the statement it has.
Stop(p) ==
    /\ pc[p] \in Statements /\ alive[p]
    /\ alive' = [alive EXCEPT ![p] = FALSE]
    /\ UNCHANGED <<pc, table, start, last, at, inserted, rows, reltuples, options>>

-----------------------------------------------------------------------------

Statement(p) ==
    \/ Count(p) \/ InsertRow(p) \/ InsertChunk(p) \/ Analyze(p) \/ Throttle(p) \/ Friendly(p)

Finished == (\A p \in Seeders : pc[p] \in {"ready", "over"}) /\ UNCHANGED vars

Next ==
    \/ \E p \in Seeders : WaitForPostgres(p) \/ WaitFails(p) \/ Statement(p) \/ Fail(p) \/ Stop(p)
    \/ Finished

Spec == Init /\ [][Next]_vars

\* The wait is bounded by ReadyWait, and the server executes what it can.
Fairness == \A p \in Seeders : WF_vars(WaitForPostgres(p)) /\ WF_vars(Statement(p))

FairSpec == Spec /\ Fairness

-----------------------------------------------------------------------------
\* The ids of a table are 1 .. the row count, whichever processes died at whichever
\* statement: that is what makes the row count the place to resume at.
NoHoles == \A t \in Tables : rows[t] = 1 .. Cardinality(rows[t])

\* Seeding with restarts, orphaned statements and several processes at a time does what one
\* undisturbed seeder would: no step takes rows away, leaves an id out or adds to a table
\* more than Rows rows, and "lab ready" is said of full tables only.
Filling == INSTANCE SeededTables WITH announced <- {p \in Seeders : pc[p] = "ready"}

Implements == Filling!Spec

\* A process that has reported "lab ready" has left every table filled, analyzed at its
\* full size, and the two tables with their parameters: also when others seeded with it.
LabReady == \A p \in Seeders : pc[p] = "ready" =>
    /\ \A t \in Tables : 1 .. Rows[t] \subseteq rows[t] /\ reltuples[t] >= Rows[t]
    /\ options = {Sessions, Events}

\* Every process comes to an end of its seeding: two that insert the same rows wait for
\* each other's transactions, never in a circle.
SeedingEnds == \A p \in Seeders : <>(pc[p] \in {"ready", "over"})
=============================================================================
