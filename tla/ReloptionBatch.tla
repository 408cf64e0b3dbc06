--------------------------- MODULE ReloptionBatch ---------------------------
(***************************************************************************)
(* The vocabulary `pgav tune` shares with PostgreSQL: what an ALTER TABLE  *)
(* ... SET (...) statement rendered by Recommendation.AlterSQL changes,    *)
(* and which statements domain.Recommend may propose for a table.          *)
(***************************************************************************)
EXTENDS Naturals

CONSTANTS
    Procs,      \* invocations of `pgav tune`
    Tables,     \* user tables
    Options,    \* autovacuum storage parameters the tuner writes
    CostLimit,  \* the option autovacuum_vacuum_cost_limit
    Levels,     \* the values an option takes
    Keep,       \* "this statement does not mention the option"
    Free,       \* no session holds the table's lock
    Other       \* some session that is not pgav: a DBA, an autovacuum worker

ASSUME BatchAssumption ==
    /\ CostLimit \in Options
    /\ Levels \subseteq Nat
    /\ Keep \notin Levels
    /\ Free \notin Procs /\ Other \notin Procs /\ Free # Other

\* VacuumSettings: the options in effect on one table.
VacuumSettings == [Options -> Levels]

\* A Recommendation as AlterSQL sees it: the options that differ, or Keep.
Statement == [Options -> Levels \cup {Keep}]

NoChange == [o \in Options |-> Keep]

\* Recommendation.Changed: some option is mentioned.
Changed(stmt) == stmt # NoChange

\* The effect of the rendered ALTER TABLE on the options it finds: the ones
\* it names are overwritten, the others stay as they are.
AlterSQL(old, stmt) ==
    [o \in Options |-> IF stmt[o] = Keep THEN old[o] ELSE stmt[o]]

\* Fault: the cost_limit needed is taken whatever the current one is.
RecommendUnchecked(old) == {stmt \in Statement : \A o \in Options : stmt[o] # old[o]}

\* Fault: the ALTER names every option of a table, the ones that stay as well.
RecommendEveryOption(old) ==
    {stmt \in VacuumSettings : stmt # old /\ stmt[CostLimit] >= old[CostLimit]} \cup {NoChange}

\* What Recommend may propose for a table it read with settings `old`: an
\* option it names differs from the value read, and a cost_limit it names is
\* above it (need > proposed.CostLimit).
Recommend(old) ==
    {stmt \in Statement :
        /\ \A o \in Options : stmt[o] # old[o]
        /\ stmt[CostLimit] # Keep => stmt[CostLimit] > old[CostLimit]}

\* The statements of one run: one per table, NoChange for a table without.
Batch == [Tables -> Statement]

EmptyBatch == [t \in Tables |-> NoChange]

\* The tables a batch alters: the ones Tune appends a statement for.
Targets(b) == {t \in Tables : Changed(b[t])}

\* Every batch one run of Tune may compute from the settings it read.
Recommendations(read) == {b \in Batch : \A t \in Tables : b[t] \in Recommend(read[t])}
=============================================================================
