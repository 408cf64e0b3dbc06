# pgav: a verification development

pgav looks at PostgreSQL's statistics, judges for each table whether autovacuum keeps up
with the writes, and proposes storage parameters; `pgav tune --apply` executes the
proposals. Its companion `pgav-docker` seeds a lab database and keeps it under load. This
directory holds TLA+ specifications of both, the TLC configurations that check them, and
TLAPS proofs of their main properties. `PROJECT.json` maps every definition to the lines
it models.

    tlc -config TuneTwoRuns.cfg TuneApply       # any configuration below
    tlapm TuneApplyProofs.tla                   # any *Proofs module

## 1. The system

| part | code | state | operations | what can go wrong |
|---|---|---|---|---|
| tune protocol | `app/service.go`, `postgres/catalog.go`, `cli/commands.go`, `cli/root.go` | one connection, the transaction it has open, the batch computed | connect, four reads, BEGIN, one ALTER per table, COMMIT or ROLLBACK, report, close | other runs and a DBA between read and write, locks in no fixed order, one timeout over the transaction, lost answers, kill |
| race assessment | `domain/race.go`, `domain/types.go` | none | `Assess`, `classify` | boundaries, zero and -1 |
| tuner | `domain/recommend.go` | none, but each run reads what the last one wrote | `Recommend` | rounding, caps, oscillation |
| doctor | `domain/doctor.go`, `cli/render.go` | none | findings, penalties, score, next steps | one finding hiding another |
| lab seeding | `loadgen/run.go`, `loadgen/sql.go` | four tables | wait, create, count, insert in chunks, analyze, set parameters | restart on top of what a dead process left, and on its last statement |
| lab traffic | `loadgen/run.go` | an errgroup of three or four members, a connection each | update loops, one transaction held open | a member failing, cancellation, shutdown |
| commands | `app/service.go`, `postgres/catalog.go`, `cli/root.go`, `cli/commands.go`, `cmd/*` | one connection, the exit status | prepare, the reads of each command, report, cleanup, exit | settings that move between two reads, a server that hangs, a signal |
| configuration | `config/config.go`, `loadgen/config.go` | none | defaults, file, environment, flags, `Validate` | a zero that cannot be told from an absent key, NaN, what the other parts assume |
| rendering, logging, test double | `cli/render.go`, `observability`, `app/catalogfake` | none | | |

The parts meet in few places. `tune` runs `Assess` and `Recommend` on what the catalog
reads and hands the statements to `Catalog.Apply`. Runs of `tune`, the lab and the
database's other users share nothing but PostgreSQL: its committed settings, its row and
table locks and its sessions. The hard behaviour is there, in `Apply`, in `seed` and in
`generate`; the hard arithmetic is in `Recommend`.

What makes each part correct:

* **tune protocol**: a batch takes effect as a whole or not at all, at most once and only
  under `--apply`; the report is true; nobody's change is taken back by a statement that
  had no reason to name it; every run ends and releases its locks.
* **tuner**: I/O budget is only added, exactly as much as the documents promise, and one
  run is enough; under a workload that stays the same repeated runs come to rest.
* **lab seeding**: the row count is always a place to resume at; the lab is complete when
  it is reported ready.
* **doctor**: no finding hides a heavier one, a worse cluster never scores better, and the
  advice agrees with what `tune` would do.
* **commands and configuration**: what the user gave is what is used, or the run is refused
  before it reaches a server; an accepted configuration is all the other parts assume; a
  report is made of settings that were in force; every way out closes the connection and
  exits with the status that says what happened.
* **lab traffic**: no member stops quietly; the error reported is the cause; no connection
  is left open, and the row lock is released: at once when nothing failed, in the end
  whatever did.

## 2. Modules

| module | models | notes |
|---|---|---|
| `ReloptionBatch` | what an ALTER of `Recommendation.AlterSQL` changes, and what `Recommend` may propose | vocabulary of the next two |
| `AtomicBatch` | the promise of `pgav tune [--apply]` | abstract: compute, apply in one step, tell |
| `TuneApply` | `Service.Tune` and `Catalog.Apply`, any number of runs, and the server as they use it | implements `AtomicBatch` |
| `TuneReads` | `TuneApply` with what each run has read | a history variable, for one property |
| `TuneApplyProofs` | | proofs about `TuneApply` and `TuneReads` |
| `VacuumRace` | `Assess`, `classify` | ratios of integers |
| `Tuner` | `Recommend` and its helpers | extends `VacuumRace` |
| `TuneLoop` | one table under repeated `tune --apply` while its statistics move | composes `Tuner` with a workload, autovacuum, ANALYZE and resets of the statistics |
| `TunerProofs` | | proofs about `TuneLoop` |
| `TunerPromiseProofs` | | proofs: how much of the three promises the tuner breaks does hold |
| `SeededTables` | the promise of seeding | abstract: fill a table further, announce |
| `LabSeed` | `waitForPostgres` and `seed`, any number of processes | implements `SeededTables` |
| `LabSeedProofs` | | proofs |
| `LabTraffic` | `generate`, `updateLoop`, `holdLongTransaction` | |
| `LabTrafficProofs` | | proofs |
| `Doctor` | `domain.Doctor`, `nextSteps` | extends `Tuner` |
| `DoctorProofs` | | proofs |
| `Config`, `LabConfig` | `Defaults`, `Load` and `Validate` of pgav and of pgav-docker | no state: layers and conditions |
| `Command` | one run of `status`, `analyze`, `tune` or `doctor`, or of pgav-docker, from its configuration to its exit status | composes `Config` and `LabConfig` with the reads of the catalog |
| `AcceptedConfig` | `assessParams`, `tunerParams`, `doctorParams` | instantiates `Doctor` (and with it `Tuner` and `VacuumRace`) and `LabSeed` with the configuration of the run |
| `CommandProofs` | | proofs about `Command` |
| `AcceptedConfigProofs` | | proofs about `AcceptedConfig` |
| `MC...` | definitions for the configurations | |

### TuneApply

`pc[p]` is where a run is: `cluster`, `snaps`, `xacts` are the three reads of
`Service.Tune`, `begin`, `exec`, `commit`, `rollback` the requests of `Catalog.Apply`,
`render` and `close` the rest of the command. `wire[p]` holds the one request in flight or
its answer, so that every request takes three steps (sent, served, answered) and the query
timeout, SIGINT or a broken connection (`GiveUp`) may come between any two. The server
serves a request whether its sender is still there or not; a closed connection is noticed
some time later (`EndSession`). A transaction stages its ALTERs and holds one exclusive lock per table it altered until it ends. Other sessions lock and alter tables
at any time. A batch is any batch `ReloptionBatch!Recommend` allows for the settings read; which
one the statistics give is the business of `Tuner`.

`settings`, `author` and `landed` move only when the server executes COMMIT; the
refinement maps `applied` to `landed` and the other variables of `AtomicBatch` to those of
the same name. `TuneReads` remembers in `read` the settings each run has read, as long as
its batch may still be committed.

### VacuumRace, Tuner, TuneLoop

The code computes in float64. Here a rate is the pair (dead tuples generated, window), a
capacity is `limit * CapacityScale / delay`, and every comparison multiplies out, so that
each boundary is the one the formula has; a difference of the last binary digit is not
modelled. Scale factors are integers in units of 1/`ScaleUnit`, rounded half up as
`math.Round` does for the positive values that remain after clamping. Text is left out;
the reasons are kept, because two properties are about them.

`TuneLoop` starts from a table with any of the settings, before or after its first
ANALYZE, and lets hours of writes, vacuums, ANALYZE, resets of the statistics, changes of
the workload and runs of `tune --apply` follow in any order, for ever. `rows` is what the
table really holds; after a reset the statistics know of none until the next vacuum or
ANALYZE. When the window is full and its average is that of the present workload, further
hours (`SteadyHour`) only pile up dead tuples: the rate is a ratio and stays the same.

### LabSeed

`pc[p]` is the statement a process waits for *or the server still executes for it* after
it is gone (`alive[p]` false): this is the INSERT a restarted container meets. An INSERT
takes one step per row, waits for an id another open transaction has inserted, and commits
as a whole. A failure at any statement ends the process, as `seed` does; a restart is
another member of `Seeders`.

### LabTraffic

One `pc` per member. Every call takes the group's context and returns an error once it is
cancelled; Close runs under its own timeout; the rollback of the long transaction runs
under `context.WithoutCancel` and has none. Close drops its error and does not wait for the
server: `held`, the blocker's transaction, goes on until it is rolled back or the server
ends the session (`EndSession`), which may be after `generate` has returned. `err` is the first error reported to the group.
`failed` is a history variable: members that met a failure before any cancellation.

### Doctor

The report is a function of the assessments, the number of long transactions and whether
autovacuum is on; the state is those three, moving in any way between two calls. Which
table a line of advice names, the texts and the progress rows are left out.

### Config, LabConfig, Command, AcceptedConfig

A layer is a function from some keys to values; `Over` puts one on top of another. A file's
layer has lost its zeros (`ZeroKeys`), as the merge functions skip them, except in the three
durations, which are text in the file. A value is a number in the unit of its key, a text,
`Garbled` or, for the keys that are float64 in the code, `NaN` (`NumberTyped`, which is what
yaml, strconv and time.ParseDuration can return; infinity is left out); `\prec` and `\preceq` are Go's comparisons, false as soon as one side
is NaN, and the conditions of `Validate` are written as the code has them, as what is
*rejected*. A variable that is set to "" counts as absent, as `Load` has it.

`pc` is where the run of `Command` is; the reads are the queries in their order, and
`TableSnapshots` is two: the cluster settings once more, and the rows. `cost_limit` stands
for all settings: the server has one, the table may have its own, be dropped or created,
and both move between the reads. `err` is what failed, `exit` the status; `inForce` and
`moved` are history variables for one property. Any call may fail at any time for any
reason, so a failing server, a refused DSN, a timeout and an unknown table are one step
each. `tune --apply` goes on where `TuneApply` begins.

`AcceptedConfig` is where the modules meet: their assumptions (`RaceAssumption`,
`TunerAssumption`, `DoctorAssumption`, `SeedAssumption`) under the constants the code
would derive from the configuration. It speaks of *ordinary* configurations: no NaN, at
most six decimals, and a cost of a page at which one unit of cost limit still reclaims at
least one of the units capacities are counted in (the last is a bound of the model; the
defaults are far from it).

## 3. What the runs show

| run | configuration | states | shows |
|---|---|---|---|
| `tune_two_runs` | `TuneTwoRuns` | 2 runs, 2 tables, 1 option with 2 levels | `ToldTheTruth`, `LandedWhole`, and `Implements`: the protocol refines `AtomicBatch`; `FirstCommitRaises`: the first commit to a table nobody else altered lowers no cost limit; `Terminates` and `LocksReleased`, with opposite lock orders and a silent server |
| `tune_shared` | `TuneShared` | 2 runs and a DBA, 1 table, 2 options | `NothingPutBack`: an option that a commit changes is set to something else than its run has read, so a change somebody made in between is not taken back by an ALTER that names more than what differs; `Implements` with somebody else altering |
| `tune_loop` | `TuneLoop` | 2 sizes, 3 scale factors, 2 thresholds, limits 0, 200, 10000, delays 0, 2, 20, 4 rates, counters from before a restart, windows up to 2 h, dead tuples of up to 6 h | `CostLimitOnlyRaised`, `SmallestCoveringStep`, `OneRunCatchesUp`, `ThirdRunIsIdle`, `SettingsSettle` |
| `lab_seed` | `LabSeed` | 3 processes, 2 tables of 4 and 3 rows, chunks of 2, tables found empty or too large | `NoHoles`, `LabReady`, `SeedingEnds`, and `Implements`: seeding refines `SeededTables` |
| `doctor` | `Doctor` | 2 tables, 36 snapshots each, 2 long transactions | `WorseNeverScoresBetter`, `FullScoreMeansClean`, `WraparoundOutranks`, `TuneIsAdvised` |
| `lab_traffic` | `LabTraffic` | 3 updaters, the blocker | `NoQuietStop`, `ErrorIsCause`; `NothingLeft`: no connection is open at the end, and a return without an error has released the row lock; `GenerateReturns` if the last ROLLBACK is answered; `BlockerLetsGo`: a lock that outlives `generate` is released in the end |
| `command` | `Command` | 5 commands, 37 inputs, 3 server limits, one table with a limit of its own or none, or missing | `NothingBeforeValidation`, `ExitSaysWhat`, `ConnectionClosed`, `GivenIsObeyed`, `NothingIsFree`, `SeenWasInForce`, `CommandEnds`, and `AcceptedMeansAssumed`: what is proved about the other modules holds of every run that connects |

Each module has a type invariant among the properties of one run. Two runs and two tables
are the least that give lock-order inversions, batches that overlap in part and a plan that
is stale; a third run adds no interaction between two sessions, and the proofs do not
depend on the number. The quantities of `TuneLoop` are the defaults of `config.Defaults` in
units of 100 tuples, with `max_cost_limit` 5000 so that limits above the cap occur; rates
are none, one that any vacuum keeps up with, one that a throttled one does not, and one
that only the cap bounds. `MaxPileUp` is longer than `MaxHoursBetweenVacuum`, so that a
trigger on target is reached again and again. `CapacityScale` is scaled down to those rates, and `Carried` is
what the counters show when they outlived a restart that began the window anew. `MaxWindow`, `MaxPileUp`, `Found` and `OtherTables` are
bounds of the exploration and of nothing in the code; two hours are enough for an average
of two workloads, and `SettingsSettle` does not hold because of them: a reset begins the
window anew at any time. It speaks of a workload that changes no more. Without that premise
TLC finds settings that move for ever, as they do in the code: a quiet table's trigger is
late and the scale factor comes down, a busy one's is due (recommend.go:115) and it goes
up again. The row counts of `LabSeed` are not multiples of
each other or of the chunk size. The snapshots of `Doctor` give each reason of `classify` alone
where it can be alone and with the others; `max_score` is 60 so that the penalties reach
the lower bound. The files, environments and flags of `MCCommand` lie each at one boundary
of `Load` or `Validate`, on either side of it, and some on top of each other; the cluster
moves only between the connection and the read of the tables, where it matters. `WorseNeverScoresBetter` needs penalties in the order of the defaults:
`Config.Validate` would accept a `wraparound_penalty` below `critical_penalty`, and with it
a table near wraparound that also cannot keep up would score better than one that only
cannot keep up.

### Where documents and code differ

| run | configuration | shows |
|---|---|---|
| `tune_stale_plan` | `TuneStalePlan` | two runs: the second commits the lower `cost_limit` it computed before the first one committed; docs/race-model.md says `pgav tune` raises it |
| `tune_bounds` | `TuneBounds` | the scale factor is clamped to its bounds and rounded afterwards: with the bounds of config_test.go and two decimals, what is proposed is 0, below the minimum |
| `tune_late` | `TuneLate` | scale factor 0 with a high threshold: the scale factor is raised to the minimum, the threshold left, and the trigger that was too late gets later |
| `tune_no_change` | `TuneNoChange` | at `max_cost_limit`, "no change: vacuum can keep up with this table" about a table it cannot keep up with |
| `lab_hangs` | `LabHangs` | without an answer to the last ROLLBACK the interrupted generator never returns |

How far each disagreement goes is stated as well, and but for the last proved, so that the
counterexamples above are the only kind there is:

* `tune_stale_plan`: a plan can only be stale when somebody altered the table before;
  `FirstCommitRaises` holds (also checked in `tune_two_runs`).
* `tune_bounds`: when rounding to `scale_decimals` takes neither bound of the scale factor
  out of the bounds (`BoundsSurviveRounding`, true of the defaults), every proposal is
  within its bounds (`ProposalWithinBounds`).
* `tune_late`: a proposal that moves the trigger brings it to the dead tuples of
  `max_hours_between_vacuum`, up to the rounding, or is one of the two minima
  (`TriggerOnTarget`); a trigger that was late gets later only when what was found is below
  a minimum or has more decimals than are printed (`LateTriggerNotRaisedAboveMinima`).
* `tune_no_change`: a table without a change keeps up or has a limit of `max_cost_limit` or
  more (`NoChangeMeansDone`).
* `lab_hangs`: under `AnsweredSpec`, which differs in that ROLLBACK alone, the generator
  returns (`GenerateReturns`, checked in `lab_traffic`). This one is checked and not proved.

Smaller disagreements met while modelling, with no run of their own: docs/race-model.md says
`status` shows the rows of `pg_stat_progress_vacuum`, which `Service.Status` does not read;
`Validate` lets NaN through every range it names (config.go:373) and sets no upper bound on
`scale_decimals`, of which `formatScale` prints six, nor on `max_cost_limit`, of which
PostgreSQL accepts 10000; an unparsable variable is exit status 1 for pgav and 2 for
pgav-docker; `parsePGInterval` (catalog.go:441) has no unit for days, in which PostgreSQL
shows a naptime of '1d', so that every command fails on such a server.

## 4. Fairness

* `TuneApply!FairSpec`: a run takes its next step, which may be its timeout (connecting
  carries `connect_timeout`, each query `query_timeout`), and the server notices closed
  connections in the end. Close alone has no timeout (root.go:98): that it ends is assumed,
  as closing a connection sends its farewell without waiting for an answer. It is not assumed to serve any request, nor other
  sessions to release their locks.
* `LabSeed!FairSpec`: the wait for PostgreSQL is bounded by `ReadyWait`; the server executes
  a statement it can execute. `seed` sets no timeout, so without the second nothing ends.
* `LabTraffic!FairSpec`: a call under a cancelled context returns, Close has a timeout,
  `g.Wait` returns when all have, and the server notices a closed connection in the end
  (on which only `BlockerLetsGo` relies). `AnsweredSpec` adds that the last ROLLBACK is answered or
  its connection breaks.
* `Command!FairSpec`: a run takes a step it can take. It always can, because each
  query has a timeout that `Validate` has found to be positive; of Close, which has none,
  the same is assumed as for `TuneApply`. The server is not assumed to answer.
  pgav-docker runs until it is interrupted and is left out of `CommandEnds`.
* `SettingsSettle` of `TuneLoop` assumes no fairness; its premise is that the workload stays
  the same from some time on.

## 5. What is proved

For all values of the constants that satisfy the named assumptions
(`BatchAssumption`, `ApplyAssumption`, `RaceAssumption`, `TunerAssumption`,
`LoopAssumption`, `SeedAssumption`, `TrafficAssumption`, `DoctorAssumption`,
`CommandAssumption`: the conditions of `Config.Validate`, and that model
values differ):

* **TuneApplyProofs**. `ToldTheTruth`, `LandedWhole` and `TypeOK` are invariants, and
  `Spec => Implements`. The first two are not inductive: whether a commit is whole depends on what the
  server will do with a request whose sender has forgotten it. The inductive invariant
  `IInv` therefore ties the run's place, the request or answer in flight, the session's
  state and what it staged: a run that has an answer to its ALTER has it staged; a session
  that is asked to commit has exactly the batch staged; a run that has come to `render` under
  `--apply` has landed.
  The refinement maps `SrvCommit` to `ApplyBatch`, and needs that the tables staged are the
  targets and, by the conjunct `StagedIsCurrent`, that the values staged are what `AlterSQL` makes of
  the settings *at commit*. `FirstCommitRaises` needs, of a run that read a table before
  anybody altered it, that what it proposes was computed from the limit the table still has.
  `NothingPutBack` needs that a batch is what `Recommend` may propose for the settings in
  `read`, and stays so until it is committed.
  `RunsAreShort` is the part of `Terminates` that is not fairness: a run of `n` tables takes
  at most `2n + 10` steps of its own, whatever the server and the others do, since each
  of its steps (and none of theirs) decreases `StepsLeft`.
* **TunerProofs**. `TypeOK`, `CostLimitOnlyRaised`, `SmallestCoveringStep`,
  `OneRunCatchesUp` and `ThirdRunIsIdle`. Lemmas on `RoundUpTo` (least multiple not below), `CeilDiv` and
  `AtMost` carry the argument; a run's statistics need only be of their type.
* **TunerPromiseProofs**. `ProposalWithinBounds` (under `BoundsSurviveRounding`),
  `TriggerOnTarget`, `LateTriggerNotRaisedAboveMinima` and `NoChangeMeansDone`, described
  above. They rest on the error of `RoundDiv`, at most half a unit, and on its being
  monotone: rounding a clamped scale factor keeps its order to a bound rounded likewise.
* **LabSeedProofs**. `TypeOK`, `NoHoles`, `LabReady` and `Spec => Implements`, for any number of
  processes, tables and chunk sizes. The invariant: the committed ids of a table are an
  initial segment; the chunk a process inserts begins at the end of that segment or before
  it and no id of it is left out up to the one it is at; what a process has behind it is
  done, whoever did it. The refinement maps the chunk that is committed to `Fill`, unless it
  changes nothing, and the last step of a process to `Announce`.
  Two more are what `SeedingEnds` rests on besides fairness. `NeverACircle`: a process that
  has not ended has a step towards its end, or waits for a row while a process further along
  in the same table has one. Whoever waits for a row waits for a process whose INSERT is past
  that row, and `at` is bounded by the row count, so that the furthest of those waited for
  waits for nobody. `SeedingIsShort`: a process takes at most `NTables * (2 * most + 2) + 4`
  steps for tables of at most `most` rows, whatever the others do.
* **LabTrafficProofs**. `TypeOK`, `NoQuietStop`, `ErrorIsCause`, `NothingLeft`, for any
  set of updaters, with the blocker or without. The invariant: a member about to close
  returns nil only when the context is done, and an error of its own unless it is; a blocker
  that leaves its transaction to the server returns an error, and from then on the group
  has one. `GroupWindsUp`: a done context stays done, and each step of a member brings it
  nearer to its end or is one more round of updates.
* **DoctorProofs**. `TypeOK`, `FullScoreMeansClean`, `WraparoundOutranks`,
  `TuneIsAdvised`, `WorseNeverScoresBetter`, for any number of tables. The score is a sum of
  counts, so that no fold has to be reasoned about: a worse cluster has, for each severity,
  at least as many findings at or above it. `FullScoreMeansClean` assumes that no penalty is
  0 and `WorseNeverScoresBetter` that they grow with the trouble; the first is
  `NothingIsFree`, the second holds of the defaults only.
* **CommandProofs**. `TypeOK`, `NothingBeforeValidation`, `ExitSaysWhat`, `ConnectionClosed`,
  `SeenWasInForce`, `GivenIsObeyed`, `NothingIsFree`, for any layers and any limits. The
  invariant says where `pc` is connected, that `err` and `written` agree with the
  configuration (which is why the defaults must be shown to be valid), and that `inForce`
  holds the cost limit the report would get now unless both settings moved.
  `CommandIsShort`: a run makes at most twelve calls, and none of them twice.
* **AcceptedConfigProofs**. `AcceptedMeansAssumed`: every ordinary configuration that
  `Validate` accepts satisfies the assumptions of the theorems above on the assessment, the
  tuner and the score, and pgav-docker's those on seeding. The invariant is that a
  configuration in use is the layers of the input over each other; the layers keep the type
  of each key, and then each clause of `RaceAssumption`, `TunerAssumption`,
  `DoctorAssumption` and `SeedAssumption` is a condition of `Validate` that did not reject.
  The lemmas are stated for one constant configuration and instantiated with that of the
  state.

Model-checked only: liveness (`Terminates`, `LocksReleased`, `SettingsSettle`,
`SeedingEnds`, `GenerateReturns`, `BlockerLetsGo`, `CommandEnds`), which is beyond the prover. What is proved
towards it is `RunsAreShort` for `Terminates`, `NeverACircle` and `SeedingIsShort` for
`SeedingEnds`, `GroupWindsUp` for `GenerateReturns`, and
`CommandIsShort` for `CommandEnds`: what remains is the fairness of section 4 and that the
guards are ENABLED. Every invariant and every action property of a passing run is proved.

## 6. Not modelled, and why

Parsing of GUCs, intervals and DSNs, the SQL text, the YAML syntax and the layout of reports
are text: they succeed or fail, with a value. `estimateImpact` feeds the report alone. What
the code does not look at is not there: a table's `autovacuum_enabled` or
`autovacuum_freeze_max_age`, keys of the file it does not know. The window of the statistics
is an input of `TuneLoop`. Float rounding is replaced by exact ratios, infinity is left out, and NaN exists in
`Config` alone: the arithmetic of `VacuumRace` and `Tuner` is that of numbers, which
`AcceptedMeansAssumed` says. Logging changes nothing; `catalogfake` is a test double, whose
`Apply` keeps what it executed before it fails, unlike the real one. The server is external:
it is modelled from how the code uses it, without its own deadlock detection being
guaranteed, nor its lock queue.

## 7. Plan

Done, in this order: the tune protocol and its refinement, the tuner, lab seeding, lab
traffic, doctor; then `ThirdRunIsIdle` and the properties of doctor for every value of the
constants, the commands and the configuration, the assumptions of the modules as a property
of the configuration accepted, and the refinement of seeding; then the boundary of each
divergence of the tuner and of the stale plan, `AcceptedMeansAssumed`, and the safety core
of `Terminates`, `SeedingEnds`, `GenerateReturns` and `CommandEnds`, as theorems. Left:

1. A composition of `LabSeed` and `TuneApply` on one table: the restarted lab undoes what
   `tune --apply` set on `sessions`.
2. Advice for every finding: `doctor` says "No action" when autovacuum is off and nothing
   else is wrong (render.go:299).
3. NaN through `Assess` and `Recommend`.
