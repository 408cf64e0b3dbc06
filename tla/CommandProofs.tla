--------------------------- MODULE CommandProofs ---------------------------
(***************************************************************************)
(* Proofs about Command, for any files, environments and flags, any limits *)
(* and any interleaving of the run with signals and the cluster.           *)
(***************************************************************************)
EXTENDS Command, TLAPS

Connected == {"service", "cluster", "defaults", "rows", "xacts", "progress", "render", "close"}

\* Where the run is tells whether it is connected, and that the configuration is valid if so.
ConnIsPc ==
    /\ pc \in {"start", "validate", "open", "lab"} => conn = "new"
    /\ pc = "open" \/ conn # "new" => command # "lab"
    /\ pc = "lab" => command = "lab"
    /\ pc \in Connected => conn = "open"
    /\ pc \in {"exit", "done"} => conn # "open"
    /\ conn # "new" \/ pc \in {"open", "lab"} => Accepted
    /\ err \in {"arguments", "load"} => conn = "new"
    /\ err = "run" => conn = "new" /\ command = "lab"

\* What failed tells what is known of the configuration, and whether there is a report.
ErrIsCause ==
    /\ pc = "start" \/ err \in {"arguments", "load"}
         => cfg = IF command = "lab" THEN LabDefaults ELSE Defaults
    /\ command = "lab" /\ pc # "start" => (err = "load" <=> ~LabLoads(input.env))
    /\ pc \notin {"close", "exit", "done"} => err = "none" /\ ~written
    /\ pc \notin {"start", "validate"} => (err = "invalid" <=> ~Accepted)
    /\ pc \in {"close", "exit", "done"} /\ command # "lab" => (written <=> err = "none")
    /\ command = "lab" => ~written
    /\ pc \in {"close", "exit", "done"} /\ command = "lab" /\ err = "none" => interrupted
    /\ pc = "done" => exit = ExitStatus

\* Between the two reads the history holds what the report may be made of.
HistoryCovers ==
    pc = "rows" =>
        /\ default # Unread
        /\ Obeyed(server, table) \in inForce
        /\ "server" \notin moved => default = ParseCostLimit(server)
        /\ table = Unset /\ moved # {"server", "table"} => default \in inForce \cup {0}

IInv == TypeOK /\ ConnIsPc /\ ErrIsCause /\ HistoryCovers

-----------------------------------------------------------------------------

\* The defaults of config.Defaults pass Validate.
LEMMA DefaultsAreValid == Valid(Defaults)
BY CommandAssumption
   DEF Valid, ValidPostgres, ValidLog, ValidAssess, ValidTuner, ValidDoctor, Positive, \prec,
       \preceq, Defaults, PenaltyKeys

\* And those of loadgen.Defaults pass its own.
LEMMA LabDefaultsAreValid == LabValid(LabDefaults)
<1> DEFINE c == LabDefaults
<1>1. /\ c.orders_rows > 0 /\ c.sessions_rows > 0 /\ c.events_rows > 0 /\ c.customers_rows > 0
      /\ c.orders_payload > 0 /\ c.sessions_payload > 0
      /\ c.events_payload > 0 /\ c.customers_payload > 0
  BY SMT DEF LabDefaults
<1>2. c["orders"] # "" /\ c["sessions"] # "" /\ c["events"] # "" /\ c["customers"] # ""
  BY SMT DEF LabDefaults
<1>3. /\ c.connect_timeout > 0 /\ c.retry_interval > 0 /\ c.ready_wait > 0
      /\ c.schema # "" /\ c.chunk_size > 0 /\ c.app_prefix # ""
  BY SMT DEF LabDefaults
<1>4. ValidTraffic(c)
  BY SMT DEF LabDefaults, ValidTraffic
<1>5. ValidParameters(c)
  BY SMT DEF LabDefaults, ValidParameters
<1> HIDE DEF c
<1>6. ValidTables(c)
  BY <1>1, <1>2 DEF ValidTables, LabTables, LabRows, LabPayload
<1>7. LabValid(c)
  BY <1>3, <1>4, <1>5, <1>6 DEF LabValid
<1>8. QED
  BY <1>7 DEF c

LEMMA AcceptsDefaults ==
    cfg = (IF command = "lab" THEN LabDefaults ELSE Defaults) => Accepted
BY DefaultsAreValid, LabDefaultsAreValid DEF Accepted

LEMMA AcceptedStays == UNCHANGED <<command, cfg>> => Accepted' = Accepted
BY DEF Accepted

\* parseCostLimit gives a natural number, and what autovacuum obeys but for a 0.
LEMMA ParsedIsObeyed ==
    ASSUME NEW s \in ServerLimits
    PROVE  /\ ParseCostLimit(s) \in Nat
           /\ ParseCostLimit(s) = Obeyed(s, Unset) \/ ParseCostLimit(s) = 0
BY CommandAssumption DEF ParseCostLimit, Obeyed

LEMMA ObeyedType ==
    ASSUME NEW s \in ServerLimits, NEW t \in TableLimits \cup {Unset, Missing}
    PROVE  Obeyed(s, t) \in Nat \cup {Missing}
BY CommandAssumption DEF Obeyed

-----------------------------------------------------------------------------

LEMMA InitIInv == Init => IInv
BY CommandAssumption
   DEF Init, IInv, TypeOK, ConnIsPc, ErrIsCause, HistoryCovers, Connected

LEMMA StepIInv == IInv /\ [Next]_vars => IInv'
<1> SUFFICES ASSUME IInv, [Next]_vars PROVE IInv'
  OBVIOUS
<1> USE AcceptedStays DEF IInv, TypeOK, ConnIsPc, ErrIsCause, HistoryCovers, Connected,
            asked, settings, ending, run, cluster, world, history, Goto
<1>1. CASE WrongArguments
  BY <1>1, AcceptsDefaults DEF WrongArguments, Fail, ExitStatus
<1>2. CASE LoadConfig
  BY <1>2 DEF LoadConfig, ExitStatus
<1>3. CASE LoadFails
  BY <1>3, AcceptsDefaults DEF LoadFails, Fail, ExitStatus
<1>4. CASE Validate
  BY <1>4 DEF Validate, Fail, ExitStatus
<1>5. CASE Open
  BY <1>5 DEF Open, ExitStatus
<1>6. CASE OpenFails
  BY <1>6 DEF OpenFails, Fail, ExitStatus
<1>7. CASE NewService
  BY <1>7 DEF NewService, FailOpen, ExitStatus, Accepted
<1>8. CASE ClusterSettings
  BY <1>8 DEF ClusterSettings, Answered, ExitStatus
<1>9. CASE TableDefaults
  <2>1. /\ Obeyed(server, table) \in Nat \cup {Missing}
        /\ ParseCostLimit(server) \in Nat
        /\ table = Unset => ParseCostLimit(server) \in {Obeyed(server, table), 0}
    BY ParsedIsObeyed, ObeyedType
  <2>2. Unread \notin Nat
    BY CommandAssumption
  <2>3. QED
    BY <1>9, <2>1, <2>2 DEF TableDefaults, Answered, ExitStatus
<1>10. CASE TableSnapshots
  BY <1>10, CommandAssumption DEF TableSnapshots, Answered, FailOpen, ApplyReloptions, Commands, ExitStatus
<1>11. CASE LongTransactions
  BY <1>11 DEF LongTransactions, Answered, ExitStatus
<1>12. CASE VacuumProgress
  BY <1>12 DEF VacuumProgress, Answered, ExitStatus
<1>13. CASE ReadFails
  BY <1>13 DEF ReadFails, FailOpen, Reading, ExitStatus
<1>14. CASE Render
  BY <1>14 DEF Render, ExitStatus
<1>15. CASE RenderFails
  BY <1>15 DEF RenderFails, FailOpen, ExitStatus
<1>16. CASE Close
  BY <1>16 DEF Close, ExitStatus
<1>17. CASE Exit
  BY <1>17 DEF Exit, ExitStatus
<1>18. CASE Interrupt
  BY <1>18 DEF Interrupt, ExitStatus
<1>19. CASE Hang
  BY <1>19 DEF Hang, ExitStatus
<1>20. CASE Reload
  <2>1. server' \in ServerLimits /\ table' = table /\ default' = default
    BY <1>20 DEF Reload
  <2>2. Obeyed(server', table') \in Nat \cup {Missing}
    BY <2>1, ObeyedType
  <2>3. TypeOK'
    BY <1>20, <2>1, <2>2 DEF Reload, Note
  <2>4. HistoryCovers'
    <3>1. CASE pc = "rows"
      <4>1. /\ inForce' = inForce \cup {Obeyed(server', table')}
            /\ moved' = moved \cup {"server"}
        BY <1>20, <3>1 DEF Reload, Note
      <4>2. QED
        BY <2>1, <3>1, <4>1
    <3>2. CASE pc # "rows"
      BY <1>20, <3>2 DEF Reload
    <3>3. QED
      BY <3>1, <3>2
  <2>5. QED
    BY <1>20, <2>3, <2>4 DEF Reload, ExitStatus
<1>21. CASE Alter
  <2>1. table' \in TableLimits \cup {Unset, Missing} /\ server' = server /\ default' = default
    BY <1>21 DEF Alter
  <2>2. /\ Obeyed(server', table') \in Nat \cup {Missing}
        /\ table' = Unset => ParseCostLimit(server') \in {Obeyed(server', table'), 0}
    BY <2>1, ObeyedType, ParsedIsObeyed
  <2>3. TypeOK'
    BY <1>21, <2>1, <2>2, ZenonT(30) DEF Alter, Note
  <2>4. HistoryCovers'
    <3>1. CASE pc = "rows"
      <4>1. /\ inForce' = inForce \cup {Obeyed(server', table')}
            /\ moved' = moved \cup {"table"}
        BY <1>21, <3>1 DEF Alter, Note
      <4>2. QED
        BY <2>1, <2>2, <3>1, <4>1
    <3>2. CASE pc # "rows"
      BY <1>21, <3>2 DEF Alter
    <3>3. QED
      BY <3>1, <3>2
  <2>5. QED
    BY <1>21, <2>3, <2>4 DEF Alter, ExitStatus
<1>22. CASE LoadLabConfig
  BY <1>22 DEF LoadLabConfig, ExitStatus
<1>23. CASE LabStops
  BY <1>23 DEF LabStops, ExitStatus
<1>24. CASE LabFails
  BY <1>24 DEF LabFails, Fail, ExitStatus
<1>25. CASE UNCHANGED vars
  BY <1>25 DEF vars, ExitStatus
<1>26. QED
  BY <1>1, <1>2, <1>3, <1>4, <1>5, <1>6, <1>7, <1>8, <1>9, <1>10, <1>11, <1>12, <1>13,
     <1>14, <1>15, <1>16, <1>17, <1>18, <1>19, <1>20, <1>21,
     <1>22, <1>23, <1>24, <1>25 DEF Next, Pgav, Prepare, Read, Lab, Finished

THEOREM InvariantHolds == Spec => []IInv
<1>1. Init => IInv
  BY InitIInv
<1>2. IInv /\ [Next]_vars => IInv'
  BY StepIInv
<1>3. QED
  BY <1>1, <1>2, PTL DEF Spec

\* Every variable stays of its type; the cost limits read are natural numbers although
\* postgresql.conf may hold -1.
THEOREM TypeCorrect == Spec => []TypeOK
<1>1. IInv => TypeOK
  BY DEF IInv
<1>2. QED
  BY <1>1, InvariantHolds, PTL

\* No server is reached under a configuration that Validate rejects.
THEOREM NothingBeforeValidationHolds == Spec => []NothingBeforeValidation
<1>1. IInv => NothingBeforeValidation
  BY DEF IInv, TypeOK, ConnIsPc, ErrIsCause, Connected, NothingBeforeValidation
<1>2. QED
  BY <1>1, InvariantHolds, PTL

\* The exit status of cmd/pgav tells a rejected configuration, a report and the rest apart.
THEOREM ExitSaysWhatHolds == Spec => []ExitSaysWhat
<1>1. IInv => ExitSaysWhat
  BY DEF IInv, TypeOK, ErrIsCause, ExitSaysWhat, ExitStatus
<1>2. QED
  BY <1>1, InvariantHolds, PTL

\* The connection is closed on every way out of the command.
THEOREM ConnectionClosedHolds == Spec => []ConnectionClosed
<1>1. IInv => ConnectionClosed
  BY DEF IInv, ConnIsPc, ConnectionClosed
<1>2. QED
  BY <1>1, InvariantHolds, PTL

\* The settings reported were in force while they were read, unless both parts moved.
THEOREM SeenWasInForceHolds == Spec => SeenWasInForce
<1>1. ASSUME IInv, [Next]_vars, seen' # seen
      PROVE  seen' \in inForce \/ moved = {"server", "table"} \/ seen' = 0
  <2>1. TableSnapshots
    BY <1>1 DEF Next, Pgav, Prepare, Read, Lab, LoadLabConfig, LabStops, LabFails, Finished, vars, run, asked, settings, ending,
         WrongArguments, LoadConfig, LoadFails, Validate, Open, OpenFails, NewService,
         ClusterSettings, TableDefaults, LongTransactions, VacuumProgress, ReadFails, Render,
         RenderFails, Close, Exit, Interrupt, Hang, Reload, Alter
  <2>2. pc = "rows" /\ seen' = ApplyReloptions(table)
    BY <2>1 DEF TableSnapshots, Answered
  <2>3. QED
    BY <1>1, <2>2, CommandAssumption
       DEF IInv, TypeOK, HistoryCovers, ApplyReloptions, Obeyed
<1>2. IInv /\ [Next]_vars =>
        [seen' # seen => seen' \in inForce \/ moved = {"server", "table"} \/ seen' = 0]_vars
  BY <1>1
<1>3. QED
  BY <1>2, InvariantHolds, PTL DEF Spec, SeenWasInForce

-----------------------------------------------------------------------------
(* The layers of the configuration.                                        *)

LoadedIsLayers ==
    command # "lab" /\ pc # "start" /\ err \notin {"arguments", "load"} =>
        /\ Loads(input.file, input.env)
        /\ cfg = Over(FlagLayer(input.flags), Load(input.file, input.env))

LEMMA LayersInvariant == Spec => [](input \in Inputs /\ LoadedIsLayers)
<1>1. Init => input \in Inputs /\ LoadedIsLayers
  BY DEF Init, LoadedIsLayers
<1>2. IInv /\ (input \in Inputs /\ LoadedIsLayers) /\ [Next]_vars
        => (input \in Inputs /\ LoadedIsLayers)'
  BY DEF Next, Pgav, Prepare, Read, Lab, LoadLabConfig, LabStops, LabFails, Finished, vars, run, asked, settings, ending, LoadedIsLayers,
         Goto, Fail, FailOpen, IInv, ErrIsCause,
         WrongArguments, LoadConfig, LoadFails, Validate, Open, OpenFails, NewService,
         ClusterSettings, TableDefaults, TableSnapshots, LongTransactions, VacuumProgress,
         ReadFails, Reading, Answered, Render, RenderFails, Close, Exit, Interrupt, Hang, Reload, Alter
<1>3. QED
  BY <1>1, <1>2, InvariantHolds, PTL DEF Spec

\* Over takes the layer's value where the layer has one.
LEMMA OverPicks ==
    ASSUME NEW layer, NEW config, NEW k \in DOMAIN config
    PROVE  /\ DOMAIN Over(layer, config) = DOMAIN config
           /\ k \in DOMAIN layer => Over(layer, config)[k] = layer[k]
           /\ k \notin DOMAIN layer => Over(layer, config)[k] = config[k]
BY DEF Over

LEMMA LoadPicks ==
    ASSUME NEW file, NEW env, NEW k \in Keys
    PROVE  /\ DOMAIN Load(file, env) = Keys
           /\ k \in DOMAIN env => Load(file, env)[k] = env[k]
           /\ k \notin DOMAIN env /\ k \in DOMAIN file \ ZeroKeys(file)
                => Load(file, env)[k] = file[k]
           /\ k \notin DOMAIN env /\ k \notin DOMAIN file \ ZeroKeys(file)
                => Load(file, env)[k] = Defaults[k]
<1>1. k \in DOMAIN Defaults /\ DOMAIN Over(FileLayer(file), Defaults) = DOMAIN Defaults
  BY OverPicks DEF Keys
<1>2. DOMAIN FileLayer(file) = DOMAIN file \ ZeroKeys(file)
  BY DEF FileLayer, Without
<1>3. \A j \in DOMAIN FileLayer(file) : FileLayer(file)[j] = file[j]
  BY DEF FileLayer, Without
<1>4. /\ DOMAIN Load(file, env) = Keys
      /\ k \in DOMAIN env => Load(file, env)[k] = env[k]
      /\ k \notin DOMAIN env => Load(file, env)[k] = Over(FileLayer(file), Defaults)[k]
  BY <1>1, OverPicks DEF Load, Keys
<1>5. QED
  BY <1>1, <1>2, <1>3, <1>4, OverPicks

\* Every key given is obeyed in the order of the layers, zeros of the file apart.
THEOREM GivenIsObeyedHolds == Spec => []GivenIsObeyed
<1>1. input \in Inputs /\ LoadedIsLayers => GivenIsObeyed
  <2> SUFFICES ASSUME input \in Inputs, LoadedIsLayers, command # "lab",
                      pc \notin {"start", "validate"}, err \notin {"arguments", "load"},
                      NEW k \in Keys
               PROVE  cfg[k] = Given(k)
    BY DEF GivenIsObeyed
  <2>1. cfg = Over(FlagLayer(input.flags), Load(input.file, input.env))
    BY DEF LoadedIsLayers
  <2>2. CASE k \in DOMAIN FlagLayer(input.flags)
    <3>1. FlagLayer(input.flags)[k] = input.flags[k]
      BY <2>2 DEF FlagLayer, Without
    <3>2. QED
      BY <2>1, <2>2, <3>1, LoadPicks, OverPicks DEF Given
  <2>3. CASE k \notin DOMAIN FlagLayer(input.flags)
    <3>1. cfg[k] = Load(input.file, input.env)[k]
      BY <2>1, <2>3, LoadPicks, OverPicks
    <3>2. QED
      BY <2>3, <3>1, LoadPicks DEF Given
  <2>4. QED
    BY <2>2, <2>3
<1>2. QED
  BY <1>1, LayersInvariant, PTL

\* No penalty of a configuration that is accepted is zero.
THEOREM NothingIsFreeHolds == Spec => []NothingIsFree
<1>1. IInv /\ input \in Inputs /\ LoadedIsLayers => NothingIsFree
  <2> SUFFICES ASSUME IInv, input \in Inputs, LoadedIsLayers, conn # "new", NEW k \in PenaltyKeys
               PROVE  0 < cfg[k]
    BY DEF NothingIsFree
  <2>1. Valid(cfg) /\ command # "lab" /\ pc # "start" /\ err \notin {"arguments", "load"}
    BY DEF IInv, ConnIsPc, Accepted
  <2>2. k \in Keys /\ k \notin EnvKeys \cup LabEnvKeys /\ k \notin FlagKeys /\ k \notin TextKeys \cup DurationKeys
    BY DEF PenaltyKeys, Keys, Defaults, EnvKeys, LabEnvKeys, FlagKeys, TextKeys, DurationKeys
  <2>3. Defaults[k] \in Nat \ {0}
    <3>1. {Defaults.critical_penalty, Defaults.high_penalty, Defaults.warning_penalty,
           Defaults.long_xact_penalty, Defaults.wraparound_penalty} \subseteq Nat \ {0}
      BY SMT DEF Defaults
    <3>2. QED
      BY <3>1 DEF PenaltyKeys
  <2>4. k \notin DOMAIN input.env /\ k \notin DOMAIN FlagLayer(input.flags)
    BY <2>2, CommandAssumption DEF FlagLayer, Without
  <2>5. cfg[k] = Load(input.file, input.env)[k]
    BY <2>1, <2>2, <2>4, OverPicks, LoadPicks DEF LoadedIsLayers
  <2>6. CASE k \in DOMAIN input.file \ ZeroKeys(input.file)
    <3>1. cfg[k] = input.file[k]
      BY <2>2, <2>4, <2>5, <2>6, LoadPicks
    <3>2. input.file[k] \in Int /\ input.file[k] # 0
      <4>1. k \in NumberKeys /\ k \notin FloatKeys
        BY <2>2 DEF NumberKeys, FloatKeys, PenaltyKeys
      <4>2. input.file[k] \in Int
        BY <2>1, <2>6, <4>1, CommandAssumption DEF LoadedIsLayers, Loads, NumberTyped
      <4>3. QED
        BY <2>2, <2>6, <4>2 DEF ZeroKeys
    <3>3. ~(cfg[k] \prec 0)
      BY <2>1 DEF Valid, ValidDoctor
    <3>4. NaN \notin Int
      BY CommandAssumption
    <3>5. QED
      BY <3>1, <3>2, <3>3, <3>4 DEF \prec
  <2>7. CASE k \notin DOMAIN input.file \ ZeroKeys(input.file)
    BY <2>2, <2>3, <2>4, <2>5, <2>7, LoadPicks
  <2>8. QED
    BY <2>6, <2>7
<1>2. QED
  BY <1>1, InvariantHolds, LayersInvariant, PTL

-----------------------------------------------------------------------------
(* Coming to an end: what CommandEnds rests on besides fairness.           *)

\* The most calls a run has left at each of them.
CallsLeft ==
    CASE pc = "start" -> 12
      [] pc = "validate" -> 11
      [] pc = "open" -> 10
      [] pc = "service" -> 9
      [] pc = "cluster" -> 8
      [] pc = "defaults" -> 7
      [] pc = "rows" -> 6
      [] pc = "xacts" -> 5
      [] pc = "progress" -> 4
      [] pc = "render" -> 3
      [] pc = "close" -> 2
      [] pc = "lab" -> 2
      [] pc = "exit" -> 1
      [] pc = "done" -> 0

\* A run is at most twelve calls, the failures among them counted: nothing is tried again,
\* every step of the run lowers what is left, and no step of the server, and no signal,
\* raises it. Only pgav-docker waits to be interrupted.
THEOREM CommandIsShort ==
  Spec => [][/\ CallsLeft \in 0 .. 12
             /\ Pgav \/ Lab => CallsLeft' < CallsLeft
             /\ ~(Pgav \/ Lab) => CallsLeft' = CallsLeft
             /\ pc = "lab" => command = "lab"]_vars
<1>1. ASSUME TypeOK, TypeOK', [Next]_vars
      PROVE  /\ CallsLeft \in 0 .. 12
             /\ Pgav \/ Lab => CallsLeft' < CallsLeft
             /\ ~(Pgav \/ Lab) => CallsLeft' = CallsLeft
  <2>1. CallsLeft \in 0 .. 12
    BY <1>1 DEF TypeOK, CallsLeft
  <2>2. ASSUME Prepare PROVE CallsLeft' < CallsLeft
    BY <2>2 DEF Prepare, WrongArguments, LoadConfig, LoadLabConfig, LoadFails, Validate, Open,
         OpenFails, NewService, Goto, Fail, FailOpen, CallsLeft
  <2>3. ASSUME Read PROVE CallsLeft' < CallsLeft
    BY <2>3 DEF Read, ClusterSettings, TableDefaults, TableSnapshots, LongTransactions,
         VacuumProgress, ReadFails, Reading, Answered, Goto, FailOpen, CallsLeft
  <2>4. ASSUME Lab PROVE CallsLeft' < CallsLeft
    BY <2>4 DEF Lab, LabStops, LabFails, Goto, Fail, CallsLeft
  <2>5. ASSUME Render \/ RenderFails \/ Close \/ Exit PROVE CallsLeft' < CallsLeft
    BY <2>5 DEF Render, RenderFails, Close, Exit, Goto, FailOpen, CallsLeft
  <2>6. ASSUME ~(Pgav \/ Lab) PROVE CallsLeft' = CallsLeft
    <3>1. pc' = pc
      BY <1>1, <2>6 DEF Next, Interrupt, Hang, Reload, Alter, Finished, run, vars
    <3> QED
      BY <3>1 DEF CallsLeft
  <2> QED
    BY <2>1, <2>2, <2>3, <2>4, <2>5, <2>6 DEF Pgav
<1>2. IInv => TypeOK /\ (pc = "lab" => command = "lab")
  BY DEF IInv, ConnIsPc
<1> QED
  BY <1>1, <1>2, InvariantHolds, PTL DEF Spec
=============================================================================
