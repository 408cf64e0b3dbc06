------------------------------ MODULE TuneReads ------------------------------
(***************************************************************************)
(* TuneApply with a history variable: the settings each run has read, from *)
(* which its batch was computed.  It changes no behaviour of TuneApply.    *)
(***************************************************************************)
EXTENDS TuneApply

VARIABLE read   \* read[p]: the settings TableSnapshots returned, or EmptyBatch

readVars == <<vars, read>>

\* The run has a batch that may still be committed.
MayCommit(p) == pc[p] \in {"xacts"} \cup Applying \/ wire[p] = "commit"

ReadInit == Init /\ read = [p \in Procs |-> EmptyBatch]

\* What was read is remembered as long as it matters.
ReadNext ==
    /\ Next
    /\ read' = [p \in Procs |-> IF ~MayCommit(p)' THEN EmptyBatch
                                ELSE IF pc[p] = "snaps" THEN settings ELSE read[p]]

ReadSpec == ReadInit /\ [][ReadNext]_readVars

\* Nobody's change is taken back: an option that a commit changes is set to something else
\* than its run has read. What another run or a DBA has set since stays, unless the run
\* found a different value there and had its own reason to change it. For that AlterSQL
\* must name the options that differ and no others, as the settings it would find when it
\* is executed need not be the ones it was computed from.
NothingPutBack ==
    [][\A p \in landed' \ landed, t \in Tables, o \in Options :
           settings'[t][o] # settings[t][o] =>
               read[p][t][o] \in Levels \ {settings'[t][o]}]_readVars
=============================================================================
