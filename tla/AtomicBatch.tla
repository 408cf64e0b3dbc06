---------------------------- MODULE AtomicBatch ----------------------------
(***************************************************************************)
(* What `pgav tune [--apply]` promises its user, with no sessions, locks,  *)
(* timeouts or messages: each run computes one batch from the settings it  *)
(* read; a run without --apply changes nothing; a run with --apply changes *)
(* every table of its batch in one step, or none; it says "applied" only   *)
(* of a batch that is in effect and "dry-run" only of one that never will  *)
(* be.  A run that fails promises less: its batch may be in effect, may    *)
(* take effect a little later, or may never do.                            *)
(***************************************************************************)
EXTENDS ReloptionBatch

VARIABLES
    settings,   \* settings[t]: the committed settings of table t
    author,     \* author[t]: the run that altered t last, or Other
    mode,       \* mode[p]: run p was given --apply
    batch,      \* batch[p]: the statements run p computed
    applied,    \* the runs whose batch took effect
    told        \* told[p]: what run p told its user

avars == <<settings, author, mode, batch, applied, told>>

AInit ==
    /\ settings \in [Tables -> VacuumSettings]
    /\ author = [t \in Tables |-> Other]
    /\ mode \in [Procs -> BOOLEAN]
    /\ batch = [p \in Procs |-> EmptyBatch]
    /\ applied = {}
    /\ told = [p \in Procs |-> "nothing"]

\* Run p computes its batch, once, from the settings in effect.
Compute(p) ==
    /\ batch[p] = EmptyBatch
    /\ told[p] = "nothing"
    /\ \E b \in Recommendations(settings) : batch' = [batch EXCEPT ![p] = b]
    /\ UNCHANGED <<settings, author, mode, applied, told>>

\* The whole batch of run p takes effect, at most once, and only under --apply.
ApplyBatch(p) ==
    /\ mode[p]
    /\ p \notin applied
    /\ told[p] \in {"nothing", "failed"}
    /\ settings' = [t \in Tables |-> AlterSQL(settings[t], batch[p][t])]
    /\ author' = [t \in Tables |-> IF t \in Targets(batch[p]) THEN p ELSE author[t]]
    /\ applied' = applied \cup {p}
    /\ UNCHANGED <<mode, batch, told>>

\* Run p tells its user how it ended, once.
Tell(p) ==
    /\ told[p] = "nothing"
    /\ \E answer \in {"applied", "dry-run", "failed"} :
        /\ answer = "applied" => p \in applied
        /\ answer = "dry-run" => p \notin applied
        /\ told' = [told EXCEPT ![p] = answer]
    /\ UNCHANGED <<settings, author, mode, batch, applied>>

\* Somebody else changes one table.
AlterByOther(t) ==
    /\ \E v \in VacuumSettings : settings' = [settings EXCEPT ![t] = v]
    /\ author' = [author EXCEPT ![t] = Other]
    /\ UNCHANGED <<mode, batch, applied, told>>

ANext ==
    \/ \E p \in Procs : Compute(p) \/ ApplyBatch(p) \/ Tell(p)
    \/ \E t \in Tables : AlterByOther(t)

ASpec == AInit /\ [][ANext]_avars
=============================================================================
