------------------------------- MODULE Doctor -------------------------------
(***************************************************************************)
(* domain.Doctor and cli.nextSteps: the findings, the score and the advice *)
(* `pgav doctor` gives about a cluster whose statistics, transactions and  *)
(* configuration change in any way between two calls.  A finding is its    *)
(* severity and its code; the texts are left out.                          *)
(***************************************************************************)
EXTENDS Tuner, FiniteSets

CONSTANTS
    Tables,
    Snapshots,   \* the snapshots a table may show (a bound)
    MaxXacts,    \* most long transactions at a time (a bound)
    MinScore, MaxScore,
    CriticalPenalty, HighPenalty, WarningPenalty, LongXactPenalty, WraparoundPenalty

\* config.Validate
ASSUME DoctorAssumption ==
    /\ IsFiniteSet(Tables)
    /\ Snapshots \subseteq TableSnapshot
    /\ MaxXacts \in Nat
    /\ MinScore \in Int /\ MaxScore \in Int /\ MinScore < MaxScore
    /\ {CriticalPenalty, HighPenalty, WarningPenalty, LongXactPenalty, WraparoundPenalty} \subseteq Nat

VARIABLES
    tables,   \* the snapshot of each table
    xacts,    \* number of long idle transactions
    enabled   \* ClusterSettings.AutovacuumEnabled

vars == <<tables, xacts, enabled>>

-----------------------------------------------------------------------------
(* Doctor *)

\* "freeze age is approaching wraparound" or "freeze age is high" is a reason.
FreezeAged(s) == Given(s, "wraparound critical") \/ Given(s, "freeze age high")

\* Fault: a table that cannot keep up is reported as such whatever its freeze age.
FindingCodeKeepUpFirst(s) ==
    IF ~KeepingUp(s) THEN "vacuum_cannot_keep_up"
    ELSE IF FreezeAged(s) THEN "wraparound"
    ELSE IF Given(s, "scale factor too large") THEN "scale_factor_too_large"
    ELSE "high_dead_ratio"

FindingCode(s) ==
    IF FreezeAged(s) THEN "wraparound"
    ELSE IF ~KeepingUp(s) THEN "vacuum_cannot_keep_up"
    ELSE IF Given(s, "scale factor too large") THEN "scale_factor_too_large"
    ELSE "high_dead_ratio"

FindingFromAssessment(s) == [severity |-> Risk(s), code |-> FindingCode(s)]

\* Fault: a warning counts as OK.
NeedAttentionAboveWarning == {t \in Tables : Risk(tables[t]) > RiskWarning}

NeedAttention == {t \in Tables : Risk(tables[t]) # RiskOK}

NearWraparound == {t \in NeedAttention : FindingCode(tables[t]) = "wraparound"}

\* Fault: only the codes about dead tuples are graded by severity.
GradedButScale(level) ==
    {t \in NeedAttention : /\ Risk(tables[t]) = level
                           /\ FindingCode(tables[t]) \notin {"wraparound", "scale_factor_too_large"}}

\* The tables whose finding is penalised by its severity: all but those with a code
\* that has a penalty of its own.
Graded(level) ==
    {t \in NeedAttention \ NearWraparound : FindingFromAssessment(tables[t]).severity = level}

\* The penalties of the findings about tables, and of all findings. A table has one finding.
TablePenalty ==
    Cardinality(NearWraparound) * WraparoundPenalty
    + Cardinality(Graded(RiskCritical)) * CriticalPenalty
    + Cardinality(Graded(RiskHigh)) * HighPenalty
    + Cardinality(Graded(RiskWarning)) * WarningPenalty

TotalPenalty ==
    TablePenalty + xacts * LongXactPenalty + (IF enabled THEN 0 ELSE CriticalPenalty)

\* Fault: no lower bound.
ScoreUnclamped == IF MaxScore - TotalPenalty > MaxScore THEN MaxScore ELSE MaxScore - TotalPenalty

Score == Clamp(MaxScore - TotalPenalty, MinScore, MaxScore)

\* nextSteps. The advice about one table names the first of its kind.
Advice ==
    (IF xacts > 0 THEN {"terminate idle transactions"} ELSE {})
    \cup (IF NearWraparound # {} THEN {"vacuum freeze"} ELSE {})
    \cup (IF NeedAttention # {} THEN {"analyze", "tune"} ELSE {})

\* Fault: a table that needs a freeze is no reason to tune.
NextStepsFreezeOnly ==
    LET steps == Advice \ (IF \A t \in NeedAttention : FreezeAged(tables[t]) THEN {"tune"} ELSE {})
    IN  IF steps = {} THEN {"no action"} ELSE steps

NextSteps == IF Advice = {} THEN {"no action"} ELSE Advice

-----------------------------------------------------------------------------
(* The cluster, between two calls (external).                              *)

TypeOK ==
    /\ tables \in [Tables -> Snapshots]
    /\ xacts \in 0 .. MaxXacts
    /\ enabled \in BOOLEAN
    /\ Score \in MinScore .. MaxScore

Init ==
    /\ tables \in [Tables -> Snapshots]
    /\ xacts = 0
    /\ enabled = TRUE

StatisticsMove(t) ==
    /\ \E s \in Snapshots : tables' = [tables EXCEPT ![t] = s]
    /\ UNCHANGED <<xacts, enabled>>

TransactionAges ==
    /\ xacts < MaxXacts
    /\ xacts' = xacts + 1
    /\ UNCHANGED <<tables, enabled>>

TransactionEnds ==
    /\ xacts > 0
    /\ xacts' = xacts - 1
    /\ UNCHANGED <<tables, enabled>>

Reload ==
    /\ enabled' = ~enabled
    /\ UNCHANGED <<tables, xacts>>

Next ==
    \/ \E t \in Tables : StatisticsMove(t)
    \/ TransactionAges \/ TransactionEnds \/ Reload

Spec == Init /\ [][Next]_vars

-----------------------------------------------------------------------------
\* s2 has every trouble s1 has, or a worse one of the same kind.
NoBetter(s1, s2) ==
    /\ \A r \in {"wraparound critical", "cannot keep up", "dead critical", "trigger exceeded",
                 "scale factor too large"} : Given(s1, r) => Given(s2, r)
    /\ FreezeAged(s1) => FreezeAged(s2)
    /\ Given(s1, "dead high") => Given(s2, "dead high") \/ Given(s2, "dead critical")

\* A cluster that got worse, and in nothing better, never scores higher: although a table
\* has one finding however many troubles it has, the one that is reported weighs at least
\* as much as those it hides.
WorseNeverScoresBetter ==
    [][/\ \A t \in Tables : NoBetter(tables[t], tables'[t])
       /\ xacts' >= xacts
       /\ enabled' => enabled
       => Score' <= Score]_vars

\* The full score is given only when there is nothing to find: no risk, no long
\* transaction, autovacuum on.
FullScoreMeansClean ==
    Score = MaxScore =>
        enabled /\ xacts = 0 /\ \A t \in Tables : \A r \in CriticalReasons \cup HighReasons \cup WarningReasons :
            ~Given(tables[t], r)

\* docs/race-model.md: wraparound outranks "cannot keep up". Whatever else is wrong with a
\* table near wraparound, it is found as that, and a freeze is advised.
WraparoundOutranks ==
    /\ \A t \in NeedAttention : FreezeAged(tables[t]) =>
           FindingFromAssessment(tables[t]).code = "wraparound"
    /\ "vacuum freeze" \in NextSteps <=> \E t \in Tables : tables[t].age >= WraparoundWarningPct

\* The two commands agree: whenever `pgav tune` would change a table, `pgav doctor`
\* sends its user there.
TuneIsAdvised ==
    (\E t \in Tables : Recommend(tables[t]) # tables[t].settings) => "tune" \in NextSteps
=============================================================================
