---------------------------- MODULE DoctorProofs ----------------------------
(***************************************************************************)
(* Theorems about `pgav doctor` for any tables, snapshots and penalties    *)
(* config.Validate lets through.  Two of them need more of the penalties   *)
(* than Validate asks: that none is free, which holds although Validate    *)
(* would accept a 0 (Command!NothingIsFree), and that they grow with the   *)
(* trouble, which holds of the defaults and need not of a file.            *)
(***************************************************************************)
EXTENDS Doctor, FiniteSetTheorems, TLAPS

\* No trouble is free.
NothingFree == \A p \in {CriticalPenalty, HighPenalty, WarningPenalty, LongXactPenalty,
                         WraparoundPenalty} : p > 0

\* The penalties grow with the trouble.
PenaltiesGrow ==
    WarningPenalty <= HighPenalty /\ HighPenalty <= CriticalPenalty
    /\ CriticalPenalty <= WraparoundPenalty

-----------------------------------------------------------------------------
(* The findings about tables, counted.                                     *)

LEMMA PenaltyTypes ==
  /\ CriticalPenalty \in Nat /\ HighPenalty \in Nat /\ WarningPenalty \in Nat
  /\ LongXactPenalty \in Nat /\ WraparoundPenalty \in Nat
BY DoctorAssumption

\* A table needs attention when some reason is given, and its risk is a level.
LEMMA RiskLevels ==
  ASSUME NEW s
  PROVE  /\ Risk(s) \in {RiskOK, RiskWarning, RiskHigh, RiskCritical}
         /\ Risk(s) = RiskOK <=>
                \A r \in CriticalReasons \cup HighReasons \cup WarningReasons : ~Given(s, r)
         /\ Risk(s) = RiskCritical <=> \E r \in CriticalReasons : Given(s, r)
         /\ Risk(s) \in {RiskHigh, RiskCritical} <=>
                \E r \in CriticalReasons \cup HighReasons : Given(s, r)
BY DEF Risk, RiskOK, RiskWarning, RiskHigh, RiskCritical

\* A freeze age that is a reason makes a finding.
LEMMA FreezeAgedIsFound ==
  ASSUME NEW s
  PROVE  /\ FreezeAged(s) => Risk(s) # RiskOK
         /\ FindingCode(s) = "wraparound" <=> FreezeAged(s)
<1>1. FreezeAged(s) => Risk(s) # RiskOK
  BY RiskLevels DEF FreezeAged, CriticalReasons, WarningReasons
<1>2. FindingCode(s) = "wraparound" <=> FreezeAged(s)
  BY DEF FindingCode
<1> QED
  BY <1>1, <1>2

\* Sets of tables are finite, and a set of tables has no more members than one it is part of.
LEMMA Counting ==
  ASSUME NEW S, S \subseteq Tables
  PROVE  /\ IsFiniteSet(S) /\ Cardinality(S) \in Nat
         /\ S = {} <=> Cardinality(S) = 0
         /\ \A R \in SUBSET S : Cardinality(R) <= Cardinality(S)
<1>1. IsFiniteSet(S)
  BY FS_Subset, DoctorAssumption
<1> QED
  BY <1>1, FS_Subset, FS_CardinalityType, FS_EmptySet

-----------------------------------------------------------------------------
(* Types.                                                                  *)

\* The variables but for the score, which is a function of them.
VarsOK ==
    /\ tables \in [Tables -> Snapshots]
    /\ xacts \in 0 .. MaxXacts
    /\ enabled \in BOOLEAN

LEMMA VarsInvariant == Spec => []VarsOK
<1>1. Init => VarsOK
  BY DoctorAssumption DEF Init, VarsOK
<1>2. VarsOK /\ [Next]_vars => VarsOK'
  <2> SUFFICES ASSUME VarsOK, [Next]_vars PROVE VarsOK'
    OBVIOUS
  <2> USE DEF VarsOK
  <2>1. ASSUME NEW t \in Tables, StatisticsMove(t) PROVE VarsOK'
    BY <2>1 DEF StatisticsMove
  <2>2. CASE TransactionAges
    BY <2>2, DoctorAssumption DEF TransactionAges
  <2>3. CASE TransactionEnds
    BY <2>3, DoctorAssumption DEF TransactionEnds
  <2>4. CASE Reload
    BY <2>4 DEF Reload
  <2>5. CASE UNCHANGED vars
    BY <2>5 DEF vars
  <2> QED
    BY <2>1, <2>2, <2>3, <2>4, <2>5 DEF Next
<1> QED
  BY <1>1, <1>2, PTL DEF Spec

\* k things of weight w weigh more than nothing, unless there are none or they are free.
LEMMA Weighing ==
  ASSUME NEW k \in Nat, NEW w \in Nat
  PROVE  k * w \in Nat /\ (w > 0 /\ k > 0 => k * w > 0)
<1>1. k * w \in Nat
  BY Z3
<1>2. w > 0 /\ k > 0 => k * w > 0
  BY Z3
<1> QED
  BY <1>1, <1>2

\* Only nothing weighs nothing.
LEMMA SumIsZero ==
  ASSUME NEW a \in Nat, NEW b \in Nat, NEW c \in Nat, NEW d \in Nat, NEW e \in Nat,
         NEW f \in Nat, a + b + c + d + e + f = 0
  PROVE  a = 0 /\ b = 0 /\ c = 0 /\ d = 0 /\ e = 0 /\ f = 0
OBVIOUS

\* The sets of tables that are counted.
LEMMA CountedSets ==
  /\ NearWraparound \subseteq Tables
  /\ \A level : Graded(level) \subseteq Tables
BY DEF NearWraparound, Graded, NeedAttention

LEMMA PenaltyType ==
  ASSUME VarsOK
  PROVE  TablePenalty \in Nat /\ TotalPenalty \in Nat
<1>1. \A S \in SUBSET Tables, w \in Nat : Cardinality(S) * w \in Nat
  BY Counting, Weighing
<1>2. TablePenalty \in Nat
  <2> DEFINE a == Cardinality(NearWraparound) * WraparoundPenalty
             b == Cardinality(Graded(RiskCritical)) * CriticalPenalty
             c == Cardinality(Graded(RiskHigh)) * HighPenalty
             d == Cardinality(Graded(RiskWarning)) * WarningPenalty
  <2>1. a \in Nat /\ b \in Nat /\ c \in Nat /\ d \in Nat
    BY <1>1, CountedSets, PenaltyTypes
  <2>2. TablePenalty = a + b + c + d
    BY DEF TablePenalty
  <2> QED
    BY <2>1, <2>2
<1>3. xacts \in Nat /\ xacts * LongXactPenalty \in Nat
  BY PenaltyTypes, Weighing, DoctorAssumption DEF VarsOK
<1> QED
  BY <1>2, <1>3, PenaltyTypes DEF TotalPenalty

\* The score lies between min_score and max_score, however many findings there are.
THEOREM TypeCorrect == Spec => []TypeOK
<1>1. VarsOK => TypeOK
  BY PenaltyType, DoctorAssumption DEF VarsOK, TypeOK, Score, Clamp
<1> QED
  BY <1>1, VarsInvariant, PTL

-----------------------------------------------------------------------------
(* What one report says.                                                   *)

\* The full score means that there is nothing to find, when no trouble is free.
THEOREM FullScoreMeansCleanHolds ==
  ASSUME NothingFree
  PROVE  Spec => []FullScoreMeansClean
<1>1. VarsOK => FullScoreMeansClean
  <2> SUFFICES ASSUME VarsOK, Score = MaxScore
               PROVE  enabled /\ xacts = 0 /\ \A t \in Tables :
                        \A r \in CriticalReasons \cup HighReasons \cup WarningReasons :
                            ~Given(tables[t], r)
    BY DEF FullScoreMeansClean
  <2> DEFINE a == Cardinality(NearWraparound)
             b == Cardinality(Graded(RiskCritical))
             c == Cardinality(Graded(RiskHigh))
             d == Cardinality(Graded(RiskWarning))
  <2>1. TotalPenalty = 0
    BY PenaltyType, DoctorAssumption DEF Score, Clamp
  <2>2. a \in Nat /\ b \in Nat /\ c \in Nat /\ d \in Nat /\ xacts \in Nat
    BY Counting, CountedSets, DoctorAssumption DEF VarsOK
  <2> DEFINE va == a * WraparoundPenalty
             vb == b * CriticalPenalty
             vc == c * HighPenalty
             vd == d * WarningPenalty
             vx == xacts * LongXactPenalty
             ve == IF enabled THEN 0 ELSE CriticalPenalty
  <2>3. TotalPenalty = va + vb + vc + vd + vx + ve
    BY DEF TotalPenalty, TablePenalty
  <2> HIDE DEF a, b, c, d
  <2>4. va \in Nat /\ vb \in Nat /\ vc \in Nat /\ vd \in Nat /\ vx \in Nat /\ ve \in Nat
    BY <2>2, PenaltyTypes, Weighing
  <2> HIDE DEF va, vb, vc, vd, vx, ve
  <2>5. va = 0 /\ vb = 0 /\ vc = 0 /\ vd = 0 /\ vx = 0 /\ ve = 0
    BY <2>1, <2>3, <2>4, SumIsZero
  <2>6. a = 0 /\ b = 0 /\ c = 0 /\ d = 0 /\ xacts = 0
    BY <2>2, <2>5, PenaltyTypes, Weighing DEF NothingFree, va, vb, vc, vd, vx
  <2>7. enabled
    BY <2>5, PenaltyTypes DEF ve, NothingFree
  <2>8. NeedAttention = {}
    <3>1. NearWraparound = {} /\ Graded(RiskCritical) = {} /\ Graded(RiskHigh) = {}
          /\ Graded(RiskWarning) = {}
      BY <2>6, Counting, CountedSets DEF a, b, c, d
    <3> SUFFICES ASSUME NEW t \in NeedAttention PROVE FALSE
      OBVIOUS
    <3>2. t \in Graded(Risk(tables[t]))
      BY <3>1 DEF Graded, FindingFromAssessment
    <3>3. Risk(tables[t]) \in {RiskWarning, RiskHigh, RiskCritical}
      BY RiskLevels DEF NeedAttention
    <3> QED
      BY <3>1, <3>2, <3>3
  <2> QED
    BY <2>6, <2>7, <2>8, RiskLevels DEF NeedAttention
<1> QED
  BY <1>1, VarsInvariant, PTL

\* A table near wraparound is found as that whatever else is wrong with it, and a freeze
\* is advised if and only if there is one.
THEOREM WraparoundOutranksHolds == Spec => []WraparoundOutranks
<1>1. VarsOK => WraparoundOutranks
  <2> SUFFICES ASSUME VarsOK PROVE WraparoundOutranks
    OBVIOUS
  <2>1. \A t \in Tables : FreezeAged(tables[t]) <=> tables[t].age >= WraparoundWarningPct
    <3> SUFFICES ASSUME NEW t \in Tables
                 PROVE  FreezeAged(tables[t]) <=> tables[t].age >= WraparoundWarningPct
      OBVIOUS
    <3>1. tables[t].age \in Nat
      BY DoctorAssumption DEF VarsOK, TableSnapshot
    <3>2. Given(tables[t], "wraparound critical") <=> tables[t].age >= WraparoundCriticalPct
      BY Zenon DEF Given
    <3>3. Given(tables[t], "freeze age high") <=>
            tables[t].age \in WraparoundWarningPct .. WraparoundCriticalPct - 1
      BY Zenon DEF Given
    <3>4. FreezeAged(tables[t]) <=>
            \/ tables[t].age >= WraparoundCriticalPct
            \/ tables[t].age \in WraparoundWarningPct .. WraparoundCriticalPct - 1
      BY <3>2, <3>3, Zenon DEF FreezeAged
    <3> QED
      BY <3>1, <3>4, RaceAssumption
  <2>2. NearWraparound = {t \in Tables : FreezeAged(tables[t])}
    BY FreezeAgedIsFound DEF NearWraparound, NeedAttention
  <2>3. "vacuum freeze" \in NextSteps <=> NearWraparound # {}
    BY DEF NextSteps, Advice
  <2> QED
    BY <2>1, <2>2, <2>3, FreezeAgedIsFound DEF WraparoundOutranks, FindingFromAssessment, NeedAttention
<1> QED
  BY <1>1, VarsInvariant, PTL

\* Whenever tune would change a table, doctor sends its user to tune.
THEOREM TuneIsAdvisedHolds == Spec => []TuneIsAdvised
<1>1. TuneIsAdvised
  <2>1. ASSUME NEW t \in Tables, Recommend(tables[t]) # tables[t].settings
        PROVE  t \in NeedAttention
    BY <2>1 DEF Recommend, NeedAttention
  <2>2. NeedAttention # {} => "tune" \in NextSteps
    BY DEF NextSteps, Advice
  <2> QED
    BY <2>1, <2>2 DEF TuneIsAdvised
<1> QED
  BY <1>1, PTL

-----------------------------------------------------------------------------
(* Two reports in a row.  The penalty of the tables is summed by level      *)
(* instead of by finding: what a table pays beyond the level below is paid  *)
(* by all tables at the level or above, and these sets only grow.           *)

\* The tables found near wraparound or at a risk of at least `level`.
FoundAt(tab, level) == {t \in Tables : FreezeAged(tab[t]) \/ Risk(tab[t]) >= level}

Near(tab) == {t \in Tables : FreezeAged(tab[t])}

Weight(tab) ==
    Cardinality(FoundAt(tab, RiskWarning)) * WarningPenalty
    + Cardinality(FoundAt(tab, RiskHigh)) * (HighPenalty - WarningPenalty)
    + Cardinality(FoundAt(tab, RiskCritical)) * (CriticalPenalty - HighPenalty)
    + Cardinality(Near(tab)) * (WraparoundPenalty - CriticalPenalty)

LEMMA ByLevel == TablePenalty = Weight(tables)
<1> DEFINE A1 == FoundAt(tables, RiskWarning)
           A2 == FoundAt(tables, RiskHigh)
           A3 == FoundAt(tables, RiskCritical)
           N == Near(tables)
<1>1. NearWraparound = N
  BY FreezeAgedIsFound DEF NearWraparound, NeedAttention, Near
<1>2. /\ Graded(RiskWarning) = A1 \ A2
      /\ Graded(RiskHigh) = A2 \ A3
      /\ Graded(RiskCritical) = A3 \ N
  <2>1. \A t \in Tables : Risk(tables[t]) \in {0, 1, 2, 3}
    BY RiskLevels DEF RiskOK, RiskWarning, RiskHigh, RiskCritical
  <2>2. \A level : Graded(level) =
           {t \in Tables : Risk(tables[t]) # 0 /\ ~FreezeAged(tables[t]) /\ Risk(tables[t]) = level}
    BY FreezeAgedIsFound DEF Graded, NearWraparound, NeedAttention, FindingFromAssessment, RiskOK
  <2> QED
    BY <2>1, <2>2 DEF FoundAt, Near, RiskWarning, RiskHigh, RiskCritical
<1>3. /\ N \subseteq A3 /\ A3 \subseteq A2 /\ A2 \subseteq A1 /\ A1 \subseteq Tables
  <2>1. \A t \in Tables : Risk(tables[t]) \in {0, 1, 2, 3}
    BY RiskLevels DEF RiskOK, RiskWarning, RiskHigh, RiskCritical
  <2> QED
    BY <2>1 DEF FoundAt, Near, RiskWarning, RiskHigh, RiskCritical
<1> HIDE DEF A1, A2, A3, N
<1>4. \A S \in SUBSET Tables, R \in SUBSET Tables :
        R \subseteq S => Cardinality(S \ R) = Cardinality(S) - Cardinality(R)
  <2> SUFFICES ASSUME NEW S \in SUBSET Tables, NEW R \in SUBSET Tables, R \subseteq S
               PROVE  Cardinality(S \ R) = Cardinality(S) - Cardinality(R)
    OBVIOUS
  <2>1. S \cap R = R /\ IsFiniteSet(S)
    BY Counting
  <2> QED
    BY <2>1, FS_Difference
<1> DEFINE a1 == Cardinality(A1)
           a2 == Cardinality(A2)
           a3 == Cardinality(A3)
           n == Cardinality(N)
<1>5. a1 \in Nat /\ a2 \in Nat /\ a3 \in Nat /\ n \in Nat
  BY <1>3, Counting
<1>6. TablePenalty = n * WraparoundPenalty + (a3 - n) * CriticalPenalty
                     + (a2 - a3) * HighPenalty + (a1 - a2) * WarningPenalty
  BY <1>1, <1>2, <1>3, <1>4 DEF TablePenalty
<1>7. Weight(tables) = a1 * WarningPenalty + a2 * (HighPenalty - WarningPenalty)
                       + a3 * (CriticalPenalty - HighPenalty) + n * (WraparoundPenalty - CriticalPenalty)
  BY DEF Weight, A1, A2, A3, N
<1> HIDE DEF a1, a2, a3, n
<1> QED
  BY <1>5, <1>6, <1>7, PenaltyTypes

\* A table that got worse keeps its level, or is near wraparound.
LEMMA WorseKeepsLevel ==
  ASSUME NEW s1, NEW s2, NoBetter(s1, s2), NEW level \in {RiskWarning, RiskHigh, RiskCritical},
         Risk(s1) >= level
  PROVE  FreezeAged(s2) \/ Risk(s2) >= level
<1>1. CASE Risk(s1) = RiskCritical
  <2>1. PICK r \in CriticalReasons : Given(s1, r)
    BY <1>1, RiskLevels
  <2>2. Given(s2, r)
    BY <2>1 DEF NoBetter, CriticalReasons
  <2>3. Risk(s2) = RiskCritical
    BY <2>2, RiskLevels
  <2> QED
    BY <2>3 DEF RiskWarning, RiskHigh, RiskCritical
<1>2. CASE Risk(s1) = RiskHigh
  <2>1. PICK r \in CriticalReasons \cup HighReasons : Given(s1, r)
    BY <1>2, RiskLevels
  <2>2. \E r2 \in CriticalReasons \cup HighReasons : Given(s2, r2)
    BY <2>1 DEF NoBetter, CriticalReasons, HighReasons
  <2>3. Risk(s2) \in {RiskHigh, RiskCritical}
    BY <2>2, RiskLevels
  <2> QED
    BY <1>2, <2>3 DEF RiskWarning, RiskHigh, RiskCritical
<1>3. CASE Risk(s1) = RiskWarning
  <2>1. PICK r \in CriticalReasons \cup HighReasons \cup WarningReasons : Given(s1, r)
    BY <1>3, RiskLevels DEF RiskWarning, RiskOK
  <2>2. FreezeAged(s2) \/ \E r2 \in CriticalReasons \cup HighReasons \cup WarningReasons : Given(s2, r2)
    BY <2>1 DEF NoBetter, CriticalReasons, HighReasons, WarningReasons, FreezeAged
  <2>3. FreezeAged(s2) \/ Risk(s2) \in {RiskWarning, RiskHigh, RiskCritical}
    BY <2>2, RiskLevels
  <2> QED
    BY <1>3, <2>3 DEF RiskWarning, RiskHigh, RiskCritical
<1> QED
  BY <1>1, <1>2, <1>3, RiskLevels DEF RiskWarning, RiskHigh, RiskCritical, RiskOK

LEMMA Scaling ==
  ASSUME NEW m \in Nat, NEW n \in Nat, m <= n, NEW w \in Nat
  PROVE  m * w <= n * w /\ m * w \in Nat /\ n * w \in Nat
<1>1. m * w <= n * w
  BY Z3
<1> QED
  BY <1>1, Weighing

\* A cluster whose tables got worse weighs no less.
LEMMA WorseWeighsMore ==
  ASSUME PenaltiesGrow, NEW tab1, NEW tab2, \A t \in Tables : NoBetter(tab1[t], tab2[t])
  PROVE  Weight(tab1) <= Weight(tab2) /\ Weight(tab1) \in Nat /\ Weight(tab2) \in Nat
<1> DEFINE a(tab, level) == Cardinality(FoundAt(tab, level))
           n(tab) == Cardinality(Near(tab))
<1>1. \A level \in {RiskWarning, RiskHigh, RiskCritical} :
        FoundAt(tab1, level) \subseteq FoundAt(tab2, level)
  <2> SUFFICES ASSUME NEW level \in {RiskWarning, RiskHigh, RiskCritical},
                      NEW t \in FoundAt(tab1, level)
               PROVE  t \in FoundAt(tab2, level)
    OBVIOUS
  <2>1. t \in Tables /\ NoBetter(tab1[t], tab2[t])
    BY DEF FoundAt
  <2>2. CASE FreezeAged(tab1[t])
    BY <2>1, <2>2 DEF FoundAt, NoBetter
  <2>3. CASE Risk(tab1[t]) >= level
    BY <2>1, <2>3, WorseKeepsLevel DEF FoundAt
  <2> QED
    BY <2>2, <2>3 DEF FoundAt
<1>2. Near(tab1) \subseteq Near(tab2) /\ Near(tab2) \subseteq Tables /\ Near(tab1) \subseteq Tables
  BY DEF Near, NoBetter
<1>3. \A tab, level : FoundAt(tab, level) \subseteq Tables
  BY DEF FoundAt
<1>4. \A level \in {RiskWarning, RiskHigh, RiskCritical} :
        a(tab1, level) \in Nat /\ a(tab2, level) \in Nat /\ a(tab1, level) <= a(tab2, level)
  BY <1>1, <1>3, Counting
<1>5. n(tab1) \in Nat /\ n(tab2) \in Nat /\ n(tab1) <= n(tab2)
  BY <1>2, Counting
<1> DEFINE W(tab) == a(tab, RiskWarning) * WarningPenalty
           H(tab) == a(tab, RiskHigh) * (HighPenalty - WarningPenalty)
           C(tab) == a(tab, RiskCritical) * (CriticalPenalty - HighPenalty)
           F(tab) == n(tab) * (WraparoundPenalty - CriticalPenalty)
<1>6. /\ HighPenalty - WarningPenalty \in Nat /\ CriticalPenalty - HighPenalty \in Nat
      /\ WraparoundPenalty - CriticalPenalty \in Nat /\ WarningPenalty \in Nat
  BY PenaltyTypes DEF PenaltiesGrow
<1>7. Weight(tab1) = W(tab1) + H(tab1) + C(tab1) + F(tab1)
  BY DEF Weight
<1>8. Weight(tab2) = W(tab2) + H(tab2) + C(tab2) + F(tab2)
  BY DEF Weight
<1> HIDE DEF a, n
<1>9. /\ W(tab1) <= W(tab2) /\ W(tab1) \in Nat /\ W(tab2) \in Nat
      /\ H(tab1) <= H(tab2) /\ H(tab1) \in Nat /\ H(tab2) \in Nat
      /\ C(tab1) <= C(tab2) /\ C(tab1) \in Nat /\ C(tab2) \in Nat
      /\ F(tab1) <= F(tab2) /\ F(tab1) \in Nat /\ F(tab2) \in Nat
  BY <1>4, <1>5, <1>6, Scaling
<1> HIDE DEF W, H, C, F
<1> QED
  BY <1>7, <1>8, <1>9

\* A cluster that got worse, and in nothing better, never scores higher, when the penalties
\* grow with the trouble.
THEOREM WorseNeverScoresBetterHolds ==
  ASSUME PenaltiesGrow
  PROVE  Spec => WorseNeverScoresBetter
<1> DEFINE Worse == /\ \A t \in Tables : NoBetter(tables[t], tables'[t])
                    /\ xacts' >= xacts
                    /\ enabled' => enabled
<1>1. (TablePenalty = Weight(tables))'
  BY ByLevel, PTL
<1>2. VarsOK /\ VarsOK' => [Worse => Score' <= Score]_vars
  <2> SUFFICES ASSUME VarsOK, VarsOK', Worse PROVE Score' <= Score
    OBVIOUS
  <2>1. TablePenalty <= TablePenalty' /\ TablePenalty \in Nat /\ TablePenalty' \in Nat
    BY <1>1, ByLevel, WorseWeighsMore
  <2>2. /\ xacts * LongXactPenalty <= xacts' * LongXactPenalty
        /\ xacts * LongXactPenalty \in Nat /\ xacts' * LongXactPenalty \in Nat
    <3>1. xacts \in Nat /\ xacts' \in Nat /\ xacts <= xacts'
      BY DoctorAssumption DEF VarsOK
    <3> QED
      BY <3>1, PenaltyTypes, Scaling
  <2> DEFINE p == TablePenalty
             p2 == TablePenalty'
             x == xacts * LongXactPenalty
             x2 == xacts' * LongXactPenalty
             off == IF enabled THEN 0 ELSE CriticalPenalty
             off2 == IF enabled' THEN 0 ELSE CriticalPenalty
             total == TotalPenalty
             total2 == TotalPenalty'
  <2>3. off <= off2 /\ off \in Nat /\ off2 \in Nat
    BY PenaltyTypes
  <2>4. total = p + x + off /\ total2 = p2 + x2 + off2
    BY DEF TotalPenalty
  <2>5. Score = Clamp(MaxScore - total, MinScore, MaxScore)
        /\ Score' = Clamp(MaxScore - total2, MinScore, MaxScore)
    BY DEF Score
  <2> HIDE DEF p, p2, x, x2, off, off2, total, total2
  <2>6. total <= total2 /\ total \in Nat /\ total2 \in Nat
    BY <2>1, <2>2, <2>3, <2>4 DEF p, p2, x, x2
  <2> QED
    BY <2>5, <2>6, DoctorAssumption DEF Clamp
<1> QED
  BY <1>2, VarsInvariant, PTL DEF WorseNeverScoresBetter
=============================================================================
