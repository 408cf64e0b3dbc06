--------------------------- MODULE LabSeedProofs ---------------------------
(***************************************************************************)
(* Theorems about LabSeed for every number of processes and tables, every  *)
(* row count and chunk size: resuming at the row count neither leaves a    *)
(* hole nor adds a surplus, however many processes die or run side by side. *)
(***************************************************************************)
EXTENDS LabSeed, FiniteSetTheorems, WellFoundedInduction, TLAPS

\* The ids of a table are an initial segment of the positive numbers.
Prefix(S) == \E n \in Nat : S = 1 .. n

Filled(t) == 1 .. Rows[t] \subseteq rows[t]

Done(t) == Filled(t) /\ reltuples[t] >= Rows[t]

\* The INSERT of p works on a chunk that begins where the committed rows end or before,
\* and has left no id of it out.
InsertOK(p) ==
    /\ pc[p] # "insert" => inserted[p] = {}
    /\ pc[p] = "insert" =>
         /\ last[p] = Rows[table[p]]
         /\ start[p] <= last[p]
         /\ start[p] <= at[p] /\ at[p] <= ChunkEnd(p) + 1
         /\ 1 .. start[p] - 1 \subseteq rows[table[p]]
         /\ inserted[p] \subseteq start[p] .. at[p] - 1
         /\ start[p] .. at[p] - 1 \subseteq rows[table[p]] \cup inserted[p]

\* What a process has behind it is done, whoever did it.
BehindOK(p) ==
    /\ pc[p] \in {"count", "insert", "analyze"} =>
         \A t \in Tables : t < table[p] => Done(t)
    /\ pc[p] = "analyze" => Filled(table[p])
    /\ pc[p] \in {"throttle", "friendly", "ready"} => \A t \in Tables : Done(t)
    /\ pc[p] \in {"friendly", "ready"} => Sessions \in options
    /\ pc[p] = "ready" => Events \in options
    /\ pc[p] = "wait" => table[p] = 1

InsertInv == \A p \in Seeders : InsertOK(p)

BehindInv == \A p \in Seeders : BehindOK(p)

RowsInv == \A t \in Tables : Prefix(rows[t])

IInv == TypeOK /\ InsertInv /\ BehindInv /\ RowsInv

-----------------------------------------------------------------------------
\* An initial segment is as long as its cardinality says.
LEMMA PrefixCardinality ==
  ASSUME NEW S, Prefix(S)
  PROVE  Cardinality(S) \in Nat /\ S = 1 .. Cardinality(S)
<1>1. PICK n \in Nat : S = 1 .. n
  BY DEF Prefix
<1>2. Cardinality(1 .. n) = IF 1 > n THEN 0 ELSE n - 1 + 1
  BY FS_Interval, 1 \in Int, n \in Int
<1>3. Cardinality(1 .. n) = n
  BY <1>2
<1> QED
  BY <1>1, <1>3

\* A chunk that begins at the end of an initial segment, or before, extends it.
LEMMA PrefixExtended ==
  ASSUME NEW S, Prefix(S), NEW a \in Nat \ {0}, NEW b \in Nat, NEW I,
         1 .. a - 1 \subseteq S, I \subseteq a .. b, a .. b \subseteq S \cup I
  PROVE  Prefix(S \cup I)
<1>1. PICK n \in Nat : S = 1 .. n
  BY DEF Prefix
<1>2. a - 1 <= n
  <2>1. CASE a = 1
    BY <2>1
  <2>2. CASE a # 1
    <3>1. a - 1 \in 1 .. a - 1
      BY <2>2
    <3>2. a - 1 \in 1 .. n
      BY <1>1, <3>1
    <3> QED
      BY <3>2
  <2> QED
    BY <2>1, <2>2
<1>3. CASE b <= n
  <2>1. a .. b \subseteq 1 .. n
    BY <1>3
  <2>2. S \cup I = 1 .. n
    BY <1>1, <2>1
  <2> QED
    BY <2>2 DEF Prefix
<1>4. CASE b > n
  <2>1. 1 .. n \subseteq 1 .. b /\ a .. b \subseteq 1 .. b
    BY <1>4
  <2>2. ASSUME NEW i \in 1 .. b PROVE i \in 1 .. n \/ i \in a .. b
    BY <1>2
  <2>3. S \cup I = 1 .. b
    BY <1>1, <2>1, <2>2
  <2> QED
    BY <2>3 DEF Prefix
<1> QED
  BY <1>3, <1>4

\* The initial states.
LEMMA InitIInv == Init => IInv
<1> SUFFICES ASSUME Init PROVE IInv
  OBVIOUS
<1>1. PICK n \in [Tables -> Found] : rows = [t \in Tables |-> 1 .. n[t]]
  BY DEF Init
<1>2. \A t \in Tables : rows[t] = 1 .. n[t] /\ n[t] \in Nat
  BY <1>1, SeedAssumption
<1>3. rows \in [Tables -> SUBSET (Nat \ {0})]
  <2>1. \A t \in Tables : 1 .. n[t] \in SUBSET (Nat \ {0})
    BY <1>2
  <2> QED
    BY <1>1, <2>1
<1>4. TypeOK
  BY <1>3, SeedAssumption DEF Init, TypeOK, Tables
<1>5. RowsInv
  BY <1>2 DEF RowsInv, Prefix
<1>6. InsertInv /\ BehindInv
  BY DEF Init, InsertInv, InsertOK, BehindInv, BehindOK
<1> QED
  BY <1>4, <1>5, <1>6 DEF IInv

-----------------------------------------------------------------------------
(* The steps.                                                              *)

LEMMA ChunkEndType ==
  ASSUME TypeOK, NEW p \in Seeders
  PROVE  ChunkEnd(p) \in Nat /\ ChunkEnd(p) <= last[p] /\ table[p] \in Tables
BY SeedAssumption DEF TypeOK, ChunkEnd

\* What the row count returns, and what is left to insert.
LEMMA CountFacts ==
  ASSUME IInv, NEW p \in Seeders
  PROVE  /\ Existing(p) \in Nat
         /\ rows[table[p]] = 1 .. Existing(p)
         /\ Remaining(p) \in Nat
         /\ Remaining(p) > 0 => Existing(p) + Remaining(p) = Rows[table[p]]
         /\ Remaining(p) = 0 => Filled(table[p])
<1>1. table[p] \in Tables /\ Rows[table[p]] \in Nat \ {0}
  BY SeedAssumption DEF IInv, TypeOK
<1>2. Existing(p) \in Nat /\ rows[table[p]] = 1 .. Existing(p)
  BY <1>1, PrefixCardinality DEF IInv, RowsInv, Existing
<1>3. Remaining(p) = IF Rows[table[p]] < Existing(p) THEN 0 ELSE Rows[table[p]] - Existing(p)
  BY DEF Remaining
<1> QED
  BY <1>1, <1>2, <1>3 DEF Filled

\* Every step leaves the variables in their types.
LEMMA TypeStep ==
  ASSUME IInv, [Next]_vars
  PROVE  TypeOK'
<1> USE DEF TypeOK, IInv
<1>1. ASSUME NEW p \in Seeders, WaitForPostgres(p) PROVE TypeOK'
  BY <1>1 DEF WaitForPostgres, Proceed, Statements
<1>2. ASSUME NEW p \in Seeders, WaitFails(p) PROVE TypeOK'
  BY <1>2 DEF WaitFails
<1>3. ASSUME NEW p \in Seeders, Count(p) PROVE TypeOK'
  <2>1. Existing(p) + Remaining(p) \in Nat /\ Existing(p) + 1 \in Nat \ {0}
    BY CountFacts, SMTT(20)
  <2> QED
    BY <1>3, <2>1 DEF Count, Proceed, Statements
<1>4. ASSUME NEW p \in Seeders, InsertRow(p) PROVE TypeOK'
  <2>1. at[p] \in Nat \ {0} /\ at[p] + 1 \in Nat \ {0}
    OBVIOUS
  <2>2. inserted[p] \cup ({at[p]} \ rows[table[p]]) \in SUBSET (Nat \ {0})
    BY <2>1
  <2> QED
    BY <1>4, <2>1, <2>2 DEF InsertRow
<1>5. ASSUME NEW p \in Seeders, InsertChunk(p) PROVE TypeOK'
  <2>1. ChunkEnd(p) + 1 \in Nat \ {0} /\ table[p] \in Tables
    BY ChunkEndType
  <2>2. rows[table[p]] \cup inserted[p] \in SUBSET (Nat \ {0})
    BY <2>1
  <2>3. rows' \in [Tables -> SUBSET (Nat \ {0})] /\ inserted' \in [Seeders -> SUBSET (Nat \ {0})]
    BY <1>5, <2>2 DEF InsertChunk, Commit
  <2>4. start' \in [Seeders -> Nat \ {0}]
    BY <1>5, <2>1 DEF InsertChunk
  <2>5. pc' \in [Seeders -> Statements \cup {"wait", "ready", "over"}]
    BY <1>5 DEF InsertChunk, Proceed, Statements
  <2> QED
    BY <1>5, <2>3, <2>4, <2>5 DEF InsertChunk
<1>6. ASSUME NEW p \in Seeders, Analyze(p) PROVE TypeOK'
  <2>1. table[p] \in Tables /\ Cardinality(rows[table[p]]) \in Int
    BY CountFacts DEF Existing
  <2>2. reltuples' \in [Tables -> Int]
    BY <1>6, <2>1 DEF Analyze
  <2>3. table' \in [Seeders -> Tables]
    <3>1. table[p] < NTables => table[p] + 1 \in Tables
      BY <2>1, SeedAssumption, SMTT(20) DEF Tables
    <3> QED
      BY <1>6, <3>1 DEF Analyze
  <2>4. pc' \in [Seeders -> Statements \cup {"wait", "ready", "over"}]
    BY <1>6 DEF Analyze, Proceed, Statements
  <2> QED
    BY <1>6, <2>2, <2>3, <2>4 DEF Analyze
<1>7. ASSUME NEW p \in Seeders, Throttle(p) PROVE TypeOK'
  BY <1>7 DEF Throttle, Proceed, Statements
<1>8. ASSUME NEW p \in Seeders, Friendly(p) PROVE TypeOK'
  BY <1>8 DEF Friendly, Proceed
<1>9. ASSUME NEW p \in Seeders, Fail(p) PROVE TypeOK'
  BY <1>9 DEF Fail
<1>10. ASSUME NEW p \in Seeders, Stop(p) PROVE TypeOK'
  BY <1>10 DEF Stop
<1>11. CASE UNCHANGED vars
  BY <1>11 DEF vars, local
<1> QED
  BY <1>1, <1>2, <1>3, <1>4, <1>5, <1>6, <1>7, <1>8, <1>9, <1>10, <1>11 DEF Next, Statement, Finished

\* Rows are added by InsertChunk alone, and never taken away.
LEMMA RowsGrow ==
  ASSUME IInv, [Next]_vars
  PROVE  \/ rows' = rows
         \/ \E p \in Seeders :
              /\ InsertChunk(p)
              /\ rows' = [rows EXCEPT ![table[p]] = @ \cup inserted[p]]
<1>1. CASE \E p \in Seeders : InsertChunk(p)
  BY <1>1 DEF InsertChunk, Commit
<1>2. CASE ~(\E p \in Seeders : InsertChunk(p))
  BY <1>2 DEF Next, Statement, Finished, WaitForPostgres, WaitFails, Count, InsertRow, Analyze,
              Throttle, Friendly, Fail, Stop, vars, local
<1> QED
  BY <1>1, <1>2

\* A chunk in the table of p that is committed keeps the table an initial segment of the
\* ids up to Rows.
LEMMA ChunkCommitted ==
  ASSUME IInv, NEW p \in Seeders, InsertChunk(p)
  PROVE  /\ Prefix(rows[table[p]] \cup inserted[p])
         /\ 1 .. ChunkEnd(p) \subseteq rows[table[p]] \cup inserted[p]
         /\ inserted[p] \subseteq 1 .. Rows[table[p]]
         /\ start[p] <= ChunkEnd(p)
<1> DEFINE S == rows[table[p]]
           I == inserted[p]
           a == start[p]
           b == ChunkEnd(p)
<1>1. /\ last[p] = Rows[table[p]] /\ a <= last[p] /\ a <= at[p] /\ at[p] <= b + 1
      /\ 1 .. a - 1 \subseteq S /\ I \subseteq a .. at[p] - 1 /\ a .. at[p] - 1 \subseteq S \cup I
      /\ at[p] > b
  BY DEF IInv, InsertInv, InsertOK, InsertChunk
<1>2. /\ a \in Nat \ {0} /\ at[p] \in Nat \ {0} /\ b \in Nat /\ b <= last[p] /\ table[p] \in Tables
      /\ last[p] \in Nat
  BY ChunkEndType DEF IInv, TypeOK
<1>3. a <= b
  BY <1>1, <1>2, SeedAssumption DEF ChunkEnd
<1> HIDE DEF S, I, a, b
<1>4. at[p] - 1 = b
  BY <1>1, <1>2
<1>5. Prefix(S)
  BY <1>2 DEF IInv, RowsInv, S
<1>6. Prefix(S \cup I)
  BY <1>1, <1>2, <1>4, <1>5, PrefixExtended
<1>7. 1 .. b \subseteq S \cup I
  <2> SUFFICES ASSUME NEW i \in 1 .. b PROVE i \in S \cup I
    OBVIOUS
  <2>1. CASE i < a
    <3>1. i \in 1 .. a - 1
      BY <1>2, <2>1
    <3> QED
      BY <1>1, <3>1
  <2>2. CASE i >= a
    <3>1. i \in a .. b
      BY <1>2, <2>2
    <3> QED
      BY <1>1, <1>4, <3>1
  <2> QED
    BY <1>2, <2>1, <2>2
<1>8. I \subseteq 1 .. Rows[table[p]]
  <2>1. a .. b \subseteq 1 .. last[p]
    BY <1>2
  <2> QED
    BY <1>1, <1>4, <2>1
<1> QED
  BY <1>3, <1>6, <1>7, <1>8 DEF S, I, a, b

\* The tables stay initial segments.
LEMMA RowsStep ==
  ASSUME IInv, [Next]_vars
  PROVE  RowsInv'
<1>1. CASE rows' = rows
  BY <1>1 DEF IInv, RowsInv, Prefix
<1>2. ASSUME NEW p \in Seeders, InsertChunk(p),
             rows' = [rows EXCEPT ![table[p]] = @ \cup inserted[p]]
      PROVE  RowsInv'
  <2>1. table[p] \in Tables /\ rows \in [Tables -> SUBSET (Nat \ {0})]
    BY DEF IInv, TypeOK
  <2>2. Prefix(rows[table[p]] \cup inserted[p])
    BY <1>2, ChunkCommitted
  <2>3. \A t \in Tables : Prefix(rows'[t])
    BY <1>2, <2>1, <2>2 DEF IInv, RowsInv
  <2> QED
    BY <2>3 DEF RowsInv, Prefix
<1> QED
  BY <1>1, <1>2, RowsGrow

\* What is committed stays.
LEMMA RowsStay ==
  ASSUME IInv, [Next]_vars, NEW t \in Tables
  PROVE  rows[t] \subseteq rows'[t]
<1>1. table \in [Seeders -> Tables] /\ rows \in [Tables -> SUBSET (Nat \ {0})]
  BY DEF IInv, TypeOK
<1> QED
  BY <1>1, RowsGrow

\* The steps of process p.
Step(p) == WaitForPostgres(p) \/ WaitFails(p) \/ Statement(p) \/ Fail(p) \/ Stop(p)

\* A step of p leaves the variables of the other processes alone.
LEMMA LocalStep ==
  ASSUME TypeOK, NEW p \in Seeders, Step(p), NEW q \in Seeders, q # p
  PROVE  /\ pc'[q] = pc[q] /\ alive'[q] = alive[q] /\ table'[q] = table[q]
         /\ start'[q] = start[q] /\ last'[q] = last[q] /\ at'[q] = at[q]
         /\ inserted'[q] = inserted[q]
<1> USE DEF TypeOK
<1>1. CASE WaitForPostgres(p) \/ WaitFails(p) \/ Fail(p) \/ Stop(p)
  BY <1>1 DEF WaitForPostgres, WaitFails, Fail, Stop, Proceed
<1>2. CASE Count(p) \/ InsertRow(p)
  BY <1>2 DEF Count, InsertRow, Proceed
<1>3. CASE InsertChunk(p)
  BY <1>3 DEF InsertChunk, Commit, Proceed
<1>4. CASE Analyze(p) \/ Throttle(p) \/ Friendly(p)
  BY <1>4 DEF Analyze, Throttle, Friendly, Proceed
<1> QED
  BY <1>1, <1>2, <1>3, <1>4 DEF Step, Statement

\* No step breaks the invariant of a process that inserts.
LEMMA InsertStep ==
  ASSUME IInv, [Next]_vars
  PROVE  InsertInv'
<1> USE DEF IInv
<1>1. ASSUME NEW p \in Seeders, Step(p), NEW q \in Seeders, q # p
      PROVE  InsertOK(q)'
  <2>1. rows[table[q]] \subseteq rows'[table[q]]
    BY RowsStay DEF TypeOK
  <2>2. /\ pc'[q] = pc[q] /\ table'[q] = table[q] /\ start'[q] = start[q] /\ last'[q] = last[q]
        /\ at'[q] = at[q] /\ inserted'[q] = inserted[q]
    BY <1>1, LocalStep
  <2>3. InsertOK(q)
    BY DEF InsertInv
  <2> QED
    BY <2>1, <2>2, <2>3 DEF InsertOK, ChunkEnd
<1>2. ASSUME NEW p \in Seeders, Step(p) PROVE InsertOK(p)'
  <2> USE DEF TypeOK
  <2>0. InsertOK(p)
    BY DEF InsertInv
  <2>1. CASE WaitForPostgres(p) \/ WaitFails(p)
    BY <2>0, <2>1 DEF WaitForPostgres, WaitFails, Proceed, InsertOK
  <2>2. CASE Fail(p)
    BY <2>2 DEF Fail, InsertOK
  <2>3. CASE Stop(p)
    BY <2>0, <2>3 DEF Stop, InsertOK, ChunkEnd
  <2>4. CASE Count(p)
    <3>1. inserted'[p] = {}
      BY <2>0, <2>4 DEF Count, InsertOK
    <3>2. ASSUME pc'[p] = "insert" PROVE Remaining(p) > 0
      BY <2>4, <3>2 DEF Count, Proceed
    <3>3. ASSUME pc'[p] = "insert"
          PROVE  /\ last'[p] = Rows[table'[p]]
                 /\ start'[p] = Existing(p) + 1 /\ at'[p] = Existing(p) + 1
                 /\ rows'[table'[p]] = 1 .. Existing(p)
                 /\ last'[p] = Existing(p) + Remaining(p)
      BY <2>4, <3>2, <3>3, CountFacts DEF Count
    <3>4. ASSUME pc'[p] = "insert"
          PROVE  /\ start'[p] <= last'[p] /\ at'[p] <= ChunkEnd(p)' + 1
                 /\ 1 .. start'[p] - 1 \subseteq rows'[table'[p]]
                 /\ start'[p] .. at'[p] - 1 = {}
      <4>1. Existing(p) \in Nat /\ Remaining(p) \in Nat /\ Remaining(p) > 0
        BY <3>2, <3>4, CountFacts
      <4>2. start'[p] <= last'[p]
        BY <3>3, <3>4, <4>1
      <4>3. start'[p] - 1 = Existing(p) /\ at'[p] - 1 < start'[p]
        BY <3>3, <3>4, <4>1
      <4>4. at'[p] <= ChunkEnd(p)' + 1
        <5>1. at'[p] = start'[p] /\ start'[p] \in Nat /\ last'[p] \in Nat
          BY <3>3, <3>4, <4>1
        <5>2. ChunkSize \in Nat /\ ChunkSize > 0
          BY SeedAssumption
        <5>3. ChunkEnd(p)' = IF start'[p] + ChunkSize - 1 > last'[p] THEN last'[p]
                             ELSE start'[p] + ChunkSize - 1
          BY DEF ChunkEnd
        <5> QED
          BY <4>2, <5>1, <5>2, <5>3
      <4>5. start'[p] .. at'[p] - 1 = {}
        BY <3>3, <3>4, <4>1
      <4> QED
        BY <3>3, <3>4, <4>2, <4>3, <4>4, <4>5
    <3> QED
      BY <3>1, <3>3, <3>4, CountFacts DEF InsertOK
  <2>5. CASE InsertRow(p)
    <3>1. /\ pc[p] = "insert" /\ at[p] <= ChunkEnd(p) /\ at'[p] = at[p] + 1
          /\ inserted'[p] = inserted[p] \cup ({at[p]} \ rows[table[p]])
          /\ pc' = pc /\ table' = table /\ start' = start /\ last' = last /\ rows' = rows
      BY <2>5 DEF InsertRow
    <3>2. at[p] \in Nat \ {0} /\ start[p] \in Nat \ {0} /\ ChunkEnd(p) \in Nat
      BY ChunkEndType
    <3>3. ChunkEnd(p)' = ChunkEnd(p)
      BY <3>1 DEF ChunkEnd
    <3>4. start[p] .. at'[p] - 1 = (start[p] .. at[p] - 1) \cup {at[p]}
      <4>1. start[p] <= at[p] /\ at'[p] - 1 = at[p]
        BY <2>0, <3>1, <3>2 DEF InsertOK
      <4> QED
        BY <3>2, <4>1
    <3>5. at'[p] <= ChunkEnd(p)' + 1 /\ start[p] <= at'[p]
      BY <2>0, <3>1, <3>2, <3>3 DEF InsertOK
    <3> QED
      BY <2>0, <3>1, <3>4, <3>5 DEF InsertOK
  <2>6. CASE InsertChunk(p)
    <3>1. /\ rows' = [rows EXCEPT ![table[p]] = @ \cup inserted[p]] /\ inserted'[p] = {}
          /\ start'[p] = ChunkEnd(p) + 1 /\ table' = table /\ last' = last /\ at' = at
          /\ pc[p] = "insert" /\ at[p] > ChunkEnd(p)
          /\ pc'[p] = "insert" => ChunkEnd(p) < last[p]
      BY <2>6 DEF InsertChunk, Commit, Proceed
    <3>2. /\ ChunkEnd(p) \in Nat /\ at[p] \in Nat \ {0} /\ last[p] \in Nat
          /\ table[p] \in Tables
      BY ChunkEndType
    <3>3. at[p] = ChunkEnd(p) + 1
      BY <2>0, <3>1, <3>2 DEF InsertOK
    <3>4. 1 .. start'[p] - 1 \subseteq rows'[table'[p]]
      <4>1. 1 .. ChunkEnd(p) \subseteq rows[table[p]] \cup inserted[p]
        BY <2>6, ChunkCommitted
      <4> QED
        BY <3>1, <3>2, <4>1
    <3>5. pc'[p] = "insert" => start'[p] <= last'[p]
      BY <3>1, <3>2
    <3>6. at'[p] = start'[p] /\ start'[p] .. at'[p] - 1 = {}
      BY <3>1, <3>2, <3>3
    <3>7. pc'[p] = "insert" => at'[p] <= ChunkEnd(p)' + 1
      BY <3>1, <3>2, <3>5, <3>6, SeedAssumption DEF ChunkEnd
    <3>8. last'[p] = Rows[table'[p]]
      BY <2>0, <3>1 DEF InsertOK
    <3> QED
      BY <3>1, <3>2, <3>4, <3>5, <3>6, <3>7, <3>8 DEF InsertOK
  <2>7. CASE Analyze(p)
    BY <2>0, <2>7 DEF Analyze, Proceed, InsertOK
  <2>8. CASE Throttle(p) \/ Friendly(p)
    BY <2>0, <2>8 DEF Throttle, Friendly, Proceed, InsertOK
  <2> QED
    BY <1>2, <2>1, <2>2, <2>3, <2>4, <2>5, <2>6, <2>7, <2>8 DEF Step, Statement
<1>3. CASE UNCHANGED vars
  BY <1>3 DEF vars, local, InsertInv, InsertOK, ChunkEnd
<1> QED
  BY <1>1, <1>2, <1>3 DEF Next, Step, Finished, InsertInv

\* A table that is filled has at least Rows rows to count.
LEMMA FilledCardinality ==
  ASSUME IInv, NEW t \in Tables, Filled(t)
  PROVE  Cardinality(rows[t]) \in Nat /\ Cardinality(rows[t]) >= Rows[t]
<1>1. Rows[t] \in Nat \ {0}
  BY SeedAssumption
<1>2. Cardinality(rows[t]) \in Nat /\ rows[t] = 1 .. Cardinality(rows[t])
  BY PrefixCardinality DEF IInv, RowsInv
<1>3. Rows[t] \in 1 .. Cardinality(rows[t])
  <2>1. Rows[t] \in 1 .. Rows[t]
    BY <1>1
  <2> QED
    BY <1>2, <2>1 DEF Filled
<1> QED
  BY <1>1, <1>2, <1>3

\* An ANALYZE is executed only after the table has been filled.
LEMMA AnalyzeSees ==
  ASSUME IInv, [Next]_vars, NEW t \in Tables
  PROVE  \/ reltuples'[t] = reltuples[t]
         \/ Filled(t) /\ reltuples'[t] >= Rows[t]
<1>1. CASE reltuples' = reltuples
  BY <1>1
<1>2. ASSUME NEW p \in Seeders, Analyze(p)
      PROVE  \/ reltuples'[t] = reltuples[t]
             \/ Filled(t) /\ reltuples'[t] >= Rows[t]
  <2>1. reltuples' = [reltuples EXCEPT ![table[p]] = Cardinality(rows[table[p]])]
    BY <1>2 DEF Analyze
  <2>2. table[p] \in Tables /\ Filled(table[p])
    BY <1>2 DEF Analyze, IInv, TypeOK, BehindInv, BehindOK
  <2>3. CASE table[p] = t
    BY <2>1, <2>2, <2>3, FilledCardinality DEF IInv, TypeOK
  <2>4. CASE table[p] # t
    BY <2>1, <2>4 DEF IInv, TypeOK
  <2> QED
    BY <2>3, <2>4
<1>3. (\E p \in Seeders : Analyze(p)) \/ reltuples' = reltuples
  BY DEF Next, Statement, Finished, WaitForPostgres, WaitFails, Count, InsertRow, InsertChunk,
         Throttle, Friendly, Fail, Stop, vars, local
<1> QED
  BY <1>1, <1>2, <1>3

\* What is done stays done.
LEMMA DoneStays ==
  ASSUME IInv, [Next]_vars, NEW t \in Tables
  PROVE  (Filled(t) => Filled(t)') /\ (Done(t) => Done(t)')
BY RowsStay, AnalyzeSees DEF Filled, Done

\* The storage parameters are never taken back.
LEMMA OptionsStay ==
  ASSUME [Next]_vars
  PROVE  options \subseteq options'
BY DEF Next, Statement, Finished, WaitForPostgres, WaitFails, Count, InsertRow, InsertChunk,
       Analyze, Throttle, Friendly, Fail, Stop, vars, local

\* No step takes back what a process has behind it.
LEMMA BehindStep ==
  ASSUME IInv, [Next]_vars
  PROVE  BehindInv'
<1> USE DEF IInv
<1>0. TypeOK'
  BY TypeStep
<1>1. ASSUME NEW q \in Seeders, pc'[q] = pc[q], table'[q] = table[q] PROVE BehindOK(q)'
  <2>1. BehindOK(q) /\ table[q] \in Tables
    BY DEF BehindInv, TypeOK
  <2> QED
    BY <1>1, <2>1, DoneStays, OptionsStay DEF BehindOK
<1>2. ASSUME NEW p \in Seeders, Step(p) PROVE BehindOK(p)'
  <2> USE DEF TypeOK
  <2>0. BehindOK(p) /\ table[p] \in Tables
    BY DEF BehindInv
  <2>1. CASE WaitForPostgres(p)
    BY <2>0, <2>1, SeedAssumption DEF WaitForPostgres, Proceed, BehindOK, Tables
  <2>2. CASE WaitFails(p) \/ Fail(p)
    BY <2>2 DEF WaitFails, Fail, BehindOK
  <2>3. CASE Stop(p) \/ InsertRow(p)
    BY <1>1, <2>3 DEF Stop, InsertRow
  <2>4. CASE Count(p)
    <3>1. pc[p] = "count" /\ table' = table /\ pc'[p] \in {"insert", "analyze", "over"}
      BY <2>4 DEF Count, Proceed
    <3>2. pc'[p] = "analyze" => Filled(table[p])
      BY <2>4, CountFacts DEF Count, Proceed
    <3> QED
      BY <2>0, <3>1, <3>2, DoneStays DEF BehindOK
  <2>5. CASE InsertChunk(p)
    <3>1. /\ pc[p] = "insert" /\ table' = table /\ pc'[p] \in {"insert", "analyze", "over"}
          /\ pc'[p] = "analyze" => ~(ChunkEnd(p) < last[p])
          /\ rows' = [rows EXCEPT ![table[p]] = @ \cup inserted[p]]
      BY <2>5 DEF InsertChunk, Commit, Proceed
    <3>2. ChunkEnd(p) \in Nat /\ ChunkEnd(p) <= last[p] /\ last[p] = Rows[table[p]]
      BY <3>1, ChunkEndType DEF InsertInv, InsertOK
    <3>3. 1 .. ChunkEnd(p) \subseteq rows[table[p]] \cup inserted[p]
      BY <2>5, ChunkCommitted
    <3>4. pc'[p] = "analyze" => Filled(table[p])'
      BY <2>0, <3>1, <3>2, <3>3 DEF Filled
    <3> QED
      BY <2>0, <3>1, <3>4, DoneStays DEF BehindOK
  <2>6. CASE Analyze(p)
    <3>1. /\ pc[p] = "analyze"
          /\ reltuples' = [reltuples EXCEPT ![table[p]] = Cardinality(rows[table[p]])]
          /\ rows' = rows
      BY <2>6 DEF Analyze
    <3>2. ASSUME NEW t \in Tables, t = table[p] PROVE Done(t)'
      <4>1. Filled(table[p])
        BY <2>0, <3>1 DEF BehindOK
      <4>2. reltuples'[table[p]] = Cardinality(rows[table[p]])
        BY <2>0, <3>1
      <4> QED
        BY <3>2, <4>1, <4>2, FilledCardinality, DoneStays DEF Done
    <3>3. \A t \in Tables : t < table[p] \/ t = table[p] => Done(t)'
      <4> SUFFICES ASSUME NEW t \in Tables, t < table[p] \/ t = table[p] PROVE Done(t)'
        OBVIOUS
      <4>1. CASE t < table[p]
        BY <2>0, <3>1, <4>1, DoneStays DEF BehindOK
      <4>2. CASE t = table[p]
        BY <3>2, <4>2
      <4> QED
        BY <4>1, <4>2
    <3>4. CASE alive[p] /\ table[p] < NTables
      <4>1. table'[p] = table[p] + 1 /\ pc'[p] = "count"
        BY <2>6, <3>4 DEF Analyze, Proceed
      <4>2. \A t \in Tables : t < table[p] + 1 => t < table[p] \/ t = table[p]
        BY <2>0 DEF Tables
      <4> QED
        BY <3>3, <4>1, <4>2 DEF BehindOK
    <3>5. CASE ~(alive[p] /\ table[p] < NTables)
      <4>1. pc'[p] \in {"throttle", "over"} /\ (pc'[p] = "throttle" => ~(table[p] < NTables))
        BY <2>6, <3>5 DEF Analyze, Proceed
      <4>2. ~(table[p] < NTables) => \A t \in Tables : t < table[p] \/ t = table[p]
        BY <2>0, SeedAssumption DEF Tables
      <4> QED
        BY <3>3, <4>1, <4>2 DEF BehindOK
    <3> QED
      BY <3>4, <3>5
  <2>7. CASE Throttle(p)
    <3>1. pc[p] = "throttle" /\ pc'[p] \in {"friendly", "over"} /\ Sessions \in options'
      BY <2>7 DEF Throttle, Proceed
    <3> QED
      BY <2>0, <3>1, DoneStays DEF BehindOK
  <2>8. CASE Friendly(p)
    <3>1. pc[p] = "friendly" /\ pc'[p] \in {"ready", "over"} /\ Events \in options'
      BY <2>8 DEF Friendly, Proceed
    <3> QED
      BY <2>0, <3>1, DoneStays, OptionsStay DEF BehindOK
  <2> QED
    BY <1>2, <2>1, <2>2, <2>3, <2>4, <2>5, <2>6, <2>7, <2>8 DEF Step, Statement
<1>3. ASSUME NEW p \in Seeders, Step(p), NEW q \in Seeders, q # p PROVE BehindOK(q)'
  BY <1>1, <1>3, LocalStep
<1>4. CASE UNCHANGED vars
  BY <1>1, <1>4 DEF vars, local, BehindInv
<1> QED
  BY <1>2, <1>3, <1>4 DEF Next, Step, Finished, BehindInv

-----------------------------------------------------------------------------
(* The theorems.                                                           *)

\* IInv is an invariant of LabSeed.
THEOREM Invariance == Spec => []IInv
<1>1. IInv /\ [Next]_vars => IInv'
  BY TypeStep, RowsStep, InsertStep, BehindStep DEF IInv
<1> QED
  BY <1>1, InitIInv, PTL DEF Spec

\* The variables keep their types.
THEOREM TypeCorrect == Spec => []TypeOK
<1>1. IInv => TypeOK
  BY DEF IInv
<1> QED
  BY <1>1, Invariance, PTL

\* The ids of a table are 1 .. the row count at all times.
THEOREM NoHolesHolds == Spec => []NoHoles
<1>1. IInv => NoHoles
  BY PrefixCardinality DEF IInv, RowsInv, NoHoles
<1> QED
  BY <1>1, Invariance, PTL

\* A process that reports "lab ready" has left the lab as configured.
THEOREM LabReadyHolds == Spec => []LabReady
<1>1. IInv => LabReady
  BY DEF IInv, TypeOK, BehindInv, BehindOK, Done, Filled, LabReady
<1> QED
  BY <1>1, Invariance, PTL

\* Only the process that takes its last step joins those that have said "lab ready".
LEMMA AnnouncedStep ==
  ASSUME IInv, NEW p \in Seeders, Step(p)
  PROVE  \/ \A q \in Seeders : pc'[q] = "ready" <=> pc[q] = "ready"
         \/ /\ Friendly(p)
            /\ \A q \in Seeders : pc'[q] = "ready" <=> pc[q] = "ready" \/ q = p
<1>1. \A q \in Seeders \ {p} : pc'[q] = pc[q]
  BY LocalStep DEF IInv
<1>2. CASE Friendly(p)
  <2>1. pc'[p] = "ready" \/ (pc'[p] = "over" /\ pc[p] = "friendly")
    BY <1>2 DEF Friendly, Proceed, IInv, TypeOK
  <2> QED
    BY <1>1, <1>2, <2>1
<1>3. CASE ~Friendly(p)
  <2>1. pc'[p] = "ready" <=> pc[p] = "ready"
    BY <1>3 DEF Step, Statement, WaitForPostgres, WaitFails, Count, InsertRow, InsertChunk, Analyze,
           Throttle, Fail, Stop, Proceed, Statements, IInv, TypeOK
  <2> QED
    BY <1>1, <2>1
<1> QED
  BY <1>2, <1>3

\* A chunk that is committed fills its table further, or changes nothing.
LEMMA ChunkFills ==
  ASSUME IInv, NEW p \in Seeders, InsertChunk(p), rows' # rows
  PROVE  \E t \in Tables : \E n \in 1 .. Rows[t] :
           rows[t] \subseteq 1 .. n /\ rows' = [rows EXCEPT ![t] = 1 .. n]
<1> DEFINE t == table[p]
           S == rows[t] \cup inserted[p]
<1>1. t \in Tables /\ rows \in [Tables -> SUBSET (Nat \ {0})]
  BY DEF IInv, TypeOK
<1>2. rows' = [rows EXCEPT ![t] = S]
  BY DEF InsertChunk, Commit
<1>3. inserted[p] \subseteq 1 .. Rows[t] /\ Rows[t] \in Nat
  BY <1>1, ChunkCommitted, SeedAssumption
<1>4. PICK i \in inserted[p] : i \notin rows[t]
  BY <1>1, <1>2
<1>5. PICK n \in Nat : S = 1 .. n
  BY ChunkCommitted DEF Prefix
<1>6. PICK k \in Nat : rows[t] = 1 .. k
  BY <1>1 DEF IInv, RowsInv, Prefix
<1>7. n \in 1 .. Rows[t]
  <2>1. i \in 1 .. n /\ i \in 1 .. Rows[t] /\ k < i
    BY <1>3, <1>4, <1>5, <1>6
  <2>2. n \in S
    BY <1>5, <2>1
  <2>3. n \notin rows[t]
    BY <1>6, <2>1
  <2> QED
    BY <1>3, <2>2, <2>3
<1> QED
  BY <1>1, <1>2, <1>5, <1>7

\* Seeding implements SeededTables: it adds no surplus and leaves no hole, and who says
\* "lab ready" says it of full tables.
THEOREM ImplementsHolds == Spec => Implements
<1>1. Init => Filling!Init
  BY DEF Init, Filling!Init, Filling!Tables, Tables
<1>2. IInv /\ [Next]_vars
        => [Filling!Next]_<<rows, {p \in Seeders : pc[p] = "ready"}>>
  <2> SUFFICES ASSUME IInv, [Next]_vars
               PROVE  \/ Filling!Next
                      \/ UNCHANGED <<rows, {p \in Seeders : pc[p] = "ready"}>>
    OBVIOUS
  <2>1. CASE UNCHANGED vars
    BY <2>1 DEF vars, local
  <2>2. ASSUME NEW p \in Seeders, Step(p)
        PROVE  Filling!Next \/ UNCHANGED <<rows, {q \in Seeders : pc[q] = "ready"}>>
    <3>1. CASE Friendly(p)
      <4>1. UNCHANGED rows /\ pc[p] = "friendly"
        BY <3>1 DEF Friendly
      <4>2. \A t \in Tables : 1 .. Rows[t] \subseteq rows[t]
        BY <4>1 DEF IInv, BehindInv, BehindOK, Done, Filled
      <4>3. {q \in Seeders : pc[q] = "ready"}' \in
              {{q \in Seeders : pc[q] = "ready"}, {q \in Seeders : pc[q] = "ready"} \cup {p}}
        BY <2>2, AnnouncedStep
      <4> QED
        BY <4>1, <4>2, <4>3 DEF Filling!Next, Filling!Announce, Filling!Tables, Tables
    <3>2. CASE ~Friendly(p)
      <4>1. UNCHANGED {q \in Seeders : pc[q] = "ready"}
        BY <2>2, <3>2, AnnouncedStep
      <4>2. CASE rows' = rows
        BY <4>1, <4>2
      <4>3. CASE rows' # rows
        <5>1. PICK q \in Seeders : InsertChunk(q)
          BY <4>3, RowsGrow
        <5> QED
          BY <4>1, <4>3, <5>1, ChunkFills DEF Filling!Next, Filling!Fill, Filling!Tables, Tables
      <4> QED
        BY <4>2, <4>3
    <3> QED
      BY <3>1, <3>2
  <2> QED
    BY <2>1, <2>2 DEF Next, Step, Finished
<1> QED
  BY <1>1, <1>2, Invariance, PTL DEF Spec, Implements, Filling!Spec
-----------------------------------------------------------------------------
(* Coming to an end: what SeedingEnds rests on besides fairness.           *)

\* The INSERT of p has come to an id that q has inserted and not committed.
WaitsFor(p, q) ==
    /\ pc[p] = "insert" /\ at[p] <= ChunkEnd(p)
    /\ q # p /\ table[q] = table[p] /\ at[p] \in inserted[q]

\* The guards of the steps of p that come to its end: the wait for PostgreSQL or the
\* statement it is at.
CanMove(p) ==
    \/ pc[p] = "wait" /\ alive[p]
    \/ pc[p] \in Statements \ {"insert"}
    \/ pc[p] = "insert" /\ (at[p] > ChunkEnd(p) \/ ~InsertedElsewhere(p, at[p]))

Ended(p) == pc[p] \in {"ready", "over"}

\* loadgen/run.go:108: processes that insert the same rows wait for each other, and never
\* in a circle: whoever has not come to its end can go on, or waits in the end for a
\* process further along in the same table that can.
NeverACircle ==
    \A p \in Seeders : ~Ended(p) =>
        \/ CanMove(p)
        \/ \E q \in Seeders :
             pc[q] = "insert" /\ table[q] = table[p] /\ at[q] > at[p] /\ CanMove(q)

\* A process that is stopped, and the tables after the one p is at.
Dying(p) == IF alive[p] THEN 1 ELSE 0

Later(p, most) == (NTables - table[p]) * (2 * most + 2)

\* The most steps p has left when no table is to have more than `most` rows: per table the
\* row count, the rows, the chunks and ANALYZE, then the two ALTER TABLE, and its end.
StepsLeft(p, most) ==
    CASE pc[p] = "wait" -> Dying(p) + Later(p, most) + 2 * most + 5
      [] pc[p] = "count" -> Dying(p) + Later(p, most) + 2 * most + 4
      [] pc[p] = "insert" ->
             Dying(p) + Later(p, most) + (last[p] - at[p] + 1) + (last[p] - start[p] + 1) + 3
      [] pc[p] = "analyze" -> Dying(p) + Later(p, most) + 3
      [] pc[p] = "throttle" -> Dying(p) + 2
      [] pc[p] = "friendly" -> Dying(p) + 1
      [] pc[p] \in {"ready", "over"} -> Dying(p)

LEMMA LeastNatural ==
  ASSUME NEW T \in SUBSET Nat, T # {}
  PROVE  \E n \in T : \A m \in T : n <= m
<1>1. PICK n \in T : \A m \in T : ~(<<m, n>> \in OpToRel(<, Nat))
  BY WFMin, NatLessThanWellFounded
<1>2. \A m \in T : ~(m < n)
  BY <1>1 DEF OpToRel
<1> QED
  BY <1>2

\* Who waits for a row waits for a process that is further along in the same table.
LEMMA WaitsAhead ==
  ASSUME IInv, NEW p \in Seeders, NEW q \in Seeders, WaitsFor(p, q)
  PROVE  pc[q] = "insert" /\ table[q] = table[p] /\ at[p] < at[q]
<1>1. InsertOK(q) /\ at[p] \in Nat /\ at[q] \in Nat /\ start[q] \in Nat
  BY DEF IInv, InsertInv, TypeOK
<1>2. pc[q] = "insert" /\ inserted[q] \subseteq start[q] .. at[q] - 1
  BY <1>1 DEF WaitsFor, InsertOK
<1> QED
  BY <1>1, <1>2 DEF WaitsFor

\* An INSERT that cannot go on waits for somebody.
LEMMA StuckWaits ==
  ASSUME NEW p \in Seeders, pc[p] = "insert", ~CanMove(p), TypeOK
  PROVE  \E q \in Seeders : WaitsFor(p, q)
<1>1. at[p] <= ChunkEnd(p)
  BY ChunkEndType DEF CanMove, TypeOK
<1> QED
  BY <1>1 DEF CanMove, WaitsFor, InsertedElsewhere

\* The process that is furthest of those in the table of p, from p on, can go on.
LEMMA FurthestMoves ==
  ASSUME IInv, NEW p \in Seeders, pc[p] = "insert", ~CanMove(p)
  PROVE  \E q \in Seeders :
           pc[q] = "insert" /\ table[q] = table[p] /\ at[q] > at[p] /\ CanMove(q)
<1> DEFINE T == {q \in Seeders : pc[q] = "insert" /\ table[q] = table[p] /\ at[p] <= at[q]}
           R == Rows[table[p]]
           D == {R + 1 - at[q] : q \in T}
<1>1. R \in Nat /\ \A q \in T : at[q] \in Nat /\ R + 1 - at[q] \in Nat
  <2>1. R \in Nat
    BY SeedAssumption DEF IInv, TypeOK
  <2>2. ASSUME NEW q \in T PROVE at[q] \in Nat /\ at[q] <= R + 1
    <3>1. InsertOK(q) /\ at[q] \in Nat /\ last[q] \in Nat
      BY DEF IInv, InsertInv, TypeOK
    <3>2. ChunkEnd(q) \in Nat /\ ChunkEnd(q) <= last[q]
      BY ChunkEndType DEF IInv
    <3> QED
      BY <3>1, <3>2 DEF InsertOK
  <2> QED
    BY <2>1, <2>2
<1>2. p \in T
  BY DEF IInv, TypeOK
<1>3. D \in SUBSET Nat /\ D # {}
  BY <1>1, <1>2
<1>4. PICK n \in D : \A m \in D : n <= m
  <2> HIDE DEF D
  <2> QED
    BY <1>3, LeastNatural
<1>5. PICK q \in T : n = R + 1 - at[q]
  BY <1>4
<1>6. ASSUME NEW o \in T, ~CanMove(o) PROVE \E f \in T : at[o] < at[f]
  <2>1. PICK f \in Seeders : WaitsFor(o, f)
    BY <1>6, StuckWaits DEF IInv
  <2>2. pc[f] = "insert" /\ table[f] = table[o] /\ at[o] < at[f]
    BY <2>1, WaitsAhead
  <2>3. at[p] \in Nat /\ at[o] \in Nat /\ at[f] \in Nat
    BY DEF IInv, TypeOK
  <2> QED
    BY <2>2, <2>3
<1>7. \A f \in T : ~(at[q] < at[f])
  <2> SUFFICES ASSUME NEW f \in T, at[q] < at[f] PROVE FALSE
    OBVIOUS
  <2>1. R + 1 - at[f] \in D
    OBVIOUS
  <2>2. n <= R + 1 - at[f]
    BY <1>4, <2>1
  <2> HIDE DEF T, D
  <2> QED
    BY <1>1, <1>5, <2>2
<1>8. CanMove(q)
  BY <1>6, <1>7
<1>9. at[q] > at[p]
  <2>1. PICK f \in T : at[p] < at[f]
    BY <1>2, <1>6
  <2> HIDE DEF T
  <2> QED
    BY <1>1, <1>2, <1>5, <1>7, <2>1
<1> QED
  BY <1>8, <1>9

\* A process that still waits for PostgreSQL has not been stopped.
WaitingLives == \A p \in Seeders : pc[p] = "wait" => alive[p]

LEMMA WaitingStep ==
  ASSUME IInv, WaitingLives, [Next]_vars
  PROVE  WaitingLives'
<1>1. ASSUME NEW p \in Seeders, Step(p) PROVE WaitingLives'
  <2>1. \A q \in Seeders \ {p} : pc'[q] = pc[q] /\ alive'[q] = alive[q]
    BY <1>1, LocalStep DEF IInv
  <2>2. pc'[p] # "wait"
    BY <1>1 DEF Step, Statement, WaitForPostgres, WaitFails, Count, InsertRow, InsertChunk, Analyze,
           Throttle, Friendly, Fail, Stop, Proceed, Statements, IInv, TypeOK
  <2> QED
    BY <2>1, <2>2 DEF WaitingLives
<1>2. CASE UNCHANGED vars
  BY <1>2 DEF vars, local, WaitingLives
<1> QED
  BY <1>1, <1>2 DEF Next, Step, Finished

\* Seeding has no deadlock: PostgreSQL never has to break one, and a process waits only
\* for others that can go on.
THEOREM NeverACircleHolds == Spec => []NeverACircle
<1>1. Init => WaitingLives
  BY DEF Init, WaitingLives
<1>2. IInv /\ WaitingLives => NeverACircle
  <2> SUFFICES ASSUME IInv, WaitingLives, NEW p \in Seeders, ~Ended(p), ~CanMove(p)
               PROVE  \E q \in Seeders :
                        pc[q] = "insert" /\ table[q] = table[p] /\ at[q] > at[p] /\ CanMove(q)
    BY DEF NeverACircle
  <2>1. pc[p] = "insert"
    BY DEF IInv, TypeOK, WaitingLives, Ended, CanMove, Statements
  <2> QED
    BY <2>1, FurthestMoves
<1> QED
  BY <1>1, <1>2, WaitingStep, Invariance, PTL DEF Spec

\* What StepsLeft is put together from.
LEMMA StepsLeftFacts ==
  ASSUME IInv, NEW p \in Seeders, NEW most \in Nat, \A t \in Tables : Rows[t] <= most
  PROVE  /\ Dying(p) \in 0 .. 1
         /\ Later(p, most) \in Nat
         /\ Later(p, most) + 2 * most + 2 <= NTables * (2 * most + 2)
         /\ pc[p] = "insert" =>
              /\ last[p] - at[p] + 1 \in 0 .. most
              /\ last[p] - start[p] + 1 \in 1 .. most
<1>1. /\ table[p] \in 1 .. NTables /\ NTables \in Nat \ {0} /\ Rows[table[p]] \in Nat \ {0}
      /\ Rows[table[p]] <= most
  BY SeedAssumption DEF IInv, TypeOK, Tables
<1>2. Dying(p) \in 0 .. 1
  BY DEF Dying
<1>3. Later(p, most) \in Nat /\ Later(p, most) + 2 * most + 2 <= NTables * (2 * most + 2)
  <2>1. PICK c \in Nat : c = 2 * most + 2
    OBVIOUS
  <2>2. PICK k \in Nat : k = NTables - table[p] /\ k <= NTables - 1
    BY <1>1
  <2>3. k * c \in Nat /\ (NTables - 1) * c = NTables * c - c /\ NTables * c \in Nat
    BY <1>1, <2>1, <2>2
  <2>4. k * c <= (NTables - 1) * c
    <3>1. NTables - 1 - k \in Nat
      BY <1>1, <2>2
    <3>2. PICK d \in Nat : NTables - 1 = k + d
      BY <1>1, <2>2, <3>1
    <3>3. (k + d) * c = k * c + d * c /\ d * c \in Nat
      BY <2>1, <2>2, <3>2
    <3> QED
      BY <2>3, <3>2, <3>3
  <2> QED
    BY <1>1, <2>1, <2>2, <2>3, <2>4 DEF Later
<1>4. ASSUME pc[p] = "insert"
      PROVE  last[p] - at[p] + 1 \in 0 .. most /\ last[p] - start[p] + 1 \in 1 .. most
  <2>1. InsertOK(p) /\ at[p] \in Nat \ {0} /\ start[p] \in Nat \ {0} /\ last[p] \in Nat
    BY DEF IInv, InsertInv, TypeOK
  <2>2. ChunkEnd(p) \in Nat /\ ChunkEnd(p) <= last[p]
    BY ChunkEndType DEF IInv
  <2> QED
    BY <1>1, <1>4, <2>1, <2>2 DEF InsertOK
<1> QED
  BY <1>2, <1>3, <1>4

LEMMA StepsLeftRange ==
  ASSUME IInv, NEW p \in Seeders, NEW most \in Nat, \A t \in Tables : Rows[t] <= most
  PROVE  /\ StepsLeft(p, most) \in 0 .. NTables * (2 * most + 2) + 4
         /\ StepsLeft(p, most) >= Dying(p)
         /\ ~Ended(p) => StepsLeft(p, most) > Dying(p)
<1>1. PICK d \in 0 .. 1, l \in Nat, n \in Nat :
        /\ d = Dying(p) /\ l = Later(p, most) /\ n = NTables * (2 * most + 2)
        /\ l + 2 * most + 2 <= n
  <2>1. NTables * (2 * most + 2) \in Nat
    BY SeedAssumption
  <2> QED
    BY <2>1, StepsLeftFacts
<1>2. pc[p] \in {"wait", "count", "insert", "analyze", "throttle", "friendly", "ready", "over"}
  BY DEF IInv, TypeOK, Statements
<1>3. CASE pc[p] = "wait"
  <2>1. StepsLeft(p, most) = d + l + 2 * most + 5
    BY <1>1, <1>3 DEF StepsLeft
  <2> QED
    BY <1>1, <2>1
<1>4. CASE pc[p] = "count"
  <2>1. StepsLeft(p, most) = d + l + 2 * most + 4
    BY <1>1, <1>4 DEF StepsLeft
  <2> QED
    BY <1>1, <2>1
<1>5. CASE pc[p] = "insert"
  <2>1. PICK x \in 0 .. most, y \in 1 .. most :
          x = last[p] - at[p] + 1 /\ y = last[p] - start[p] + 1
    BY <1>5, StepsLeftFacts
  <2>2. StepsLeft(p, most) = d + l + x + y + 3
    BY <1>1, <1>5, <2>1 DEF StepsLeft
  <2> QED
    BY <1>1, <2>1, <2>2
<1>6. CASE pc[p] = "analyze"
  <2>1. StepsLeft(p, most) = d + l + 3
    BY <1>1, <1>6 DEF StepsLeft
  <2> QED
    BY <1>1, <2>1
<1>7. CASE pc[p] \in {"throttle", "friendly", "ready", "over"}
  <2>1. StepsLeft(p, most) = d + (IF pc[p] = "throttle" THEN 2 ELSE IF pc[p] = "friendly" THEN 1 ELSE 0)
    BY <1>1, <1>7 DEF StepsLeft
  <2> QED
    BY <1>1, <1>7, <2>1 DEF Ended
<1> QED
  BY <1>2, <1>3, <1>4, <1>5, <1>6, <1>7

\* A step of a process that ends it, or takes its last chance to send a statement.
LEMMA LastStep ==
  ASSUME IInv, NEW p \in Seeders, NEW most \in Nat, \A t \in Tables : Rows[t] <= most,
         ~Ended(p), Ended(p)', alive'[p] => alive[p]
  PROVE  StepsLeft(p, most)' < StepsLeft(p, most)
<1>1. StepsLeft(p, most)' = Dying(p)'
  BY DEF StepsLeft, Ended
<1>2. Dying(p) \in 0 .. 1 /\ Dying(p)' \in 0 .. 1 /\ Dying(p)' <= Dying(p)
  BY DEF Dying
<1>3. StepsLeft(p, most) \in Int /\ StepsLeft(p, most) > Dying(p)
  BY StepsLeftRange
<1> QED
  BY <1>1, <1>2, <1>3

\* Every step of p brings it nearer to its end.
LEMMA OwnStep ==
  ASSUME IInv, IInv', NEW p \in Seeders, NEW most \in Nat, \A t \in Tables : Rows[t] <= most,
         Step(p)
  PROVE  StepsLeft(p, most)' < StepsLeft(p, most)
<1> USE DEF IInv, TypeOK
<1>1. PICK d \in 0 .. 1, l \in Nat : d = Dying(p) /\ l = Later(p, most)
  BY StepsLeftFacts
<1>2. ~Ended(p)
  BY DEF Step, Statement, WaitForPostgres, WaitFails, Count, InsertRow, InsertChunk, Analyze,
       Throttle, Friendly, Fail, Stop, Statements, Ended
<1>3. alive'[p] => alive[p]
  BY DEF Step, Statement, WaitForPostgres, WaitFails, Count, InsertRow, InsertChunk, Analyze,
       Throttle, Friendly, Fail, Stop
<1>4. CASE Ended(p)'
  BY <1>2, <1>3, <1>4, LastStep
<1>5. CASE ~Ended(p)' /\ Stop(p)
  <2>1. Dying(p) = 1 /\ Dying(p)' = 0
    BY <1>5 DEF Stop, Dying
  <2>2. Later(p, most)' = l
    BY <1>1, <1>5 DEF Stop, Later
  <2>3. pc[p] \in {"count", "insert", "analyze", "throttle", "friendly"} /\ pc'[p] = pc[p]
    BY <1>5 DEF Stop, Statements
  <2>4. last[p] - at[p] + 1 \in Int /\ last[p] - start[p] + 1 \in Int
    OBVIOUS
  <2>5. last'[p] = last[p] /\ at'[p] = at[p] /\ start'[p] = start[p]
    BY <1>5 DEF Stop
  <2> QED
    BY <1>1, <2>1, <2>2, <2>3, <2>4, <2>5 DEF StepsLeft
<1>6. CASE ~Ended(p)' /\ ~Stop(p)
  <2>1. Dying(p)' = d
    <3>1. ~WaitFails(p) /\ ~Fail(p)
      BY <1>6 DEF WaitFails, Fail, Ended
    <3>2. alive'[p] = alive[p]
      BY <1>6, <3>1 DEF Step, Statement, WaitForPostgres, Count, InsertRow, InsertChunk, Analyze,
           Throttle, Friendly
    <3> QED
      BY <1>1, <3>2 DEF Dying
  <2>2. CASE WaitForPostgres(p)
    <3>1. pc[p] = "wait" /\ pc'[p] = "count" /\ Later(p, most)' = l
      BY <1>1, <1>6, <2>2 DEF WaitForPostgres, Proceed, Later, Ended
    <3> QED
      BY <1>1, <2>1, <3>1 DEF StepsLeft
  <2>3. CASE Count(p)
    <3>1. /\ pc[p] = "count" /\ Later(p, most)' = l
          /\ pc'[p] = IF Remaining(p) > 0 THEN "insert" ELSE "analyze"
          /\ last'[p] = Existing(p) + Remaining(p)
          /\ start'[p] = Existing(p) + 1 /\ at'[p] = Existing(p) + 1
      BY <1>1, <1>6, <2>3 DEF Count, Proceed, Later, Ended
    <3>2. /\ Existing(p) \in Nat /\ Remaining(p) \in Nat
          /\ Remaining(p) > 0 => Existing(p) + Remaining(p) = Rows[table[p]]
      BY CountFacts
    <3>3. Rows[table[p]] \in Nat /\ Rows[table[p]] <= most
      BY SeedAssumption
    <3>4. Remaining(p) <= most
      BY <3>2, <3>3
    <3>5. CASE Remaining(p) > 0
      <4>1. StepsLeft(p, most)' = d + l + Remaining(p) + Remaining(p) + 3
        BY <2>1, <3>1, <3>2, <3>5 DEF StepsLeft
      <4>2. StepsLeft(p, most) = d + l + 2 * most + 4
        BY <1>1, <3>1 DEF StepsLeft
      <4> QED
        BY <3>2, <3>4, <4>1, <4>2
    <3>6. CASE Remaining(p) = 0
      BY <1>1, <2>1, <3>1, <3>6 DEF StepsLeft
    <3> QED
      BY <3>2, <3>5, <3>6
  <2>4. CASE InsertRow(p)
    <3>1. /\ pc[p] = "insert" /\ pc'[p] = "insert" /\ Later(p, most)' = l
          /\ at'[p] = at[p] + 1 /\ last'[p] = last[p] /\ start'[p] = start[p]
      BY <1>1, <2>4 DEF InsertRow, Later
    <3>2. last[p] \in Nat /\ at[p] \in Nat /\ start[p] \in Nat
      OBVIOUS
    <3> QED
      BY <1>1, <2>1, <3>1, <3>2 DEF StepsLeft
  <2>5. CASE InsertChunk(p)
    <3>1. /\ pc[p] = "insert" /\ pc'[p] \in {"insert", "analyze"} /\ Later(p, most)' = l
          /\ at'[p] = at[p] /\ last'[p] = last[p] /\ start'[p] = ChunkEnd(p) + 1
      BY <1>1, <1>6, <2>5 DEF InsertChunk, Proceed, Later, Ended
    <3>2. start[p] <= ChunkEnd(p) /\ ChunkEnd(p) \in Nat
      BY <2>5, ChunkCommitted, ChunkEndType
    <3>3. last[p] \in Nat /\ at[p] \in Nat /\ start[p] \in Nat
      OBVIOUS
    <3>4. PICK x \in Nat, y \in Nat \ {0} : x = last[p] - at[p] + 1 /\ y = last[p] - start[p] + 1
      BY <3>1, StepsLeftFacts
    <3>5. StepsLeft(p, most) = d + l + x + y + 3
      BY <1>1, <3>1, <3>4 DEF StepsLeft
    <3>6. CASE pc'[p] = "insert"
      <4> DEFINE z == last'[p] - start'[p] + 1
      <4>1. z \in Int /\ z < y
        <5>1. last'[p] = last[p] /\ start'[p] = ChunkEnd(p) + 1
          BY <3>1
        <5>2. z = last[p] - ChunkEnd(p)
          BY <3>2, <3>3, <5>1
        <5> QED
          BY <3>2, <3>3, <3>4, <5>2
      <4>2. StepsLeft(p, most)' = d + l + x + z + 3
        BY <2>1, <3>1, <3>4, <3>6, <4>1 DEF StepsLeft
      <4> QED
        BY <3>5, <4>1, <4>2
    <3>7. CASE pc'[p] = "analyze"
      <4>1. StepsLeft(p, most)' = d + l + 3
        BY <2>1, <3>1, <3>7 DEF StepsLeft
      <4> QED
        BY <3>5, <4>1
    <3> QED
      BY <3>1, <3>6, <3>7
  <2>6. CASE Analyze(p)
    <3>1. CASE table[p] < NTables
      <4>1. pc[p] = "analyze" /\ pc'[p] = "count" /\ table'[p] = table[p] + 1
        BY <1>6, <2>6, <3>1 DEF Analyze, Proceed, Ended
      <4>2. Later(p, most)' = l - (2 * most + 2)
        <5>1. PICK c \in Nat : c = 2 * most + 2
          OBVIOUS
        <5>2. table[p] \in Int /\ NTables \in Int
          BY SeedAssumption DEF Tables
        <5>3. (NTables - (table[p] + 1)) * c = (NTables - table[p]) * c - c
          BY <5>1, <5>2
        <5> QED
          BY <1>1, <4>1, <5>1, <5>3 DEF Later
      <4> QED
        BY <1>1, <2>1, <4>1, <4>2 DEF StepsLeft
    <3>2. CASE ~(table[p] < NTables)
      <4>1. pc[p] = "analyze" /\ pc'[p] = "throttle"
        BY <1>6, <2>6, <3>2 DEF Analyze, Proceed, Ended
      <4> QED
        BY <1>1, <2>1, <4>1 DEF StepsLeft
    <3> QED
      BY <3>1, <3>2
  <2>7. CASE Throttle(p)
    <3>1. pc[p] = "throttle" /\ pc'[p] = "friendly"
      BY <1>6, <2>7 DEF Throttle, Proceed, Ended
    <3> QED
      BY <1>1, <2>1, <3>1 DEF StepsLeft
  <2>8. CASE WaitFails(p) \/ Friendly(p) \/ Fail(p)
    BY <1>6, <2>8 DEF WaitFails, Friendly, Fail, Proceed, Ended
  <2> QED
    BY <1>6, <2>2, <2>3, <2>4, <2>5, <2>6, <2>7, <2>8 DEF Step, Statement
<1> QED
  BY <1>4, <1>5, <1>6

\* Seeding is short, in whatever order the processes get on: no process has more than
\* NTables * (2 * most + 2) + 4 steps, each brings it nearer to its end, and no step of
\* another takes it further off.  `most` is the largest of Rows.
THEOREM SeedingIsShort ==
  ASSUME NEW most \in Nat, \A t \in Tables : Rows[t] <= most
  PROVE  Spec => [][\A p \in Seeders :
                       /\ StepsLeft(p, most) \in 0 .. NTables * (2 * most + 2) + 4
                       /\ Step(p) => StepsLeft(p, most)' < StepsLeft(p, most)
                       /\ ~Step(p) => StepsLeft(p, most)' = StepsLeft(p, most)]_vars
<1>1. IInv /\ IInv' /\ [Next]_vars
        => [\A p \in Seeders :
               /\ StepsLeft(p, most) \in 0 .. NTables * (2 * most + 2) + 4
               /\ Step(p) => StepsLeft(p, most)' < StepsLeft(p, most)
               /\ ~Step(p) => StepsLeft(p, most)' = StepsLeft(p, most)]_vars
  <2> SUFFICES ASSUME IInv, IInv', [Next]_vars, NEW p \in Seeders
               PROVE  /\ StepsLeft(p, most) \in 0 .. NTables * (2 * most + 2) + 4
                      /\ Step(p) => StepsLeft(p, most)' < StepsLeft(p, most)
                      /\ ~Step(p) => StepsLeft(p, most)' = StepsLeft(p, most)
    OBVIOUS
  <2>1. ASSUME ~Step(p) PROVE StepsLeft(p, most)' = StepsLeft(p, most)
    <3>1. /\ pc'[p] = pc[p] /\ alive'[p] = alive[p] /\ table'[p] = table[p]
          /\ start'[p] = start[p] /\ last'[p] = last[p] /\ at'[p] = at[p]
      <4>1. CASE \E q \in Seeders : q # p /\ Step(q)
        BY <4>1, LocalStep DEF IInv
      <4>2. CASE UNCHANGED vars
        BY <4>2 DEF vars, local
      <4> QED
        BY <2>1, <4>1, <4>2 DEF Next, Step, Finished
    <3> QED
      BY <3>1 DEF StepsLeft, Dying, Later
  <2> QED
    BY <2>1, OwnStep, StepsLeftRange
<1> QED
  BY <1>1, Invariance, PTL DEF Spec
====
