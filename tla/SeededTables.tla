---------------------------- MODULE SeededTables ----------------------------
(***************************************************************************)
(* What the seeding of the lab promises, with no processes that die, no    *)
(* chunks and no sessions: a table only ever grows, from its first ids on  *)
(* and up to the rows configured, and nobody says "lab ready" of tables    *)
(* that are not full.                                                      *)
(***************************************************************************)
EXTENDS Integers

CONSTANTS Seeders, NTables, Rows, Found

VARIABLES
    rows,       \* rows[t]: the ids in table t
    announced   \* the processes that said "lab ready"

Tables == 1 .. NTables

Init ==
    /\ \E n \in [Tables -> Found] : rows = [t \in Tables |-> 1 .. n[t]]
    /\ announced = {}

Fill(t) ==
    /\ \E n \in 1 .. Rows[t] : rows[t] \subseteq 1 .. n /\ rows' = [rows EXCEPT ![t] = 1 .. n]
    /\ UNCHANGED announced

Announce(p) ==
    /\ \A t \in Tables : 1 .. Rows[t] \subseteq rows[t]
    /\ announced' = announced \cup {p}
    /\ UNCHANGED rows

Next == (\E t \in Tables : Fill(t)) \/ (\E p \in Seeders : Announce(p))

Spec == Init /\ [][Next]_<<rows, announced>>
=============================================================================
