---------------------------- MODULE MCTuneReads ----------------------------
(* A small instance of TuneReads for TLC. *)
EXTENDS TuneReads, TLC

\* Runs are interchangeable in every safety property.
RunSymmetry == Permutations(Procs)
=============================================================================
