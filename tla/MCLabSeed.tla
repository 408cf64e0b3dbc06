----------------------------- MODULE MCLabSeed -----------------------------
(* Small instances of LabSeed for TLC. *)
EXTENDS LabSeed

MCRows == <<4, 3>>
=============================================================================
