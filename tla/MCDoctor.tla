------------------------------ MODULE MCDoctor ------------------------------
(* A small instance of Doctor for TLC: snapshots in which the reasons of    *)
(* classify come in every combination they can.                             *)
EXTENDS Doctor

MCSnapshots ==
    [live : {1000}, dead : {0, 250, 700}, rel : {1000}, gen : {300, 4000}, window : {1},
     age : {10, 85, 96},
     settings : [scale : {125}, threshold : {500, 12000}, limit : {200}, delay : {2}]]
=============================================================================
