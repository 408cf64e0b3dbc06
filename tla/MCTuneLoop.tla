----------------------------- MODULE MCTuneLoop -----------------------------
(* A small instance of TuneLoop for TLC: the defaults of config.Defaults in *)
(* units of 100 tuples and of 1/10000 for scale factors.                    *)
EXTENDS TuneLoop

MCLimits == {0, 200, 10000}
MCDelays == {0, 2, 20}
=============================================================================
