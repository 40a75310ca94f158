----------------------------- MODULE MCMetrics -----------------------------
(***************************************************************************)
(* A small instance of Metrics for TLC.                                    *)
(***************************************************************************)
EXTENDS Metrics, TLC

\* On a bound, just above it, and above every bound.
MCLatencies == {50, 51, 5001}

MCSymmetry == Permutations(Calls)
=============================================================================
