----------------------------- MODULE MCRuntime -----------------------------
(* Instances of Runtime small enough for TLC.                              *)
EXTENDS Runtime

CONSTANTS s1, s2
=============================================================================
