---------------------------- MODULE MCHttpQuery ----------------------------
(* An instance of HttpQuery small enough for TLC.                          *)
EXTENDS HttpQuery

CONSTANTS old, new
=============================================================================
