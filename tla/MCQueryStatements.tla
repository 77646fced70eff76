------------------------- MODULE MCQueryStatements -------------------------
(* An instance of QueryStatements small enough for TLC.                    *)
EXTENDS QueryStatements
=============================================================================
