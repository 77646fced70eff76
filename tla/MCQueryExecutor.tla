-------------------------- MODULE MCQueryExecutor --------------------------
(* Instances of QueryExecutor small enough for TLC.                        *)
EXTENDS QueryExecutor, TLC

CONSTANTS r1, r2, r3, sa, sb

\* Calls of one source; r3 may be a call of another.
OneSource  == [r \in Requests |-> sa]
TwoSources == [r \in Requests |-> IF r = r3 THEN sb ELSE sa]

One == [s \in Sources |-> 1]
Two == [s \in Sources |-> 2]

Symmetry == Permutations(Requests)
=============================================================================
