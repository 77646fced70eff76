-------------------------- MODULE MCMetadataCache --------------------------
(* An instance of MetadataCache small enough for TLC.                      *)
EXTENDS MetadataCache

CONSTANTS q1, q2, v1, v2, other, bad

\* Two catalogs of one structure, one of another, one that is not valid.
Shape == [v \in Snapshots |-> IF v = other THEN "other" ELSE "agreed"]
Passing == Snapshots \ {bad}
=============================================================================
