------------------------------ MODULE MCLineage ------------------------------
(* An instance of the dataset lineage for TLC. *)
EXTENDS LineageProperties
CONSTANTS c1, c2

\* overlapping date ranges
MCWindows == {1 .. 2, 2 .. 3}

\* different bars can measure the same
MCMetrics(bars) == Cardinality(bars)
=============================================================================
