--------------------------- MODULE MCRegionalGrids ---------------------------
(* Instances of RegionalGrids for TLC. *)
EXTENDS RegionalGrids

\* Two hours of radar frames and one of nowcast, as the settings default to, and
\* half an hour of both, where the delays leave some grids without a run at times.
LongAndShort == {<<24, 12>>, <<6, 6>>}
\* Six cycles of twenty minutes from each cover the six hours of the longest
\* model cycle.
Day == {288 + p : p \in {0, 14, 31, 49}}
=============================================================================
