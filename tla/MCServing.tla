------------------------------ MODULE MCServing ------------------------------
(* Serving on small instances: a grid of two runs over two timestamps, the      *)
(* second one a forecast, and a pipeline whose next publication adds a run to   *)
(* the grid or advances the global model's reference time.                      *)
EXTENDS Serving, TLC

Hour(r, t) == {<<r, t>>, <<r, t + 1>>}

Publication(held, ref) == [frames |-> held, reference |-> ref]

RunLands == << Publication(Hour(1, 1), 1), Publication(Hour(1, 1) \cup Hour(2, 1), 1) >>

GridGoes == << Publication(Hour(1, 1), 1), Publication({}, 1), Publication({}, 1) >>

GridComesAndGlobalMoves == << Publication({}, 1), Publication(Hour(1, 1), 2) >>

AllHistories == {RunLands, GridGoes, GridComesAndGlobalMoves}

OneHistory == {RunLands}

\* A geometry of the regional grid is the larger one: it has what the grid adds.
TileSize(v) == IF v > Global THEN 2 ELSE 1

OtherTiles == {<<"sat", 1>>}

Symmetric == Permutations(Clients) \cup Permutations(Renders)
=============================================================================
