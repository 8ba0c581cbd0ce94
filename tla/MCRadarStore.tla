---------------------------- MODULE MCRadarStore ----------------------------
(* Instances of RadarStore for TLC. *)
EXTENDS RadarStore, TLC

\* The two regions are interchangeable.
RegionSymmetry == Permutations(Regions)

\* A behaviour has a death of the process or a refused write, not both, and
\* from the third interval on.
OneFault ==
    /\ crashes + failures <= 1
    /\ crashes + failures > 0 => clock >= 2
=============================================================================
