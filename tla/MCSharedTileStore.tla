------------------------- MODULE MCSharedTileStore -------------------------
(* Instances of SharedTileStore for TLC. *)
EXTENDS SharedTileStore, TLC

CONSTANTS k1, k2, p1, p2, r1, i1, i2, i3, i4, e1, e2

\* Publishers, keys, encodings and inodes are interchangeable.
Symmetric == Permutations(Publishers) \cup Permutations(Keys)
             \cup Permutations(Encodings) \cup Permutations(Inodes)
=============================================================================
