------------------------ MODULE MCStateGenerations ------------------------
(* Instances of StateGenerations for TLC. *)
EXTENDS StateGenerations, TLC

\* The first snapshot names every file.  Once it is published a behaviour has
\* one fault: a death, a failed write or a generation that is completed and
\* never published, after which no load is overtaken; a death may be followed by
\* a sweep that fails.
OneFault ==
    /\ phase = "captured" /\ wall = 1 => manifest = Files
    /\ crashes + failures <= 1 \/ staging # {}
    /\ \A r \in Readers : orphans + failures + raced[r] <= 1
    /\ crashes + failures + orphans > 0 => pointer # None
    /\ phase = "down" => wall = 3
=============================================================================
