--------------------------- MODULE MCRenderWorker ---------------------------
(* Instances of RenderWorker for TLC. *)
EXTENDS RenderWorker, TLC

CONSTANTS w1, w2, r1, r2

\* Workers are interchangeable, and so are requests.
Symmetric == Permutations({w1, w2}) \cup Permutations({r1, r2})

\* One thing happens: a worker dies, a reload of its frame store fails, the
\* models change, the frame leaves the window or there is a third publication.
OneEvent ==
    LET gone == IF pipe.version = 0 THEN 1 ELSE 0
        third == IF published.mtime > 2 THEN 1 ELSE 0
    IN  spent.boots + spent.failures + (pipe.model - 1) + gone + third <= 1
=============================================================================
