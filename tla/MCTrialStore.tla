---------------------------- MODULE MCTrialStore ----------------------------
(* Two bundles of one case and one of another, two files.                    *)
EXTENDS TrialStore

CONSTANTS a1, a2, b1, a, b, p1, p2

MCCaseOf == (a1 :> a) @@ (a2 :> a) @@ (b1 :> b)

\* Three changes under one process, one under two.
MCMaxEdits == <<3, 1>>

\* The processes, and the two bundles of one case, are interchangeable.
Symmetry == Permutations({p1, p2}) \cup Permutations({a1, a2})

=============================================================================
