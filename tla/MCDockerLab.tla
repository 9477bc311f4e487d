----------------------------- MODULE MCDockerLab -----------------------------
(* Two runs on one lifecycle and one Docker backend.  The runs are           *)
(* interchangeable, so safety is checked up to their permutations; the       *)
(* configurations that check temporal formulas do not use the symmetry.      *)
EXTENDS DockerLab, TLC

Symmetry == Permutations(Runs)

=============================================================================
