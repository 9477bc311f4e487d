-------------------------------- MODULE Medians --------------------------------
(***************************************************************************)
(* The median of a finite number of values, by what it is: half of the sum *)
(* of the two values in the middle of the order, which are one and the     *)
(* same when there is an odd number of them (statistics.median, as         *)
(* adapters.py calls it; replay_gate.py _median).  The values are those of *)
(* a function, whose arguments only tell them apart.                       *)
(***************************************************************************)
EXTENDS Integers, FiniteSets

\* The r-th smallest value of f.
Ranked(f, r) ==
    CHOOSE v \in {f[i] : i \in DOMAIN f} :
      /\ Cardinality({i \in DOMAIN f : f[i] < v}) < r
      /\ Cardinality({i \in DOMAIN f : f[i] <= v}) >= r

\* Twice the median, so that it is an integer when the values are.
Median2(f) ==
    LET n == Cardinality(DOMAIN f)
    IN  Ranked(f, (n + 1) \div 2) + Ranked(f, n \div 2 + 1)

================================================================================
