----------------------------- MODULE MCListBuffer -----------------------------
(* Values for TLC: two values of different length, and offsets that lie in a *)
(* full list and beyond the ends of the shorter ones.  No step depends on    *)
(* the reply of the step before, so two states with the same lists are one.  *)
EXTENDS ListBuffer, TLC

CONSTANTS a, b, k1, k2

MCBytes == [v \in {a, b} |-> IF v = a THEN 1 ELSE 2]
MCOffsets == {-3, -1, 0, 2}
MCView == lists
MCSymmetry == Permutations({k1, k2})

=============================================================================
