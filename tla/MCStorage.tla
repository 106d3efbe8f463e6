----------------------------- MODULE MCStorage ------------------------------
(* Model values and symmetry for the runs of Storage. *)
EXTENDS Storage, TLC

CONSTANTS p1, p2, a, b, x, y, i1, i2, i3, i4

TwoInstances == {p1, p2}
TwoKeys == {<<a>>, <<b>>}
LongAndShort == [k \in TwoKeys |-> IF k = <<a>> THEN {<<x, x>>, <<y>>} ELSE {<<x>>}]
FourInodes == {i1, i2, i3, i4}

Symmetry == Permutations(TwoInstances)
=============================================================================
