----------------------------- MODULE MCWatchers -----------------------------
(* Directory trees, paths and symmetry for the runs of Watchers. *)
EXTENDS Watchers, TLC

CONSTANTS a, b, l1, l2, l3

TwoLevels == <<a, b>>
ParentTwo == [d \in {a, b} |-> IF d = a THEN None ELSE a]

Path(dir, spelling, slash) == [dir |-> dir, spelling |-> spelling, slash |-> slash]
TwoSpellings == {"plain", "dotted"}
FourPaths == {Path(a, "plain", FALSE), Path(b, "plain", FALSE), Path(b, "plain", TRUE),
              Path(b, "dotted", FALSE)}
NestedPaths == {Path(a, "plain", FALSE), Path(b, "plain", FALSE)}

TwoListeners == {l1, l2}
ThreeListeners == {l1, l2, l3}

Symmetry == Permutations(Listeners)
=============================================================================
