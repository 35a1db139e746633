------------------------------- MODULE MCZFM --------------------------------
(* Small instances of ZFM for TLC. *)
EXTENDS ZFM, TLC

CONSTANTS t1, t2, f1, f2

TwoCallers == {t1, t2}
TwoFingers == {f1, f2}

TwoScores == {40, 90}
SomeThresholds == {-1, 50, 70000}
SomeLevels == {3, 8}

Symmetry == Permutations(TwoCallers) \cup Permutations(TwoFingers)
=============================================================================
