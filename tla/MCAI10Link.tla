----------------------------- MODULE MCAI10Link -----------------------------
(* Small instances of AI10Link for TLC. *)
EXTENDS AI10Link, TLC

CONSTANTS i1, i2, i3

ThreeIds == {i1, i2, i3}
SomeNumbers == 1..6
AnyFault == {"corrupt", "lost"}

SymmetricIds == Permutations(ThreeIds)
=============================================================================
