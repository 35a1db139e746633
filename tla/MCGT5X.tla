------------------------------- MODULE MCGT5X -------------------------------
(* Small instances of GT5X for TLC. *)
EXTENDS GT5X

CONSTANTS t1, t2

TwoCallers == {t1, t2}
Losing == {"lost", "corrupt"}
=============================================================================
