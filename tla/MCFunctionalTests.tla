-------------------------- MODULE MCFunctionalTests --------------------------
(* Small instances of FunctionalTests for TLC. *)
EXTENDS FunctionalTests

CONSTANTS cb, null

(* The test of the AI10 goes by the capabilities, the others require theirs. *)
Devices == [ai10 |-> {0, 2}, gt5 |-> {3}, zfm |-> {2}]
=============================================================================
