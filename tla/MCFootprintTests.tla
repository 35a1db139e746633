-------------------------- MODULE MCFootprintTests --------------------------
(* Small instances of FootprintTests for TLC. *)
EXTENDS FootprintTests

CONSTANTS cb, null
=============================================================================
