-------------------------- MODULE MCLifecycleTests --------------------------
(* Small instances of LifecycleTests for TLC. *)
EXTENDS LifecycleTests

CONSTANTS cb1, null

BothTests == {"t2", "t2b"}
(* An end too early or too often, and a result of the wrong status. *)
Wrong == {[type |-> "STOPPED", status |-> "ECANCELED"],
          [type |-> "NO_MATCH", status |-> "OK"]}

AllDrivers == {"good"} \cup Flaws
=============================================================================
