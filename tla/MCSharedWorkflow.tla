-------------------------- MODULE MCSharedWorkflow --------------------------
(* Small instances of SharedWorkflow for TLC. *)
EXTENDS SharedWorkflow

CONSTANTS cb, null

(* A managed device, a host with too few samples, a staged device. *)
ManagedOrStaged == {0, 1, 2}
=============================================================================
