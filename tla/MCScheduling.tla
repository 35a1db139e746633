---------------------------- MODULE MCScheduling ----------------------------
(* Small instances of Scheduling for TLC. *)
EXTENDS Scheduling

CONSTANTS cb, null

(* The modes of the tests in the order of their enum mode. *)
BothTests == [ai10 |-> <<"idle", "sync", "async">>, gt5 |-> <<"idle", "sync">>]
=============================================================================
