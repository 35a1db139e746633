---------------------------- MODULE MCAI10Async -----------------------------
(* Small instances of AI10Async for TLC. *)
EXTENDS AI10Async

CONSTANTS c1, c2, w, none, cb1, null

TwoCallers == {c1, c2}
OneCaller == {c1}
OneCallback == {cb1}

(* One status of each kind: success, a no-match result, cancellation, failure. *)
KindsOfStatus == {"OK", "UNKNOWN_USER", "ABORTED", "REJECTED"}

(* A result and a failure: enough for what happens eventually. *)
ResultOrFailure == {"OK", "REJECTED"}
=============================================================================
