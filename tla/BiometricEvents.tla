--------------------------- MODULE BiometricEvents --------------------------
(***************************************************************************)
(* What the asynchronous API of <zephyr/drivers/biometrics.h> promises its *)
(* user: the life of one accepted request as the registered callback sees  *)
(* it.  No locks, threads, semaphores or UART appear here.                 *)
(*                                                                         *)
(* A request is accepted only when the device is idle and a callback is    *)
(* registered.  While it is active it reports results; it then settles on  *)
(* an outcome, which a failing cleanup overrides; a failure is reported by *)
(* one ERROR, every request by exactly one final STOPPED that carries the  *)
(* outcome, and the device stays busy until that callback has returned.    *)
(***************************************************************************)
EXTENDS AI10Status

CONSTANTS Callbacks,     \* the callbacks (with their user data) a caller may register
          NoCallback     \* the NULL callback

VARIABLES phase,         \* where the request is: see Phases
          operation,     \* what was requested: see Operations
          continuous,    \* the request reports results until it is stopped
          callback,      \* the registered callback
          cancel,        \* 1 once a stop was requested
          outcome,       \* the status the request is going to end with
          event          \* the event whose callback is running

vars == <<phase, operation, continuous, callback, cancel, outcome, event>>

Phases == {"idle", "active", "settled", "failed", "stopped"}

Operations == {"IDLE", "IDENTIFY", "ENROLLING"}

(* The results an operation reports, each with the statuses it may carry. *)
Results(op) ==
    IF op = "IDENTIFY"
    THEN {<<"MATCH", "OK">>} \cup {<<"NO_MATCH", ai10_status[s]>> : s \in NoMatchStatuses}
    ELSE {<<"ENROLL_COMPLETE", "OK">>}

NoEvent == [type |-> "NONE", status |-> "OK"]

Event(type, status) == [type |-> type, status |-> status]

Init == /\ phase = "idle"
        /\ operation = "IDLE"
        /\ continuous = FALSE
        /\ callback = NoCallback
        /\ cancel = 0
        /\ outcome = "OK"
        /\ event = NoEvent
-----------------------------------------------------------------------------
(* A callback can be replaced only while no request is in progress. *)
SetCallback ==
    /\ phase = "idle"
    /\ callback' \in Callbacks \cup {NoCallback}
    /\ UNCHANGED <<phase, operation, continuous, cancel, outcome, event>>

Accept ==
    /\ phase = "idle"
    /\ callback # NoCallback
    /\ phase' = "active"
    /\ operation' \in {"IDENTIFY", "ENROLLING"}
    /\ continuous' \in BOOLEAN
    /\ continuous' => operation' = "IDENTIFY"
    /\ cancel' = 0
    /\ UNCHANGED <<callback, outcome, event>>

(* A stop may also arrive when the request has just finished by itself. *)
RequestStop ==
    /\ cancel' = 1
    /\ UNCHANGED <<phase, operation, continuous, callback, outcome, event>>

Result ==
    /\ phase = "active"
    /\ event = NoEvent
    /\ \E r \in Results(operation) : event' = Event(r[1], r[2])
    /\ UNCHANGED <<phase, operation, continuous, callback, cancel, outcome>>

(* The single attempt is over after its first result; a continuous one goes on. *)
ResultReturn ==
    /\ phase = "active"
    /\ event # NoEvent
    /\ event' = NoEvent
    /\ phase' = IF continuous THEN "active" ELSE "settled"
    /\ UNCHANGED <<operation, continuous, callback, cancel, outcome>>

(* The request ends without a result: it is cancelled, or it fails. *)
Settle ==
    /\ phase = "active"
    /\ event = NoEvent
    /\ phase' = "settled"
    /\ outcome' \in Errnos \ {"OK"}
    /\ UNCHANGED <<operation, continuous, callback, cancel, event>>

CleanupFails ==
    /\ phase = "settled"
    /\ event = NoEvent
    /\ outcome' \in Errnos \ {"OK"}
    /\ UNCHANGED <<phase, operation, continuous, callback, cancel, event>>

(* A requested cancellation is not an error; every other failure is one. *)
Quiet == outcome = "OK" \/ (outcome = "ECANCELED" /\ cancel = 1)

ReportError ==
    /\ phase = "settled"
    /\ ~Quiet
    /\ phase' = "failed"
    /\ event' = Event("ERROR", outcome)
    /\ UNCHANGED <<operation, continuous, callback, cancel, outcome>>

ReportStopped ==
    /\ phase = "failed" \/ (phase = "settled" /\ Quiet)
    /\ phase' = "stopped"
    /\ event' = Event("STOPPED", outcome)
    /\ UNCHANGED <<operation, continuous, callback, cancel, outcome>>

StoppedReturn ==
    /\ phase = "stopped"
    /\ event # NoEvent
    /\ event' = NoEvent
    /\ UNCHANGED <<phase, operation, continuous, callback, cancel, outcome>>

(* Only after the STOPPED callback has returned is the device idle again. *)
BecomeIdle ==
    /\ phase = "stopped"
    /\ event = NoEvent
    /\ phase' = "idle"
    /\ operation' = "IDLE"
    /\ outcome' = "OK"
    /\ UNCHANGED <<continuous, callback, cancel, event>>

Next == \/ SetCallback \/ Accept \/ RequestStop
        \/ Result \/ ResultReturn \/ Settle \/ CleanupFails
        \/ ReportError \/ ReportStopped \/ StoppedReturn \/ BecomeIdle

Spec == Init /\ [][Next]_vars
=============================================================================
