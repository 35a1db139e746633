----------------------------- MODULE TestedDevice -----------------------------
(***************************************************************************)
(* A device as the applications under samples and tests see it: the        *)
(* request that is under way and the one callback they register.           *)
(***************************************************************************)
CONSTANTS OnEvent,    \* the application's callback
          NoCallback  \* the NULL callback

VARIABLES phase, operation, continuous, callback, cancel, outcome, event

contractVars == <<phase, operation, continuous, callback, cancel, outcome, event>>

Contract == INSTANCE BiometricEvents WITH Callbacks <- {OnEvent}
=============================================================================
