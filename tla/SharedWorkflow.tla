--------------------------- MODULE SharedWorkflow ---------------------------
(***************************************************************************)
(* The shared evaluation application (base-shared-workflow/src/main.c): it *)
(* lists the library, interrupts an enrollment, enrolls, identifies and    *)
(* brings the library back to the ids it found.  The device enrolls staged *)
(* (samples_required > 0) or managed, with results as events.              *)
(*                                                                         *)
(* The device keeps the contracts BiometricStore and BiometricEvents, and  *)
(* any call of it may fail.  One action is one call of the application, or *)
(* one event of the device; a callback's only access to shared state is    *)
(* its put into the event queue, which is one action with the report.      *)
(***************************************************************************)
EXTENDS TestedDevice, Naturals, Sequences, FiniteSets

CONSTANTS max_templates, \* capacity of the library
          SampleCounts,  \* values of enrollment_samples_required to consider
          QueueSize,     \* events the message queue has room for
          MaxRuns        \* bound: runs of the command

ASSUME WorkflowAssumption ==
    /\ max_templates \in Nat \ {0}
    /\ SampleCounts \subseteq Nat
    /\ QueueSize \in Nat \ {0} /\ MaxRuns \in Nat
    /\ OnEvent # NoCallback

VARIABLES
    \* the library of the device, and its next managed enrollment
    db, open, template_id,
    fresh,              \* the id the managed enrollment has stored, or 0
    samples_required,   \* what it says of its enrollment
    \* the application
    events, event_loss,
    poisoned, baseline, id, stop_ret,
    result,             \* struct outcome
    taken,              \* captures of the staged enrollment
    todo,               \* the ids restore_inventory still has to delete
    pc, why,            \* the next call, and the phase an inventory is taken for
    attempt,            \* which of its two enrollments the workflow is at
    verdict,
    \* history
    runs, found, user,  \* the library at the begin of the run, and of the first run
    delivered           \* the events of the last request the callback was called with

deviceVars == <<phase, operation, continuous, callback, cancel, outcome, event, fresh>>
storeVars == <<db, open, template_id>>
queueVars == <<events, event_loss, delivered>>
dataVars == <<poisoned, baseline, id, stop_ret, result, taken, todo>>
scriptVars == <<pc, why, attempt, verdict>>
historyVars == <<runs, found, user, samples_required>>
vars == <<deviceVars, storeVars, queueVars, dataVars, scriptVars, historyVars>>

Ids == 1 .. max_templates

Store == INSTANCE BiometricStore WITH calls <- {}

staged == samples_required > 0

NoResult == [enrolled |-> 0, stopped |-> 0, errors |-> 0, terminal |-> "OK", id |-> 0]

Init == /\ Contract!Init /\ Store!Init
        /\ fresh = 0
        /\ samples_required \in SampleCounts
        /\ events = <<>> /\ event_loss = 0 /\ delivered = <<>>
        /\ poisoned = FALSE
        /\ baseline = {} /\ todo = {}
        /\ id = 0 /\ taken = 0
        /\ stop_ret = "OK"
        /\ result = NoResult
        /\ pc = "shell" /\ why = "baseline" /\ attempt = "interruption"
        /\ verdict = "none"
        /\ runs = 0 /\ found = {} /\ user = db
-----------------------------------------------------------------------------
(***************************************************************************)
(* The device enrolling on its own, and the callback.                      *)
(***************************************************************************)

DeviceStores ==
    /\ phase = "active" /\ event = Contract!NoEvent /\ fresh = 0
    /\ \E i \in Ids \ db : Store!TemplateStore(i) /\ fresh' = i
    /\ UNCHANGED <<phase, operation, continuous, callback, cancel, outcome, event, queueVars,
                   dataVars, scriptVars, historyVars>>

(* on_event(): what does not fit is counted. *)
OnEventCalled ==
    LET e == [type |-> event'.type, status |-> event'.status, id |-> fresh]
    IN  /\ delivered' = Append(delivered, e)
        /\ IF Len(events) < QueueSize
           THEN events' = Append(events, e) /\ UNCHANGED event_loss
           ELSE event_loss' = event_loss + 1 /\ UNCHANGED events

DeviceReports ==
    /\ \/ fresh # 0 /\ Contract!Result
       \/ Contract!ReportError
       \/ Contract!ReportStopped
    /\ OnEventCalled
    /\ UNCHANGED <<fresh, storeVars, dataVars, scriptVars, historyVars>>

DeviceGoesOn ==
    /\ \/ Contract!ResultReturn \/ Contract!Settle \/ Contract!CleanupFails
       \/ Contract!StoppedReturn \/ Contract!BecomeIdle
    /\ UNCHANGED <<fresh, storeVars, queueVars, dataVars, scriptVars, historyVars>>

Device == DeviceStores \/ DeviceReports \/ DeviceGoesOn
-----------------------------------------------------------------------------
(***************************************************************************)
(* The command and its inventories.                                        *)
(***************************************************************************)

List(purpose) == pc' = "list" /\ why' = purpose /\ UNCHANGED <<attempt, verdict>>

End(v) == pc' = "shell" /\ verdict' = v /\ UNCHANGED <<why, attempt>>

Goto(call) == pc' = call /\ UNCHANGED <<why, attempt, verdict>>

(* recover_failure: the database is left alone after an unconfirmed idle state. *)
Recover == IF poisoned' THEN End("FAIL") ELSE List("failed_run_cleanup")

(* cmd_run() from the shell; refused for good once the application is poisoned. *)
Begin ==
    /\ pc = "shell" /\ ~poisoned
    /\ runs < MaxRuns
    /\ runs' = runs + 1
    /\ found' = db
    /\ attempt' = "interruption" /\ verdict' = "none"
    /\ pc' = "list" /\ why' = "baseline"
    /\ UNCHANGED <<deviceVars, storeVars, queueVars, dataVars, user, samples_required>>

(* The lowest id not in the baseline; for a managed enrollment 0, BIOMETRIC_ID_AUTO. *)
free_id(used) == IF staged THEN {i \in Ids \ used : \A j \in Ids \ used : i <= j}
                 ELSE {0}

(* Mutants: Bug_F is F with one plausible mistake. *)

(* A failed inventory is an empty one. *)
Bug_InventoryFails ==
    /\ pc \in {"list", "relist"}
    /\ IF why = "baseline" THEN Goto("wait") ELSE End("FAIL")
    /\ UNCHANGED <<deviceVars, storeVars, queueVars, dataVars, historyVars>>

InventoryFails ==
    /\ pc \in {"list", "relist"}
    /\ End("FAIL")
    /\ UNCHANGED <<deviceVars, storeVars, queueVars, dataVars, historyVars>>

TakeBaseline ==
    /\ pc = "list" /\ why = "baseline"
    /\ baseline' = db
    /\ IF samples_required = 1 \/ free_id(db) = {}
       THEN End("FAIL") /\ UNCHANGED id
       ELSE id' \in free_id(db) /\ Goto(IF staged THEN "start" ELSE "wait")
    /\ UNCHANGED <<deviceVars, storeVars, queueVars, historyVars, poisoned, stop_ret, result,
                   taken, todo>>

(* Only read before the cleanup, to record what the interruption left. *)
LookAfterInterrupt ==
    /\ pc = "list" /\ why = "after_interrupt"
    /\ List("recovery_cleanup")
    /\ UNCHANGED <<deviceVars, storeVars, queueVars, dataVars, historyVars>>

CheckEnrolled ==
    /\ pc = "list" /\ why = "after_enrollment"
    /\ IF id \in baseline \/ id \notin db \/ Cardinality(db) # Cardinality(baseline) + 1
       THEN List("failed_run_cleanup")
       ELSE IF baseline \subseteq db THEN Goto("match") ELSE End("FAIL")
    /\ UNCHANGED <<deviceVars, storeVars, queueVars, dataVars, historyVars>>

Cleanups == {"recovery_cleanup", "final_cleanup", "failed_run_cleanup"}

(* restore_inventory(): without an original nothing is deleted. *)
BeginRestore ==
    /\ pc = "list" /\ why \in Cleanups
    /\ IF baseline \subseteq db THEN todo' = db \ baseline /\ Goto("delete")
       ELSE End("FAIL") /\ UNCHANGED todo
    /\ UNCHANGED <<deviceVars, storeVars, queueVars, historyVars, poisoned, baseline, id,
                   stop_ret, result, taken>>

DeleteNew ==
    /\ pc = "delete"
    /\ \E i \in todo :
        \/ Store!TemplateDelete(i) /\ todo' = todo \ {i} /\ UNCHANGED scriptVars
        \/ (Store!TemplateDelete(i) \/ UNCHANGED storeVars) /\ End("FAIL") /\ UNCHANGED todo
    /\ UNCHANGED <<deviceVars, queueVars, historyVars, poisoned, baseline, id, stop_ret, result,
                   taken>>

AllDeleted ==
    /\ pc = "delete" /\ todo = {}
    /\ Goto("relist")
    /\ UNCHANGED <<deviceVars, storeVars, queueVars, dataVars, historyVars>>

(* The restored library is compared with the baseline. *)
Restored ==
    /\ pc = "relist"
    /\ IF db = baseline /\ why = "recovery_cleanup"
       THEN /\ attempt' = "successful_workflow" /\ pc' = "start"
            /\ id' \in free_id(baseline)
            /\ UNCHANGED <<why, verdict>>
       ELSE /\ End(IF db = baseline /\ why = "final_cleanup" THEN "PASS" ELSE "FAIL")
            /\ UNCHANGED id
    /\ UNCHANGED <<deviceVars, storeVars, queueVars, historyVars, poisoned, baseline, stop_ret,
                   result, taken, todo>>
-----------------------------------------------------------------------------
(***************************************************************************)
(* Staged enrollment.                                                      *)
(***************************************************************************)

interrupted == attempt = "interruption"

StagedStart ==
    /\ pc = "start" /\ staged
    /\ taken' = 0
    /\ \/ Store!EnrollStart(id) /\ Goto("capture") /\ UNCHANGED poisoned
       \/ /\ Store!EnrollStart(id) \/ UNCHANGED storeVars
          /\ poisoned' = TRUE
          /\ End("FAIL")
    /\ UNCHANGED <<deviceVars, queueVars, historyVars, baseline, id, stop_ret, result, todo>>

(* A capture that fails may have ended the enrollment. *)
Capture ==
    /\ pc = "capture"
    /\ \/ /\ open /\ taken' = taken + 1
          /\ \/ UNCHANGED storeVars
             \/ taken' = samples_required /\ Store!EnrollCapture
          /\ Goto(IF interrupted THEN "abort"
                  ELSE IF taken' = samples_required THEN "finalize" ELSE "capture")
       \/ /\ UNCHANGED storeVars \/ Store!EnrollAbort
          /\ Goto("abandon") /\ UNCHANGED taken
    /\ UNCHANGED <<deviceVars, queueVars, historyVars, poisoned, baseline, id, stop_ret, result,
                   todo>>

(* A finalize that fails may have stored the template or ended the enrollment. *)
Finalize ==
    /\ pc = "finalize"
    /\ \/ Store!EnrollFinalize /\ List("after_enrollment")
       \/ /\ \/ UNCHANGED storeVars \/ Store!EnrollCapture
             \/ Store!EnrollFinalize \/ Store!EnrollAbort
          /\ Goto("abandon")
    /\ UNCHANGED <<deviceVars, queueVars, dataVars, historyVars>>

(* A failed abort is forgotten. *)
Bug_AbortStaged ==
    /\ pc \in {"abort", "abandon"}
    /\ \/ Store!EnrollAbort \/ UNCHANGED storeVars
    /\ UNCHANGED poisoned
    /\ IF pc = "abort" THEN List("after_interrupt") ELSE Recover
    /\ UNCHANGED <<deviceVars, queueVars, historyVars, baseline, id, stop_ret, result, taken,
                   todo>>

(* abort_staged(): -EALREADY is as good as 0. *)
AbortStaged ==
    /\ pc \in {"abort", "abandon"}
    /\ \/ /\ Store!EnrollAbort \/ (~open /\ UNCHANGED storeVars)
          /\ UNCHANGED poisoned
          /\ IF pc = "abort" THEN List("after_interrupt") ELSE Recover
       \/ /\ open /\ UNCHANGED storeVars
          /\ poisoned' = TRUE
          /\ Recover
    /\ UNCHANGED <<deviceVars, queueVars, historyVars, baseline, id, stop_ret, result, taken,
                   todo>>
-----------------------------------------------------------------------------
(***************************************************************************)
(* Managed enrollment.                                                     *)
(***************************************************************************)

(* What was left in the queue is thrown away; a refused request leaves the device idle. *)
ManagedStart ==
    /\ pc = "start" /\ ~staged
    /\ events' = <<>> /\ event_loss' = 0
    /\ result' = NoResult
    /\ stop_ret' = "OK"
    /\ UNCHANGED <<storeVars, historyVars, poisoned, baseline, id, taken, todo>>
    /\ \/ /\ Contract!Accept /\ operation' = "ENROLLING"
          /\ fresh' = 0 /\ delivered' = <<>>
          /\ Goto(IF interrupted THEN "stop" ELSE "consume")
       \/ /\ Recover
          /\ UNCHANGED <<deviceVars, delivered>>

(* biometric_async_stop(): the request may have ended by itself. *)
Stop ==
    /\ pc = "stop"
    /\ \/ /\ phase = "idle" /\ stop_ret' = "EALREADY"
          /\ Goto("consume")
          /\ UNCHANGED deviceVars
       \/ /\ phase # "idle" /\ Contract!RequestStop
          /\ Goto("stopping")
          /\ UNCHANGED <<fresh, stop_ret>>
    /\ UNCHANGED <<storeVars, queueVars, historyVars, poisoned, baseline, id, result, taken, todo>>

StopReturns ==
    /\ pc = "stopping" /\ phase = "idle"
    /\ Goto("consume")
    /\ UNCHANGED <<deviceVars, storeVars, queueVars, dataVars, historyVars>>

(* consume_events(): one event; STOPPED is the last. *)
Consume ==
    /\ pc = "consume" /\ events # <<>>
    /\ events' = Tail(events)
    /\ LET e == Head(events)
       IN  /\ result' = CASE e.type = "ENROLL_COMPLETE" ->
                               [result EXCEPT !.enrolled = @ + 1, !.id = e.id]
                        [] e.type = "ERROR" -> [result EXCEPT !.errors = @ + 1]
                        [] e.type = "STOPPED" ->
                               [result EXCEPT !.stopped = @ + 1, !.terminal = e.status]
           /\ Goto(IF e.type = "STOPPED" THEN "register" ELSE "consume")
    /\ UNCHANGED <<deviceVars, storeVars, historyVars, event_loss, delivered, poisoned, baseline,
                   id, stop_ret, taken, todo>>

(* EVENT_WAIT_MS and IDLE_WAIT_MS may pass at any time. *)
WaitTimesOut ==
    /\ \/ pc = "consume"
       \/ pc \in {"wait", "register"} /\ phase # "idle"
    /\ poisoned' = TRUE
    /\ End("FAIL")
    /\ UNCHANGED <<deviceVars, storeVars, queueVars, historyVars, baseline, id, stop_ret, result,
                   taken, todo>>

(* Lost events are not looked at. *)
Bug_Register ==
    /\ pc \in {"wait", "register"}
    /\ Contract!SetCallback /\ callback' = OnEvent
    /\ UNCHANGED poisoned
    /\ IF pc = "wait" THEN Goto("start")
       ELSE IF events # <<>> THEN Recover ELSE Goto("judge")
    /\ events' = <<>>
    /\ UNCHANGED <<fresh, storeVars, historyVars, event_loss, delivered, baseline, id, stop_ret,
                   result, taken, todo>>

(* wait_idle() succeeds when the callback can be registered: the device is idle and *)
(* no event is on its way; one that is left or was lost makes the request fail.     *)
Register ==
    /\ pc \in {"wait", "register"}
    /\ Contract!SetCallback /\ callback' = OnEvent
    /\ UNCHANGED poisoned
    /\ IF pc = "wait" THEN Goto("start")
       ELSE IF events # <<>> \/ event_loss > 0 THEN Recover ELSE Goto("judge")
    /\ events' = <<>>
    /\ UNCHANGED <<fresh, storeVars, historyVars, event_loss, delivered, baseline, id, stop_ret,
                   result, taken, todo>>

(* What managed() makes of the events: an interrupted request must have been cancelled, *)
(* the other one must have enrolled one template, of the modality that was asked for.  *)
Cancelled == /\ stop_ret = "OK" /\ result.enrolled = 0 /\ result.errors = 0
             /\ result.terminal = "ECANCELED"
Enrolled == /\ result.enrolled = 1 /\ result.errors = 0 /\ result.terminal = "OK"
            /\ result.id \in Ids

Judge ==
    /\ pc = "judge"
    /\ UNCHANGED poisoned
    /\ \/ /\ interrupted /\ Cancelled
          /\ List("after_interrupt")
       \/ /\ ~interrupted /\ Enrolled
          /\ List("after_enrollment")
       \/ /\ interrupted => ~Cancelled
          /\ Recover
    /\ id' = IF pc' = "list" /\ why' # "failed_run_cleanup" THEN result.id ELSE id
    /\ UNCHANGED <<deviceVars, storeVars, queueVars, historyVars, baseline, stop_ret, result,
                   taken, todo>>
-----------------------------------------------------------------------------
(* The library is not restored after the identification. *)
Bug_Identify ==
    /\ pc = "match"
    /\ End("PASS") \/ List("failed_run_cleanup")
    /\ UNCHANGED <<deviceVars, storeVars, queueVars, dataVars, historyVars>>

(* It may fail, or report another template or modality. *)
Identify ==
    /\ pc = "match"
    /\ List("final_cleanup") \/ List("failed_run_cleanup")
    /\ UNCHANGED <<deviceVars, storeVars, queueVars, dataVars, historyVars>>

Workflow ==
    \/ InventoryFails \/ TakeBaseline \/ LookAfterInterrupt \/ CheckEnrolled
    \/ BeginRestore \/ DeleteNew \/ AllDeleted \/ Restored
    \/ StagedStart \/ Capture \/ Finalize \/ AbortStaged
    \/ ManagedStart \/ Stop \/ StopReturns \/ Consume \/ WaitTimesOut \/ Register \/ Judge
    \/ Identify

Next == Begin \/ Workflow \/ Device

Spec == Init /\ [][Next]_vars

-----------------------------------------------------------------------------
(***************************************************************************)
(* Properties.                                                             *)
(***************************************************************************)

Calls == {"shell", "list", "delete", "relist", "wait", "start", "capture", "finalize", "abort",
          "abandon", "stop", "stopping", "consume", "register", "judge", "match"}

(* No template that was in the library before the first run is ever deleted, however  *)
(* runs fail: "only IDs absent before this run are deleted" (main.c:99) and an error  *)
(* "is never treated as a partial or empty inventory" (main.c:66).                    *)
UserTemplatesSurvive == user \subseteq db

(* A run that reports PASS has left the library as it found it and the device idle,   *)
(* whatever failed or came late in the runs before it.                                *)
PassMeansRestored ==
    verdict = "PASS" => /\ db = found
                        /\ phase = "idle" /\ ~open

(* The points of the workflow that use the database or start an operation. *)
ControlCalls == {"list", "delete", "relist", "match", "start"}

(* "Never attempt database control unless host-side inactivity is known" (main.c:382): *)
(* neither a request nor an enrollment is in progress whenever the workflow goes on    *)
(* to the database, through failed aborts, timeouts and the next run.                  *)
NoControlUnlessIdle == pc \in ControlCalls => phase = "idle" /\ ~open

Delivered(type) == Cardinality({i \in DOMAIN delivered : delivered[i].type = type})

(* The workflow judges a request by all its events: consume_events() does not return 0 *)
(* when one was lost, is still queued, or is about to be reported.                     *)
EventsAccounted ==
    pc = "judge" => /\ result.enrolled = Delivered("ENROLL_COMPLETE")
                    /\ result.errors = Delivered("ERROR")
                    /\ result.stopped = 1 /\ Delivered("STOPPED") = 1

-----------------------------------------------------------------------------
(***************************************************************************)
(* The inductive invariant behind the three safety properties.             *)
(***************************************************************************)

(* Which of request and enrollment may be in progress, and that the shell is left *)
(* alone only with neither or for good.                                           *)
NothingInProgress == phase = "idle" /\ ~open

Sessions ==
    /\ pc \in ControlCalls \cup {"wait", "judge"} => NothingInProgress
    /\ pc \in {"capture", "finalize", "abort", "abandon"} => phase = "idle"
    /\ pc \in {"stop", "stopping", "consume", "register"} => ~open
    /\ pc = "shell" => poisoned \/ NothingInProgress
    /\ pc \in Calls
    /\ poisoned => pc = "shell"

(* From its first inventory to its end a run knows the library it found. *)
BaselineKept ==
    /\ pc = "list" /\ why = "baseline" => db = found
    /\ pc # "shell" => \/ pc = "list" /\ why = "baseline"
                       \/ baseline = found
    /\ verdict = "PASS" => pc = "shell" /\ ~poisoned /\ db = found

(* What a run deletes was not there before. *)
OnlyNewDeleted ==
    /\ user \subseteq db
    /\ pc # "shell" => user \subseteq found
    /\ pc = "delete" => todo \cap baseline = {}

IInv == Sessions /\ BaselineKept /\ OnlyNewDeleted

-----------------------------------------------------------------------------
(***************************************************************************)
(* The inductive invariant behind EventsAccounted, on top of IInv.         *)
(***************************************************************************)

Reports == [type : {"ENROLL_COMPLETE", "ERROR", "STOPPED"}, status : Contract!Errnos,
            id : Ids \cup {0}]

Outcomes == [enrolled : Nat, stopped : Nat, errors : Nat, terminal : Contract!Errnos,
             id : Ids \cup {0}]

EventsTyped ==
    /\ phase # "idle" => operation = "ENROLLING"
    /\ outcome \in Contract!Errnos /\ fresh \in Ids \cup {0}
    /\ delivered \in Seq(Reports) /\ events \in Seq(Reports) /\ event_loss \in Nat
    /\ result \in Outcomes

(* The events consume_events() has taken, and how many of them are of one kind. *)
Consumed == Len(delivered) - Len(events)
OfType(s, n, type) == {i \in 1 .. n : s[i].type = type}
Among(n, type) == Cardinality(OfType(delivered, n, type))

RequestCalls == {"stop", "stopping", "consume", "register"}

(* As long as none is lost, the queue holds the last events that were reported and the *)
(* result counts the ones before them.                                                  *)
QueueIsRest ==
    pc \in RequestCalls /\ event_loss = 0 =>
        /\ Consumed >= 0
        /\ \A i \in 1 .. Len(events) : events[i] = delivered[Consumed + i]
        /\ result.enrolled = Among(Consumed, "ENROLL_COMPLETE")
        /\ result.errors = Among(Consumed, "ERROR")
        /\ result.stopped = Among(Consumed, "STOPPED")

StoppedOnce ==
    /\ pc \in {"stop", "stopping", "consume"} => result.stopped = 0
    /\ pc \in {"register", "judge"} => result.stopped = 1

EventsInv == EventsTyped /\ QueueIsRest /\ StoppedOnce /\ EventsAccounted
=============================================================================
