------------------------------ MODULE AI10Async -----------------------------
(***************************************************************************)
(* The asynchronous driver of the AI10 sensor (biometrics_ai10.c): API     *)
(* callers, the worker thread that runs one request at a time and invokes  *)
(* the callback, and the UART receive interrupt.  They share a mutex taken *)
(* without waiting, the semaphores request, done and rx_ready, the atomics *)
(* operation, cancel and rx_error, and the receive ring.                   *)
(*                                                                         *)
(* Each action is one atomic access to that shared state, so the accesses  *)
(* interleave as on a preemptive or multi-core kernel.  The ring holds     *)
(* chunks of bytes whose meaning is chosen when they are read; which frame *)
(* answers which command is the subject of AI10Link.                       *)
(***************************************************************************)
EXTENDS AI10Status, Naturals

CONSTANTS Callers,          \* the application threads
          Worker,           \* the driver's own thread, which runs the callbacks
          NoThread,         \* owner of the free mutex
          Callbacks,        \* the callbacks an application may register
          NoCallback,       \* the NULL callback
          RxCapacity,       \* chunks the receive ring holds
          DeviceStatuses    \* the reply statuses the sensor uses

ASSUME AsyncAssumption ==
    /\ Worker \notin Callers
    /\ NoThread \notin Callers \cup {Worker}
    /\ NoCallback \notin Callbacks
    /\ RxCapacity \in Nat \ {0}
    /\ DeviceStatuses \subseteq Statuses

Threads == Callers \cup {Worker}

VARIABLES
    mutex,          \* owner of data->lock
    pc,             \* where each thread is in an API call: see CallPoints
    req,            \* the API call it is making
    ret,            \* what that call is going to return
    operation, cancel, callback, continuous, stopResult,    \* struct ai10_data
    request, done, rxReady,                                 \* its semaphores, limit 1
    rx, rxError,    \* chunks in the receive ring, and the overrun flag
    isr,            \* the UART interrupt: idle, or between its store and its signal
    wpc,            \* where the worker is in ai10_thread(): see WorkPoints
    wret,           \* ret of ai10_thread()
    deadline,       \* of the worker's receive: none, pending or passed
    event           \* the event whose callback is running

callVars == <<mutex, pc, req, ret>>
stateVars == <<operation, cancel, callback, continuous, stopResult, request, done>>
rxVars == <<rx, rxError, rxReady, isr>>
workVars == <<wpc, wret, deadline, event>>
vars == <<callVars, stateVars, rxVars, workVars>>

StartRequests == {"identify", "identify_continuous", "enroll"}
SyncRequests == {"delete", "list", "match"}
Requests == StartRequests \cup SyncRequests \cup {"callback_set", "stop"}
NoRequest == "none"

CallPoints == {"ready", "locked", "owner", "arm", "stop_cancel", "stop_wake", "stop_wait",
               "sync_reset", "sync_command", "sync_cleanup", "sync_cleanup_reply", "unlock"}

ReceivePoints == {"rx", "err", "get", "sleep"}
CallbackPoints == {"result_cb", "error_cb", "stopped_cb"}
WorkPoints == {"wait", "reset", "reset_reply", "begin", "cleanup", "cleanup_reply",
               "report", "idle", "give"} \cup ReceivePoints \cup CallbackPoints

ResultTypes == {"MATCH", "NO_MATCH", "ENROLL_COMPLETE"}
NoEvent == [type |-> "NONE", status |-> "OK"]
Event(type, status) == [type |-> type, status |-> status]

Init == /\ mutex = NoThread
        /\ pc = [t \in Threads |-> "ready"]
        /\ req = [t \in Threads |-> NoRequest]
        /\ ret = [t \in Threads |-> "OK"]
        /\ operation = "IDLE"
        /\ cancel = 0
        /\ callback = NoCallback
        /\ continuous = FALSE
        /\ stopResult = "OK"
        /\ request = 0
        /\ done = 0
        /\ rx = 0
        /\ rxError = 0
        /\ rxReady = 0
        /\ isr = "idle"
        /\ wpc = "wait"
        /\ wret = "OK"
        /\ deadline = "none"
        /\ event = NoEvent
-----------------------------------------------------------------------------
(***************************************************************************)
(* The UART interrupt, and what a receive may find in the ring.            *)
(***************************************************************************)

(* Mutants.  Bug_F is F with one plausible mistake; no specification uses it, and *)
(* each property below is checked to fail when some F is replaced by its Bug_F.   *)

(* Store the FIFO in the ring; what does not fit is lost. *)
IsrStore ==
    /\ isr = "idle"
    /\ IF rx < RxCapacity
       THEN rx' = rx + 1 /\ isr' = "stored"
       ELSE rx' = rx /\ isr' = "short"
    /\ UNCHANGED <<callVars, stateVars, rxError, rxReady, workVars>>

(* Only bytes wake the worker, an overrun does not. *)
Bug_IsrSignal ==
    /\ isr # "idle"
    /\ rxError' = IF isr = "short" THEN 1 ELSE rxError
    /\ rxReady' = IF isr = "stored" THEN 1 ELSE rxReady
    /\ isr' = "idle"
    /\ UNCHANGED <<callVars, stateVars, rx, workVars>>

IsrSignal ==
    /\ isr # "idle"
    /\ rxError' = IF isr = "short" THEN 1 ELSE rxError
    /\ rxReady' = 1
    /\ isr' = "idle"
    /\ UNCHANGED <<callVars, stateVars, rx, workVars>>

(* Discard what an earlier exchange left behind, then send RESET. *)
ClearReceive ==
    /\ rx' = 0
    /\ rxError' = 0
    /\ UNCHANGED <<rxReady, isr>>

ReplyResults == {ai10_status[s] : s \in DeviceStatuses} \cup FrameErrors

(* A reply awaited to its deadline without regard to cancel ends with r: the *)
(* status of a frame in the ring, an overrun, or the deadline.               *)
AwaitReply(r) ==
    /\ \/ r \in ReplyResults /\ rx > 0 /\ rx' \in 0..(rx - 1)
       \/ r = "ENOBUFS" /\ rxError = 1 /\ rx' \in 0..rx
       \/ r = "ETIMEDOUT" /\ rx' \in 0..rx
    /\ rxReady' \in {0, rxReady}
    /\ UNCHANGED <<rxError, isr>>

AwaitResults == ReplyResults \cup {"ENOBUFS", "ETIMEDOUT"}
-----------------------------------------------------------------------------
(***************************************************************************)
(* API calls.  A call that ai10_lock() or an argument check turns away has *)
(* no effect and is left out.                                              *)
(***************************************************************************)

LockResult(t) ==
    IF t = Worker THEN "EWOULDBLOCK"
    ELSE IF mutex = NoThread THEN "OK" ELSE "EBUSY"

(* The worker runs application code only inside a callback. *)
CanCall(t) == pc[t] = "ready" /\ (t = Worker => wpc \in CallbackPoints)

Call(t) ==
    /\ CanCall(t)
    /\ LockResult(t) = "OK"
    /\ mutex' = t
    /\ pc' = [pc EXCEPT ![t] = "locked"]
    /\ \E r \in Requests : req' = [req EXCEPT ![t] = r]
    /\ UNCHANGED <<ret, stateVars, rxVars, workVars>>

Return(t, r) ==
    /\ ret' = [ret EXCEPT ![t] = r]
    /\ pc' = [pc EXCEPT ![t] = "unlock"]

(* The lock alone is taken for an idle driver. *)
Bug_CheckIdle(t) ==
    /\ pc[t] = "locked"
    /\ req[t] # "stop"
    /\ pc' = [pc EXCEPT ![t] = "owner"]
    /\ UNCHANGED <<mutex, req, ret, stateVars, rxVars, workVars>>

(* The rest of ai10_lock_idle(): every call but stop needs an idle driver. *)
CheckIdle(t) ==
    /\ pc[t] = "locked"
    /\ req[t] # "stop"
    /\ IF operation # "IDLE"
       THEN Return(t, "EBUSY")
       ELSE pc' = [pc EXCEPT ![t] = "owner"] /\ UNCHANGED ret
    /\ UNCHANGED <<mutex, req, stateVars, rxVars, workVars>>

SetCallback(t) ==
    /\ pc[t] = "owner"
    /\ req[t] = "callback_set"
    /\ callback' \in Callbacks \cup {NoCallback}
    /\ Return(t, "OK")
    /\ UNCHANGED <<mutex, req, operation, cancel, continuous, stopResult, request, done>>
    /\ UNCHANGED <<rxVars, workVars>>

StartRejected(t) ==
    /\ pc[t] = "owner"
    /\ req[t] \in StartRequests
    /\ callback = NoCallback
    /\ Return(t, "EINVAL")
    /\ UNCHANGED <<mutex, req, stateVars, rxVars, workVars>>

(* biometric_*_async() does not take state_lock. *)
Bug_StateLocked == FALSE

(* The worker holds state_lock from clearing operation to giving done. *)
StateLocked == wpc = "give"

(* The token of a request nobody stopped is left for the next one. *)
Bug_FreshTokens == cancel' = 0 /\ UNCHANGED done

(* A request starts without a stop aimed at it and without a done token. *)
FreshTokens == cancel' = 0 /\ done' = 0

StartAccepted(t) ==
    /\ pc[t] = "owner"
    /\ req[t] \in StartRequests
    /\ callback # NoCallback
    /\ ~StateLocked
    /\ continuous' = (req[t] = "identify_continuous")
    /\ FreshTokens
    /\ operation' = IF req[t] = "enroll" THEN "ENROLLING" ELSE "IDENTIFY"
    /\ pc' = [pc EXCEPT ![t] = "arm"]
    /\ UNCHANGED <<mutex, req, ret, callback, stopResult, request, rxVars, workVars>>

GiveRequest(t) ==
    /\ pc[t] = "arm"
    /\ request' = 1
    /\ Return(t, "OK")
    /\ UNCHANGED <<mutex, req, operation, cancel, callback, continuous, stopResult, done>>
    /\ UNCHANGED <<rxVars, workVars>>

StopCheck(t) ==
    /\ pc[t] = "locked"
    /\ req[t] = "stop"
    /\ IF operation = "IDLE"
       THEN Return(t, "EALREADY")
       ELSE pc' = [pc EXCEPT ![t] = "stop_cancel"] /\ UNCHANGED ret
    /\ UNCHANGED <<mutex, req, stateVars, rxVars, workVars>>

StopCancel(t) ==
    /\ pc[t] = "stop_cancel"
    /\ cancel' = 1
    /\ pc' = [pc EXCEPT ![t] = "stop_wake"]
    /\ UNCHANGED <<mutex, req, ret, operation, callback, continuous, stopResult>>
    /\ UNCHANGED <<request, done, rxVars, workVars>>

(* The stop only sets the flag. *)
Bug_StopWake(t) ==
    /\ pc[t] = "stop_wake"
    /\ pc' = [pc EXCEPT ![t] = "stop_wait"]
    /\ UNCHANGED <<mutex, req, ret, stateVars, rxVars, workVars>>

StopWake(t) ==
    /\ pc[t] = "stop_wake"
    /\ rxReady' = 1
    /\ pc' = [pc EXCEPT ![t] = "stop_wait"]
    /\ UNCHANGED <<mutex, req, ret, stateVars, rx, rxError, isr, workVars>>

StopWait(t) ==
    /\ pc[t] = "stop_wait"
    /\ done = 1
    /\ done' = 0
    /\ Return(t, stopResult)
    /\ UNCHANGED <<mutex, req, operation, cancel, callback, continuous, stopResult>>
    /\ UNCHANGED <<request, rxVars, workVars>>

SyncReset(t) ==
    /\ pc[t] = "owner"
    /\ req[t] \in SyncRequests
    /\ ClearReceive
    /\ pc' = [pc EXCEPT ![t] = "sync_reset"]
    /\ UNCHANGED <<mutex, req, ret, stateVars, workVars>>

SyncResetReply(t) ==
    /\ pc[t] = "sync_reset"
    /\ \E r \in AwaitResults :
        /\ AwaitReply(r)
        /\ IF r # "OK"
           THEN Return(t, r)
           ELSE pc' = [pc EXCEPT ![t] = "sync_command"] /\ UNCHANGED ret
    /\ UNCHANGED <<mutex, req, stateVars, workVars>>

(* A listing reads one reply per page of its directory. *)
SyncPage(t) ==
    /\ pc[t] = "sync_command"
    /\ req[t] = "list"
    /\ AwaitReply("OK")
    /\ UNCHANGED <<callVars, stateVars, workVars>>

(* Matching cleans up with a RESET of its own, whatever the verdict was. *)
SyncCommandReply(t) ==
    /\ pc[t] = "sync_command"
    /\ \E r \in AwaitResults :
        /\ AwaitReply(r)
        /\ IF req[t] = "match"
           THEN /\ ret' = [ret EXCEPT ![t] = r]
                /\ pc' = [pc EXCEPT ![t] = "sync_cleanup"]
           ELSE Return(t, r)
    /\ UNCHANGED <<mutex, req, stateVars, workVars>>

SyncCleanup(t) ==
    /\ pc[t] = "sync_cleanup"
    /\ ClearReceive
    /\ pc' = [pc EXCEPT ![t] = "sync_cleanup_reply"]
    /\ UNCHANGED <<mutex, req, ret, stateVars, workVars>>

SyncCleanupReply(t) ==
    /\ pc[t] = "sync_cleanup_reply"
    /\ \E r \in AwaitResults :
        /\ AwaitReply(r)
        /\ Return(t, IF r # "OK" THEN r ELSE ret[t])
    /\ UNCHANGED <<mutex, req, stateVars, workVars>>

Unlock(t) ==
    /\ pc[t] = "unlock"
    /\ mutex' = NoThread
    /\ pc' = [pc EXCEPT ![t] = "ready"]
    /\ req' = [req EXCEPT ![t] = NoRequest]
    /\ ret' = [ret EXCEPT ![t] = "OK"]
    /\ UNCHANGED <<stateVars, rxVars, workVars>>

CallStep(t) ==
    \/ CheckIdle(t) \/ SetCallback(t) \/ StartRejected(t) \/ StartAccepted(t)
    \/ GiveRequest(t) \/ StopCheck(t) \/ StopCancel(t) \/ StopWake(t) \/ StopWait(t)
    \/ SyncReset(t) \/ SyncResetReply(t) \/ SyncPage(t) \/ SyncCommandReply(t)
    \/ SyncCleanup(t) \/ SyncCleanupReply(t) \/ Unlock(t)
-----------------------------------------------------------------------------
(***************************************************************************)
(* The worker: ai10_thread() and the operations it runs.                   *)
(***************************************************************************)

TakeRequest ==
    /\ wpc = "wait"
    /\ request = 1
    /\ request' = 0
    /\ wpc' = "reset"
    /\ UNCHANGED <<callVars, operation, cancel, callback, continuous, stopResult, done>>
    /\ UNCHANGED <<rxVars, wret, deadline, event>>

WorkReset ==
    /\ wpc = "reset"
    /\ ClearReceive
    /\ wpc' = "reset_reply"
    /\ UNCHANGED <<callVars, stateVars, wret, deadline, event>>

(* The operation ends with r; what follows is the cleanup. *)
Finish(r) ==
    /\ wret' = r
    /\ wpc' = "cleanup"
    /\ deadline' = "none"
    /\ UNCHANGED event

WorkResetReply ==
    /\ wpc = "reset_reply"
    /\ \E r \in AwaitResults :
        /\ AwaitReply(r)
        /\ IF r # "OK"
           THEN Finish(r)
           ELSE wpc' = "begin" /\ UNCHANGED <<wret, deadline, event>>
    /\ UNCHANGED <<callVars, stateVars>>

(* No receive of the worker has a deadline. *)
Bug_Begin ==
    /\ wpc = "begin"
    /\ IF cancel = 1
       THEN Finish("ECANCELED")
       ELSE wpc' = "rx" /\ UNCHANGED <<wret, deadline, event>>
    /\ UNCHANGED <<callVars, stateVars, rxVars>>

(* Send the command and receive; only continuous recognition has no deadline. *)
Begin ==
    /\ wpc = "begin"
    /\ IF cancel = 1
       THEN Finish("ECANCELED")
       ELSE /\ wpc' = "rx"
            /\ deadline' = IF continuous THEN "none" ELSE "pending"
            /\ UNCHANGED <<wret, event>>
    /\ UNCHANGED <<callVars, stateVars, rxVars>>

(* ai10_get_byte(), one check of its loop per action. *)
RxCheckCancel ==
    /\ wpc = "rx"
    /\ IF cancel = 1
       THEN Finish("ECANCELED")
       ELSE wpc' = "err" /\ UNCHANGED <<wret, deadline, event>>
    /\ UNCHANGED <<callVars, stateVars, rxVars>>

RxCheckError ==
    /\ wpc = "err"
    /\ IF rxError = 1 THEN Finish("ENOBUFS")
       ELSE IF deadline = "passed" THEN Finish("ETIMEDOUT")
       ELSE wpc' = "get" /\ UNCHANGED <<wret, deadline, event>>
    /\ UNCHANGED <<callVars, stateVars, rxVars>>

RxEmpty ==
    /\ wpc = "get"
    /\ rx = 0
    /\ wpc' = "sleep"
    /\ UNCHANGED <<callVars, stateVars, rxVars, wret, deadline, event>>

(* A frame has begun: from here even continuous recognition is bounded. *)
RxPartial ==
    /\ wpc = "get"
    /\ rx > 0
    /\ rx' = rx - 1
    /\ wpc' = "rx"
    /\ deadline' = IF deadline = "none" THEN "pending" ELSE deadline
    /\ UNCHANGED <<callVars, stateVars, rxError, rxReady, isr, wret, event>>

Deliver(type, status) ==
    /\ event' = Event(type, status)
    /\ wpc' = "result_cb"
    /\ deadline' = IF continuous THEN "none" ELSE deadline
    /\ UNCHANGED wret

(* ai10_identify() on a reply of status s. *)
Identified(s) ==
    IF s = "OK" THEN Deliver("MATCH", "OK")
    ELSE IF s \in NoMatchStatuses THEN Deliver("NO_MATCH", ai10_status[s])
    ELSE Finish(ai10_status[s])

(* ai10_enroll() on a reply of status s. *)
Enrolled(s) ==
    IF s = "OK" THEN Deliver("ENROLL_COMPLETE", "OK") ELSE Finish(ai10_status[s])

(* The rest of a frame: a reply to the command, another frame, or a bad one. *)
RxFrame ==
    /\ wpc = "get"
    /\ rx > 0
    /\ rx' = rx - 1
    /\ \/ \E s \in DeviceStatuses :
            IF operation = "IDENTIFY" THEN Identified(s) ELSE Enrolled(s)
       \/ \E e \in FrameErrors : Finish(e)
       \/ /\ wpc' = "rx"
          /\ deadline' = IF continuous THEN "none" ELSE deadline
          /\ UNCHANGED <<wret, event>>
    /\ UNCHANGED <<callVars, stateVars, rxError, rxReady, isr>>

RxSleep ==
    /\ wpc = "sleep"
    /\ \/ /\ rxReady = 1
          /\ rxReady' = 0
          /\ wpc' = "rx"
          /\ UNCHANGED <<wret, deadline, event>>
       \/ /\ deadline = "passed"
          /\ Finish("ETIMEDOUT")
          /\ UNCHANGED rxReady
    /\ UNCHANGED <<callVars, stateVars, rx, rxError, isr>>

(* Time reaches the deadline of a receive that has one. *)
DeadlinePasses ==
    /\ wpc \in ReceivePoints
    /\ deadline = "pending"
    /\ deadline' = "passed"
    /\ UNCHANGED <<callVars, stateVars, rxVars, wpc, wret, event>>

(* A callback returns once the API call it may have made has returned. *)
CallbackReturns == pc[Worker] = "ready" /\ event' = NoEvent

ResultReturn ==
    /\ wpc = "result_cb"
    /\ CallbackReturns
    /\ IF continuous
       THEN wpc' = "rx" /\ UNCHANGED <<wret, deadline>>
       ELSE wpc' = "cleanup" /\ wret' = "OK" /\ deadline' = "none"
    /\ UNCHANGED <<callVars, stateVars, rxVars>>

Cleanup ==
    /\ wpc = "cleanup"
    /\ ClearReceive
    /\ wpc' = "cleanup_reply"
    /\ UNCHANGED <<callVars, stateVars, wret, deadline, event>>

CleanupReply ==
    /\ wpc = "cleanup_reply"
    /\ \E r \in AwaitResults :
        /\ AwaitReply(r)
        /\ stopResult' = r
        /\ wret' = IF r # "OK" THEN r ELSE wret
    /\ wpc' = "report"
    /\ UNCHANGED <<callVars, operation, cancel, callback, continuous, request, done>>
    /\ UNCHANGED <<deadline, event>>

(* A cancellation by the sensor itself goes without an ERROR event, too. *)
Bug_Report ==
    /\ wpc = "report"
    /\ IF wret # "OK" /\ wret # "ECANCELED"
       THEN event' = Event("ERROR", wret) /\ wpc' = "error_cb"
       ELSE event' = Event("STOPPED", wret) /\ wpc' = "stopped_cb"
    /\ UNCHANGED <<callVars, stateVars, rxVars, wret, deadline>>

(* Only a cancellation that was asked for goes without an ERROR event. *)
Report ==
    /\ wpc = "report"
    /\ IF wret # "OK" /\ ~(wret = "ECANCELED" /\ cancel = 1)
       THEN event' = Event("ERROR", wret) /\ wpc' = "error_cb"
       ELSE event' = Event("STOPPED", wret) /\ wpc' = "stopped_cb"
    /\ UNCHANGED <<callVars, stateVars, rxVars, wret, deadline>>

ErrorReturn ==
    /\ wpc = "error_cb"
    /\ pc[Worker] = "ready"
    /\ event' = Event("STOPPED", wret)
    /\ wpc' = "stopped_cb"
    /\ UNCHANGED <<callVars, stateVars, rxVars, wret, deadline>>

StoppedReturn ==
    /\ wpc = "stopped_cb"
    /\ CallbackReturns
    /\ wpc' = "idle"
    /\ UNCHANGED <<callVars, stateVars, rxVars, wret, deadline>>

ClearOperation ==
    /\ wpc = "idle"
    /\ operation' = "IDLE"
    /\ wret' = "OK"
    /\ wpc' = "give"
    /\ UNCHANGED <<callVars, cancel, callback, continuous, stopResult, request, done>>
    /\ UNCHANGED <<rxVars, deadline, event>>

GiveDone ==
    /\ wpc = "give"
    /\ done' = 1
    /\ wpc' = "wait"
    /\ UNCHANGED <<callVars, operation, cancel, callback, continuous, stopResult, request>>
    /\ UNCHANGED <<rxVars, wret, deadline, event>>

WorkStep ==
    \/ TakeRequest \/ WorkReset \/ WorkResetReply \/ Begin
    \/ RxCheckCancel \/ RxCheckError \/ RxEmpty \/ RxPartial \/ RxFrame \/ RxSleep
    \/ ResultReturn \/ Cleanup \/ CleanupReply \/ Report \/ ErrorReturn
    \/ StoppedReturn \/ ClearOperation \/ GiveDone

Next ==
    \/ IsrStore \/ IsrSignal
    \/ \E t \in Threads : Call(t) \/ CallStep(t)
    \/ WorkStep
    \/ DeadlinePasses

Spec == Init /\ [][Next]_vars

(* The kernel schedules every thread that can run, a started interrupt runs to *)
(* its end, and time passes.  Nobody has to make a call; the sensor need not   *)
(* answer; a callback returns; a listing ends at its deadline if not before.   *)
Fairness ==
    /\ \A t \in Threads : WF_vars(CallStep(t)) /\ WF_vars(SyncCommandReply(t))
    /\ WF_vars(WorkStep)
    /\ WF_vars(IsrSignal)
    /\ WF_vars(DeadlinePasses)

FairSpec == Spec /\ Fairness
-----------------------------------------------------------------------------
(***************************************************************************)
(* Properties.                                                             *)
(***************************************************************************)

(* Every variable has the type of its C counterpart. *)
TypeOK ==
    /\ mutex \in Threads \cup {NoThread}
    /\ pc \in [Threads -> CallPoints]
    /\ req \in [Threads -> Requests \cup {NoRequest}]
    /\ ret \in [Threads -> Errnos]
    /\ operation \in {"IDLE", "IDENTIFY", "ENROLLING"}
    /\ callback \in Callbacks \cup {NoCallback}
    /\ stopResult \in Errnos
    /\ cancel \in 0..1 /\ continuous \in BOOLEAN
    /\ request \in 0..1 /\ done \in 0..1
    /\ rxReady \in 0..1 /\ rxError \in 0..1
    /\ rx \in 0..RxCapacity
    /\ isr \in {"idle", "stored", "short"}
    /\ wpc \in WorkPoints
    /\ wret \in Errnos
    /\ deadline \in {"none", "pending", "passed"}
    /\ event \in [type : ResultTypes \cup {"NONE", "ERROR", "STOPPED"}, status : Errnos]

UsesUart(t) ==
    pc[t] \in {"sync_reset", "sync_command", "sync_cleanup", "sync_cleanup_reply"}

(* The sensor serves one exchange at a time: no database or matching call runs *)
(* its exchange beside another one or beside the worker, though the worker     *)
(* never takes the mutex (ai10_lock_idle and the operation flag keep it out).  *)
UartExclusive ==
    /\ \A t, u \in Threads : UsesUart(t) /\ UsesUart(u) => t = u
    /\ (\E t \in Threads : UsesUart(t)) => wpc \in {"wait", "give"} /\ request = 0

(* biometric_async_stop() waits for callbacks to finish: when it returns after *)
(* cancelling, the request it cancelled is over, no callback runs, none can    *)
(* start, and its result is that request's cleanup result.                     *)
StopQuiescent ==
    \A t \in Threads :
        pc[t] = "unlock" /\ req[t] = "stop" /\ ret[t] # "EALREADY"
            => /\ operation = "IDLE"
               /\ wpc = "wait" /\ request = 0
               /\ event = NoEvent
               /\ ret[t] = stopResult

(* The done token belongs to the request that has just ended: none is left for *)
(* the stop of a later request, which would return while callbacks still run.  *)
DoneMeansIdle == done = 1 => operation = "IDLE" /\ wpc = "wait" /\ request = 0

(* An accepted request is never folded into a pending one by the semaphore's   *)
(* limit of 1, and the worker is free to take it.                              *)
RequestNotLost == \A t \in Threads : pc[t] = "arm" => request = 0 /\ wpc = "wait"

(* A request is never cancelled by a stop aimed at an earlier one: while it is *)
(* in progress cancel is set only for a stop that is still waiting.            *)
NoStaleCancel ==
    operation # "IDLE" /\ cancel = 1
        => \E t \in Threads : pc[t] \in {"stop_wake", "stop_wait"}

(* The worker never sleeps on rx_ready over bytes, an overrun or a cancel that *)
(* it has not seen, unless the wakeup is on its way.                           *)
NoLostWakeup ==
    wpc = "sleep" =>
        /\ rx > 0 \/ rxError = 1 => rxReady = 1 \/ isr # "idle"
        /\ cancel = 1 => rxReady = 1 \/ \E t \in Threads : pc[t] = "stop_wake"

(* ai10_emit() never calls NULL. *)
CallbackRegistered == operation # "IDLE" => callback # NoCallback

(* A callback cannot take the lock, so it can neither stop nor start a request *)
(* from the thread that would have to serve it.                                *)
WorkerOwnsNothing == mutex # Worker

(* A registered callback and its user data are in use until STOPPED returned:  *)
(* they change only while no callback runs and none can start.                 *)
CallbackPinned ==
    [][callback' # callback => operation = "IDLE" /\ event = NoEvent /\ request = 0]_vars

(* The driver keeps the contract of the API header. *)
Phase ==
    IF operation = "IDLE" THEN "idle"
    ELSE IF wpc \in {"cleanup", "cleanup_reply", "report"} THEN "settled"
    ELSE IF wpc = "error_cb" THEN "failed"
    ELSE IF wpc \in {"stopped_cb", "idle"} THEN "stopped"
    ELSE "active"

Events == INSTANCE BiometricEvents WITH phase <- Phase, outcome <- wret

EventContract == Events!Spec

(* Every API call returns, whatever the sensor does: in particular a stop does *)
(* not wait for ever, even on continuous recognition of a silent sensor.       *)
CallsReturn == \A t \in Callers : pc[t] # "ready" ~> pc[t] = "ready"

(* A request that is not continuous ends without any further call.             *)
SingleEnds == operation # "IDLE" /\ ~continuous ~> operation = "IDLE"

(* biometrics.h: "Operation or cleanup failures report ERROR before STOPPED."  *)
CleanupFailureReported ==
    [][wpc = "report" /\ wpc' # "report" /\ stopResult # "OK"
           => event'.type = "ERROR"]_vars
-----------------------------------------------------------------------------
(***************************************************************************)
(* The inductive invariant behind the safety properties.                   *)
(***************************************************************************)

(* The owner of the mutex is the one thread inside a call. *)
CallOwnsMutex ==
    /\ WorkerOwnsNothing
    /\ \A t \in Threads : pc[t] # "ready" <=> mutex = t
    /\ \A t \in Threads :
        /\ pc[t] \in {"stop_cancel", "stop_wake", "stop_wait"} => req[t] = "stop"
        /\ pc[t] \in {"owner", "arm"} \/ UsesUart(t) => req[t] # "stop"

(* A call that passed ai10_lock_idle() keeps the driver idle until it unlocks. *)
OwnerIdle == \A t \in Threads : pc[t] = "owner" \/ UsesUart(t) => operation = "IDLE"

(* The operation flag is set exactly while a request is in progress. *)
OperationTracksWork ==
    /\ wpc \notin {"wait", "give"} => operation # "IDLE"
    /\ wpc = "give" => operation = "IDLE"
    /\ request = 1 => operation # "IDLE" /\ wpc = "wait"
    /\ \A t \in Threads : pc[t] = "arm" => operation # "IDLE" /\ wpc = "wait" /\ request = 0
    /\ done = 1 => operation = "IDLE" /\ wpc = "wait"

(* An event is there exactly while its callback runs; a failure is recorded only *)
(* once the operation has ended.                                                 *)
EventTracksWork ==
    /\ wpc \in CallbackPoints <=> event.type # "NONE"
    /\ wpc \notin CallbackPoints => event = NoEvent
    /\ wpc \in {"wait", "give", "reset", "reset_reply", "begin", "result_cb"} \cup ReceivePoints
        => wret = "OK"

(* What the worker has not looked at since it last slept will wake it. *)
WakeupPending ==
    /\ wpc \in {"err", "get", "sleep"} /\ cancel = 1
        => rxReady = 1 \/ \E t \in Threads : pc[t] = "stop_wake"
    /\ wpc \in {"get", "sleep"} /\ rxError = 1 => rxReady = 1
    /\ wpc = "sleep" /\ rx > 0 => rxReady = 1 \/ isr # "idle"

IInv == /\ TypeOK
        /\ CallOwnsMutex
        /\ OwnerIdle
        /\ OperationTracksWork
        /\ EventTracksWork
        /\ WakeupPending
        /\ StopQuiescent
        /\ NoStaleCancel
        /\ CallbackRegistered
=============================================================================
