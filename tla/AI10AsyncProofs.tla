--------------------------- MODULE AI10AsyncProofs --------------------------
(***************************************************************************)
(* Proofs about AI10Async, for every set of callers and callbacks, every   *)
(* ring capacity and every set of statuses the sensor uses.                *)
(***************************************************************************)
EXTENDS AI10Async, TLAPS

(* ai10_status() yields an errno, and zero for AI10_STATUS_OK alone. *)
LEMMA StatusErrno ==
    ASSUME NEW s \in Statuses
    PROVE  /\ ai10_status[s] \in Errnos
           /\ ai10_status[s] = "OK" <=> s = "OK"
  BY SMT DEF ai10_status, Statuses, Errnos

(* Whatever a reply is awaited for, it ends with an errno. *)
LEMMA AwaitErrno == AwaitResults \subseteq Errnos
  BY AsyncAssumption, StatusErrno DEF AsyncAssumption, AwaitResults, ReplyResults, Errnos,
     FrameErrors

(* A reply consumes from the ring and from rx_ready, and never adds to them. *)
LEMMA AwaitEffect ==
    ASSUME TypeOK, NEW r, AwaitReply(r)
    PROVE  /\ rx' \in 0..RxCapacity
           /\ rxReady' \in 0..1
           /\ rxError' = rxError
           /\ isr' = isr
  BY AsyncAssumption DEF AsyncAssumption, AwaitReply, TypeOK

(* The types of all variables are kept by every step. *)
LEMMA TypeStep == TypeOK /\ [Next]_vars => TypeOK'
  <1> SUFFICES ASSUME TypeOK, [Next]_vars PROVE TypeOK'
    OBVIOUS
  <1> USE AsyncAssumption, StatusErrno, AwaitErrno DEF AsyncAssumption, TypeOK, callVars,
      stateVars, rxVars, workVars
  <1>1. ASSUME IsrStore PROVE TypeOK'
    BY <1>1 DEF IsrStore
  <1>2. ASSUME IsrSignal PROVE TypeOK'
    BY <1>2 DEF IsrSignal
  <1>3. ASSUME NEW t \in Threads, Call(t) PROVE TypeOK'
    BY <1>3 DEF Call, CallPoints
  <1>4. ASSUME NEW t \in Threads, CallStep(t) PROVE TypeOK'
    <2>1. CASE CheckIdle(t)
      BY <2>1 DEF CheckIdle, Return, CallPoints, Errnos
    <2>2. CASE SetCallback(t)
      BY <2>2 DEF SetCallback, Return, CallPoints, Errnos
    <2>3. CASE StartRejected(t)
      BY <2>3 DEF StartRejected, Return, CallPoints, Errnos
    <2>4. CASE StartAccepted(t)
      BY <2>4 DEF StartAccepted, FreshTokens, CallPoints
    <2>5. CASE GiveRequest(t)
      BY <2>5 DEF GiveRequest, Return, CallPoints, Errnos
    <2>6. CASE StopCheck(t)
      BY <2>6 DEF StopCheck, Return, CallPoints, Errnos
    <2>7. CASE StopCancel(t)
      BY <2>7 DEF StopCancel, CallPoints
    <2>8. CASE StopWake(t)
      BY <2>8 DEF StopWake, CallPoints
    <2>9. CASE StopWait(t)
      BY <2>9 DEF StopWait, Return, CallPoints
    <2>10. CASE SyncReset(t)
      BY <2>10 DEF SyncReset, ClearReceive, CallPoints
    <2>11. CASE SyncResetReply(t)
      BY <2>11, AwaitEffect DEF SyncResetReply, Return, CallPoints
    <2>12. CASE SyncPage(t)
      BY <2>12, AwaitEffect DEF SyncPage
    <2>13. CASE SyncCommandReply(t)
      BY <2>13, AwaitEffect DEF SyncCommandReply, Return, CallPoints
    <2>14. CASE SyncCleanup(t)
      BY <2>14 DEF SyncCleanup, ClearReceive, CallPoints
    <2>15. CASE SyncCleanupReply(t)
      BY <2>15, AwaitEffect DEF SyncCleanupReply, Return, CallPoints
    <2>16. CASE Unlock(t)
      BY <2>16 DEF Unlock, CallPoints, Errnos
    <2>17. QED
      BY <1>4, <2>1, <2>2, <2>3, <2>4, <2>5, <2>6, <2>7, <2>8, <2>9, <2>10, <2>11, <2>12,
         <2>13, <2>14, <2>15, <2>16 DEF CallStep
  <1>5. ASSUME WorkStep PROVE TypeOK'
    <2>1. CASE TakeRequest
      BY <2>1 DEF TakeRequest, WorkPoints
    <2>2. CASE WorkReset
      BY <2>2 DEF WorkReset, ClearReceive, WorkPoints
    <2>3. CASE WorkResetReply
      BY <2>3, AwaitEffect DEF WorkResetReply, Finish, WorkPoints
    <2>4. CASE Begin
      BY <2>4 DEF Begin, Finish, WorkPoints, ReceivePoints, Errnos
    <2>5. CASE RxCheckCancel
      BY <2>5 DEF RxCheckCancel, Finish, WorkPoints, ReceivePoints, Errnos
    <2>6. CASE RxCheckError
      BY <2>6 DEF RxCheckError, Finish, WorkPoints, ReceivePoints, Errnos
    <2>7. CASE RxEmpty
      BY <2>7 DEF RxEmpty, WorkPoints, ReceivePoints
    <2>8. CASE RxPartial
      BY <2>8 DEF RxPartial, WorkPoints, ReceivePoints
    <2>9. CASE RxFrame
      BY <2>9 DEF RxFrame, Identified, Enrolled, Deliver, Finish, Event, WorkPoints,
         ReceivePoints, CallbackPoints, ResultTypes, FrameErrors, Errnos
    <2>10. CASE RxSleep
      BY <2>10 DEF RxSleep, Finish, WorkPoints, ReceivePoints, Errnos
    <2>11. CASE ResultReturn
      BY <2>11 DEF ResultReturn, CallbackReturns, NoEvent, WorkPoints, ReceivePoints, Errnos
    <2>12. CASE Cleanup
      BY <2>12 DEF Cleanup, ClearReceive, WorkPoints
    <2>13. CASE CleanupReply
      BY <2>13, AwaitEffect DEF CleanupReply, WorkPoints
    <2>14. CASE Report
      BY <2>14 DEF Report, Event, WorkPoints, CallbackPoints
    <2>15. CASE ErrorReturn
      BY <2>15 DEF ErrorReturn, Event, WorkPoints, CallbackPoints
    <2>16. CASE StoppedReturn
      BY <2>16 DEF StoppedReturn, CallbackReturns, NoEvent, WorkPoints, Errnos
    <2>17. CASE ClearOperation
      BY <2>17 DEF ClearOperation, WorkPoints, Errnos
    <2>18. CASE GiveDone
      BY <2>18 DEF GiveDone, WorkPoints
    <2>19. QED
      BY <1>5, <2>1, <2>2, <2>3, <2>4, <2>5, <2>6, <2>7, <2>8, <2>9, <2>10, <2>11, <2>12,
         <2>13, <2>14, <2>15, <2>16, <2>17, <2>18 DEF WorkStep
  <1>6. ASSUME DeadlinePasses PROVE TypeOK'
    BY <1>6 DEF DeadlinePasses
  <1>7. CASE UNCHANGED vars
    BY <1>7 DEF vars
  <1>8. QED
    BY <1>1, <1>2, <1>3, <1>4, <1>5, <1>6, <1>7 DEF Next

(* The initial state is well typed. *)
LEMMA TypeInit == Init => TypeOK
  <1> SUFFICES ASSUME Init PROVE TypeOK
    OBVIOUS
  <1> USE AsyncAssumption DEF AsyncAssumption, Init
  <1>1. /\ mutex \in Threads \cup {NoThread}
        /\ pc \in [Threads -> CallPoints]
        /\ req \in [Threads -> Requests \cup {NoRequest}]
        /\ ret \in [Threads -> Errnos]
    BY DEF CallPoints, Errnos
  <1>2. /\ rx \in 0..RxCapacity
        /\ cancel \in 0..1 /\ request \in 0..1 /\ done \in 0..1
        /\ rxReady \in 0..1 /\ rxError \in 0..1
    BY SMT
  <1>3. continuous \in BOOLEAN
    BY Zenon
  <1>4. event \in [type : ResultTypes \cup {"NONE", "ERROR", "STOPPED"}, status : Errnos]
    BY DEF NoEvent, Errnos
  <1>5. /\ operation \in {"IDLE", "IDENTIFY", "ENROLLING"}
        /\ callback \in Callbacks \cup {NoCallback}
        /\ stopResult \in Errnos
        /\ isr \in {"idle", "stored", "short"}
        /\ wpc \in WorkPoints
        /\ wret \in Errnos
        /\ deadline \in {"none", "pending", "passed"}
    BY DEF Errnos, WorkPoints
  <1>6. QED
    BY <1>1, <1>2, <1>3, <1>4, <1>5 DEF TypeOK

(* Every reachable state is well typed. *)
THEOREM TypeCorrect == Spec => []TypeOK
  BY TypeInit, TypeStep, PTL DEF Spec

(* Every step keeps the inductive invariant. *)
LEMMA InvStep == IInv /\ [Next]_vars => IInv'
  <1> SUFFICES ASSUME IInv, [Next]_vars PROVE IInv'
    OBVIOUS
  <1>0. TypeOK /\ TypeOK'
    BY TypeStep DEF IInv
  <1> DEFINE Rest == /\ CallOwnsMutex /\ OwnerIdle /\ OperationTracksWork
                     /\ EventTracksWork /\ WakeupPending /\ StopQuiescent
                     /\ NoStaleCancel /\ CallbackRegistered
  <1> USE <1>0, AsyncAssumption DEF AsyncAssumption, Threads, TypeOK, IInv, CallOwnsMutex,
      WorkerOwnsNothing, OwnerIdle, UsesUart, OperationTracksWork, EventTracksWork, WakeupPending,
      StopQuiescent, NoStaleCancel, CallbackRegistered, CallbackPoints, ReceivePoints,
      callVars, stateVars, rxVars, workVars
  <1>1. ASSUME IsrStore PROVE Rest'
    BY <1>1 DEF IsrStore
  <1>2. ASSUME IsrSignal PROVE Rest'
    BY <1>2 DEF IsrSignal
  <1>3. ASSUME NEW t \in Threads, Call(t) PROVE Rest'
    <2>1. t # Worker /\ mutex = NoThread
      BY <1>3 DEF Call, LockResult
    <2>2. QED
      BY <1>3, <2>1 DEF Call, CanCall
  <1>4. ASSUME NEW t \in Threads, CallStep(t) PROVE Rest'
    <2>1. CASE CheckIdle(t)
      BY <2>1 DEF CheckIdle, Return
    <2>2. CASE SetCallback(t)
      BY <2>2 DEF SetCallback, Return
    <2>3. CASE StartRejected(t)
      BY <2>3 DEF StartRejected, Return
    <2>4. CASE StartAccepted(t)
      BY <2>4 DEF StartAccepted, FreshTokens, StateLocked, StartRequests
    <2>5. CASE GiveRequest(t)
      BY <2>5 DEF GiveRequest, Return
    <2>6. CASE StopCheck(t)
      BY <2>6 DEF StopCheck, Return
    <2>7. CASE StopCancel(t)
      BY <2>7 DEF StopCancel
    <2>8. CASE StopWake(t)
      BY <2>8 DEF StopWake
    <2>9. CASE StopWait(t)
      BY <2>9 DEF StopWait, Return
    <2>10. CASE SyncReset(t)
      BY <2>10 DEF SyncReset, ClearReceive, SyncRequests
    <2>11. CASE SyncResetReply(t)
      BY <2>11 DEF SyncResetReply, Return, AwaitReply
    <2>12. CASE SyncPage(t)
      BY <2>12 DEF SyncPage, AwaitReply
    <2>13. CASE SyncCommandReply(t)
      BY <2>13 DEF SyncCommandReply, Return, AwaitReply
    <2>14. CASE SyncCleanup(t)
      BY <2>14 DEF SyncCleanup, ClearReceive
    <2>15. CASE SyncCleanupReply(t)
      BY <2>15 DEF SyncCleanupReply, Return, AwaitReply
    <2>16. CASE Unlock(t)
      BY <2>16 DEF Unlock
    <2>17. QED
      BY <1>4, <2>1, <2>2, <2>3, <2>4, <2>5, <2>6, <2>7, <2>8, <2>9, <2>10, <2>11, <2>12, <2>13,
         <2>14, <2>15, <2>16 DEF CallStep
  <1>5. ASSUME WorkStep PROVE Rest'
    <2>1. CASE TakeRequest
      BY <2>1 DEF TakeRequest
    <2>2. CASE WorkReset
      BY <2>2 DEF WorkReset, ClearReceive
    <2>3. CASE WorkResetReply
      BY <2>3 DEF WorkResetReply, Finish, AwaitReply
    <2>4. CASE Begin
      BY <2>4 DEF Begin, Finish
    <2>5. CASE RxCheckCancel
      BY <2>5 DEF RxCheckCancel, Finish
    <2>6. CASE RxCheckError
      BY <2>6 DEF RxCheckError, Finish
    <2>7. CASE RxEmpty
      BY <2>7 DEF RxEmpty
    <2>8. CASE RxPartial
      BY <2>8 DEF RxPartial
    <2>9. CASE RxFrame
      BY <2>9 DEF RxFrame, Finish, Identified, Enrolled, Deliver, Event
    <2>10. CASE RxSleep
      BY <2>10 DEF RxSleep, Finish
    <2>11. CASE ResultReturn
      BY <2>11 DEF ResultReturn, CallbackReturns, NoEvent
    <2>12. CASE Cleanup
      BY <2>12 DEF Cleanup, ClearReceive
    <2>13. CASE CleanupReply
      BY <2>13 DEF CleanupReply, AwaitReply
    <2>14. CASE Report
      BY <2>14 DEF Report, Event
    <2>15. CASE ErrorReturn
      BY <2>15 DEF ErrorReturn, Event
    <2>16. CASE StoppedReturn
      BY <2>16 DEF StoppedReturn, CallbackReturns, NoEvent
    <2>17. CASE ClearOperation
      BY <2>17 DEF ClearOperation
    <2>18. CASE GiveDone
      BY <2>18 DEF GiveDone
    <2>19. QED
      BY <1>5, <2>1, <2>2, <2>3, <2>4, <2>5, <2>6, <2>7, <2>8, <2>9, <2>10, <2>11, <2>12, <2>13,
         <2>14, <2>15, <2>16, <2>17, <2>18 DEF WorkStep
  <1>6. ASSUME DeadlinePasses PROVE Rest'
    BY <1>6 DEF DeadlinePasses
  <1>7. CASE UNCHANGED vars
    BY <1>7 DEF vars
  <1>8. QED
    BY <1>1, <1>2, <1>3, <1>4, <1>5, <1>6, <1>7 DEF Next

(* The inductive invariant holds in every reachable state. *)
THEOREM Invariance == Spec => []IInv
  <1>1. Init => TypeOK
    BY TypeInit
  <1>2. Init => IInv
    BY <1>1, AsyncAssumption DEF AsyncAssumption, Threads, Init, IInv, CallOwnsMutex,
       WorkerOwnsNothing, OwnerIdle, UsesUart, OperationTracksWork, EventTracksWork,
       WakeupPending, StopQuiescent, NoStaleCancel, CallbackRegistered, CallbackPoints,
       ReceivePoints, NoEvent
  <1>3. QED
    BY <1>2, InvStep, PTL DEF Spec

(* One exchange with the sensor at a time, however many threads call. *)
THEOREM Exclusive == Spec => []UartExclusive
  <1>1. IInv => UartExclusive
    BY AsyncAssumption DEF AsyncAssumption, Threads, IInv, TypeOK, CallOwnsMutex, UsesUart,
       OwnerIdle, OperationTracksWork, UartExclusive
  <1>2. QED
    BY <1>1, Invariance, PTL

(* A stop returns only when the request it cancelled, and its callbacks, are over. *)
THEOREM StopWaitsForCallbacks == Spec => []StopQuiescent
  <1>1. IInv => StopQuiescent
    BY DEF IInv
  <1>2. QED
    BY <1>1, Invariance, PTL

(* The tokens and flags of one request never act on another one. *)
THEOREM TokensAreFresh == Spec => [](DoneMeansIdle /\ RequestNotLost /\ NoStaleCancel)
  <1>1. IInv => DoneMeansIdle /\ RequestNotLost /\ NoStaleCancel
    BY DEF IInv, TypeOK, OperationTracksWork, DoneMeansIdle, RequestNotLost
  <1>2. QED
    BY <1>1, Invariance, PTL

(* The worker never sleeps over something that it should see. *)
THEOREM WakeupsAreKept == Spec => []NoLostWakeup
  <1>1. IInv => NoLostWakeup
    BY DEF IInv, WakeupPending, NoLostWakeup
  <1>2. QED
    BY <1>1, Invariance, PTL

(* A callback in use is not replaced: with it go the caller's user data. *)
THEOREM CallbackStays == Spec => CallbackPinned
  <1>1. IInv /\ [Next]_vars
          => (callback' # callback => operation = "IDLE" /\ event = NoEvent /\ request = 0)
    <2> SUFFICES ASSUME IInv, [Next]_vars, callback' # callback
                 PROVE  operation = "IDLE" /\ event = NoEvent /\ request = 0
      OBVIOUS
    <2> USE DEF callVars, stateVars, rxVars, workVars
    <2>1. ~(IsrStore \/ IsrSignal \/ DeadlinePasses \/ UNCHANGED vars)
      BY DEF IsrStore, IsrSignal, DeadlinePasses, vars
    <2>2. ~WorkStep
      BY DEF WorkStep, TakeRequest, WorkReset, WorkResetReply, Begin, RxCheckCancel,
         RxCheckError,
         RxEmpty, RxPartial, RxFrame, RxSleep, ResultReturn, Cleanup, CleanupReply, Report,
         ErrorReturn, StoppedReturn, ClearOperation, GiveDone
    <2>3. PICK t \in Threads : SetCallback(t)
      BY <2>1, <2>2 DEF Next, Call, CallStep, CheckIdle, StartRejected, StartAccepted,
         FreshTokens, GiveRequest, StopCheck, StopCancel, StopWake, StopWait, SyncReset, SyncResetReply,
         SyncPage, SyncCommandReply, SyncCleanup, SyncCleanupReply, Unlock
    <2>4. operation = "IDLE"
      BY <2>3 DEF SetCallback, IInv, OwnerIdle
    <2>5. QED
      BY <2>4 DEF IInv, TypeOK, OperationTracksWork, EventTracksWork, CallbackPoints
  <1>2. QED
    BY <1>1, Invariance, PTL DEF Spec, CallbackPinned
-----------------------------------------------------------------------------
(***************************************************************************)
(* AI10Async implements BiometricEvents.                                   *)
(***************************************************************************)

(* The contract and the driver name the same statuses. *)
LEMMA SameStatuses == /\ Events!Errnos = Errnos
                      /\ Events!NoMatchStatuses = NoMatchStatuses
                      /\ Events!ai10_status = ai10_status
  BY DEF Events!Errnos, Errnos, Events!FrameErrors, FrameErrors, Events!NoMatchStatuses,
     NoMatchStatuses, Events!ai10_status, ai10_status, Events!Statuses, Statuses

(* An awaited reply that is not OK is a failure that the contract knows. *)
LEMMA FailureErrno ==
    /\ \A r \in AwaitResults : r # "OK" => r \in Events!Errnos \ {"OK"}
    /\ \A r \in FrameErrors \cup {"ECANCELED", "ENOBUFS", "ETIMEDOUT"} :
            r \in Events!Errnos \ {"OK"}
  BY AwaitErrno, SameStatuses DEF Errnos, FrameErrors

(* Every step of the driver is a step of the contract or does not show. *)
LEMMA ContractStep == IInv /\ [Next]_vars => [Events!Next]_(Events!vars)
  <1> SUFFICES ASSUME IInv, [Next]_vars PROVE [Events!Next]_(Events!vars)
    OBVIOUS
  <1> DEFINE Mapped == [Events!Next]_(Events!vars)
  <1>0. TypeOK /\ OwnerIdle /\ OperationTracksWork /\ EventTracksWork /\ CallbackRegistered
    BY DEF IInv
  <1> USE <1>0 DEF callVars, stateVars, rxVars, workVars, Phase, Events!vars
  <1>1. ASSUME IsrStore \/ IsrSignal \/ DeadlinePasses \/ UNCHANGED vars PROVE Mapped
    BY <1>1 DEF IsrStore, IsrSignal, DeadlinePasses, vars
  <1>2. ASSUME NEW t \in Threads, Call(t) PROVE Mapped
    BY <1>2 DEF Call
  <1>3. ASSUME NEW t \in Threads, CallStep(t) PROVE Mapped
    <2>1. CASE SetCallback(t)
      BY <2>1 DEF SetCallback, OwnerIdle, Return, Events!SetCallback, Events!Next
    <2>2. CASE StartAccepted(t)
      BY <2>2 DEF StartAccepted, FreshTokens, OwnerIdle, OperationTracksWork, StateLocked,
         StartRequests, TypeOK, WorkPoints, Events!Accept, Events!Next
    <2>3. CASE StopCancel(t)
      BY <2>3 DEF StopCancel, Events!RequestStop, Events!Next
    <2>4. CASE \/ CheckIdle(t) \/ StartRejected(t) \/ GiveRequest(t) \/ StopCheck(t)
               \/ StopWake(t) \/ StopWait(t) \/ SyncReset(t) \/ SyncResetReply(t)
               \/ SyncPage(t) \/ SyncCommandReply(t) \/ SyncCleanup(t)
               \/ SyncCleanupReply(t) \/ Unlock(t)
      BY <2>4 DEF CheckIdle, StartRejected, GiveRequest, StopCheck, StopWake, StopWait,
         SyncReset,
         SyncResetReply, SyncPage, SyncCommandReply, SyncCleanup, SyncCleanupReply, Unlock
    <2>5. QED
      BY <1>3, <2>1, <2>2, <2>3, <2>4 DEF CallStep
  <1>4. ASSUME WorkStep PROVE Mapped
    <2> USE FailureErrno DEF OperationTracksWork, EventTracksWork, CallbackPoints, ReceivePoints
    <2>1. CASE WorkResetReply
      BY <2>1 DEF WorkResetReply, Finish, NoEvent, Events!NoEvent, Events!Settle, Events!Next
    <2>2. CASE Begin
      BY <2>2 DEF Begin, Finish, NoEvent, Events!NoEvent, Events!Settle, Events!Next
    <2>3. CASE RxCheckCancel
      BY <2>3 DEF RxCheckCancel, Finish, NoEvent, Events!NoEvent, Events!Settle, Events!Next
    <2>4. CASE RxCheckError
      BY <2>4 DEF RxCheckError, Finish, NoEvent, Events!NoEvent, Events!Settle, Events!Next
    <2>5. CASE RxFrame
      <3> USE <2>5, SameStatuses DEF RxFrame, NoEvent, Events!NoEvent
      <3>1. ASSUME NEW e \in Events!Errnos \ {"OK"}, Finish(e) PROVE Mapped
        BY <3>1 DEF Finish, Events!Settle, Events!Next
      <3>2. ASSUME NEW s \in Statuses, Identified(s), operation = "IDENTIFY" PROVE Mapped
        <4>1. ASSUME NEW type, NEW status, <<type, status>> \in Events!Results(operation),
                     Deliver(type, status)
              PROVE  Mapped
          <5>1. event' = Events!Event(<<type, status>>[1], <<type, status>>[2])
            BY <4>1 DEF Deliver, Event, Events!Event
          <5>2. Events!Result
            BY <3>2, <4>1, <5>1 DEF Deliver, Events!Result
          <5>3. QED
            BY <5>2 DEF Events!Next
        <4>2. CASE s = "OK" \/ s \in NoMatchStatuses
          BY <3>2, <4>1, <4>2 DEF Identified, Events!Results, NoMatchStatuses
        <4>3. CASE s # "OK" /\ s \notin NoMatchStatuses
          BY <3>1, <3>2, <4>3, StatusErrno DEF Identified
        <4>4. QED
          BY <4>2, <4>3
      <3>3. ASSUME NEW s \in Statuses, Enrolled(s), operation # "IDENTIFY" PROVE Mapped
        <4>1. CASE s = "OK"
          BY <3>3, <4>1 DEF Enrolled, Deliver, Event, Events!Event, Events!Results,
             Events!Result, Events!Next
        <4>2. CASE s # "OK"
          BY <3>1, <3>3, <4>2, StatusErrno DEF Enrolled
        <4>3. QED
          BY <4>1, <4>2
      <3>4. ASSUME wpc' = "rx", UNCHANGED <<wret, event>> PROVE Mapped
        BY <3>4
      <3>5. QED
        BY <3>1, <3>2, <3>3, <3>4, FailureErrno, AsyncAssumption DEF AsyncAssumption
    <2>6. CASE RxSleep
      BY <2>6 DEF RxSleep, Finish, NoEvent, Events!NoEvent, Events!Settle, Events!Next
    <2>7. CASE ResultReturn
      BY <2>7 DEF ResultReturn, CallbackReturns, NoEvent, Events!NoEvent, Events!ResultReturn,
         Events!Next
    <2>8. CASE CleanupReply
      BY <2>8 DEF CleanupReply, NoEvent, Events!NoEvent, Events!CleanupFails, Events!Next
    <2>9. CASE Report
      BY <2>9 DEF Report, NoEvent, Event, Events!Event, Events!Quiet, Events!ReportError,
         Events!ReportStopped, Events!Next
    <2>10. CASE ErrorReturn
      BY <2>10 DEF ErrorReturn, Event, Events!Event, Events!ReportStopped, Events!Next
    <2>11. CASE StoppedReturn
      BY <2>11 DEF StoppedReturn, CallbackReturns, NoEvent, Events!NoEvent,
         Events!StoppedReturn, Events!Next
    <2>12. CASE ClearOperation
      BY <2>12 DEF ClearOperation, NoEvent, Events!NoEvent, Events!BecomeIdle, Events!Next
    <2>13. CASE TakeRequest \/ WorkReset \/ RxEmpty \/ RxPartial \/ Cleanup \/ GiveDone
      BY <2>13 DEF TakeRequest, WorkReset, RxEmpty, RxPartial, Cleanup, GiveDone
    <2>14. QED
      BY <1>4, <2>1, <2>2, <2>3, <2>4, <2>5, <2>6, <2>7, <2>8, <2>9, <2>10, <2>11, <2>12, <2>13
         DEF WorkStep
  <1>5. QED
    BY <1>1, <1>2, <1>3, <1>4 DEF Next

(* The driver keeps the contract of biometrics.h: one STOPPED per accepted request, *)
(* after its results and after ERROR if it failed, and nothing before the next.     *)
THEOREM Contract == Spec => EventContract
  <1>1. Init => Events!Init
    BY DEF Init, Events!Init, Phase, NoEvent, Events!NoEvent
  <1>2. QED
    BY <1>1, ContractStep, Invariance, PTL DEF Spec, EventContract, Events!Spec
=============================================================================
