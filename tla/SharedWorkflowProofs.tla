------------------------ MODULE SharedWorkflowProofs ------------------------
(***************************************************************************)
(* Theorems about SharedWorkflow, for every capacity of the library, every *)
(* queue size and any number of runs.                                      *)
(***************************************************************************)
EXTENDS SharedWorkflow, FiniteSetTheorems, SequenceTheorems, TLAPS

(* The actions that leave the application alone. *)
LEMMA DeviceInv == IInv /\ Device => IInv'
<1> SUFFICES ASSUME IInv, Device PROVE IInv'
  OBVIOUS
<1> USE DEF IInv, Sessions, BaselineKept, OnlyNewDeleted, NothingInProgress, ControlCalls,
            dataVars, scriptVars, historyVars, queueVars, storeVars
<1>1. CASE DeviceStores
  <2>1. db \subseteq db' /\ UNCHANGED <<open, phase>> /\ phase = "active"
    BY <1>1 DEF DeviceStores, Store!TemplateStore
  <2>2. UNCHANGED <<dataVars, scriptVars, historyVars>>
    BY <1>1 DEF DeviceStores
  <2>3. Sessions'
    BY <2>1, <2>2
  <2>4. BaselineKept'
    BY <2>1, <2>2
  <2>5. OnlyNewDeleted'
    BY <2>1, <2>2
  <2> QED BY <2>3, <2>4, <2>5
<1>2. ASSUME phase # "idle", UNCHANGED <<storeVars, dataVars, scriptVars, historyVars>>
      PROVE  IInv'
  <2>1. Sessions'
    BY <1>2
  <2>2. BaselineKept'
    BY <1>2
  <2>3. OnlyNewDeleted'
    BY <1>2
  <2> QED BY <2>1, <2>2, <2>3
<1>3. CASE DeviceReports
  BY <1>2, <1>3 DEF DeviceReports, Contract!Result, Contract!ReportError, Contract!ReportStopped
<1>4. CASE DeviceGoesOn
  BY <1>2, <1>4 DEF DeviceGoesOn, Contract!ResultReturn, Contract!Settle, Contract!CleanupFails,
                    Contract!StoppedReturn, Contract!BecomeIdle
<1> QED BY <1>1, <1>3, <1>4 DEF Device

(* The calls of the application. *)
LEMMA WorkflowInv == IInv /\ Workflow => IInv'
<1> SUFFICES ASSUME IInv, Workflow PROVE IInv'
  OBVIOUS
<1> USE DEF IInv, Sessions, BaselineKept, OnlyNewDeleted, NothingInProgress, ControlCalls, Calls,
            dataVars, scriptVars, historyVars, queueVars, storeVars, deviceVars, Goto, End
<1>1. CASE InventoryFails
  <2>1. Sessions'
    BY <1>1 DEF InventoryFails
  <2>2. BaselineKept'
    BY <1>1 DEF InventoryFails
  <2>3. OnlyNewDeleted'
    BY <1>1 DEF InventoryFails
  <2> QED BY <2>1, <2>2, <2>3
<1>2. CASE TakeBaseline
  <2>1. Sessions'
    BY <1>2 DEF TakeBaseline
  <2>2. BaselineKept'
    BY <1>2 DEF TakeBaseline
  <2>3. OnlyNewDeleted'
    BY <1>2 DEF TakeBaseline
  <2> QED BY <2>1, <2>2, <2>3
<1>3. CASE LookAfterInterrupt
  <2>1. Sessions'
    BY <1>3 DEF LookAfterInterrupt, List
  <2>2. BaselineKept'
    BY <1>3 DEF LookAfterInterrupt, List
  <2>3. OnlyNewDeleted'
    BY <1>3 DEF LookAfterInterrupt, List
  <2> QED BY <2>1, <2>2, <2>3
<1>4. CASE CheckEnrolled
  <2>1. Sessions'
    BY <1>4 DEF CheckEnrolled, List
  <2>2. BaselineKept'
    BY <1>4 DEF CheckEnrolled, List
  <2>3. OnlyNewDeleted'
    BY <1>4 DEF CheckEnrolled, List
  <2> QED BY <2>1, <2>2, <2>3
<1>5. CASE BeginRestore
  <2>1. Sessions'
    BY <1>5 DEF BeginRestore, Cleanups
  <2>2. BaselineKept'
    BY <1>5 DEF BeginRestore, Cleanups
  <2>3. OnlyNewDeleted'
    BY <1>5 DEF BeginRestore, Cleanups
  <2> QED BY <2>1, <2>2, <2>3
<1>6. CASE DeleteNew
  <2>1. Sessions'
    BY <1>6 DEF DeleteNew, Store!TemplateDelete
  <2>2. BaselineKept'
    BY <1>6 DEF DeleteNew, Store!TemplateDelete
  <2>3. OnlyNewDeleted'
    BY <1>6 DEF DeleteNew, Store!TemplateDelete
  <2> QED BY <2>1, <2>2, <2>3
<1>7. CASE AllDeleted
  <2>1. Sessions'
    BY <1>7 DEF AllDeleted
  <2>2. BaselineKept'
    BY <1>7 DEF AllDeleted
  <2>3. OnlyNewDeleted'
    BY <1>7 DEF AllDeleted
  <2> QED BY <2>1, <2>2, <2>3
<1>8. CASE Restored
  <2>1. Sessions'
    BY <1>8 DEF Restored
  <2>2. BaselineKept'
    BY <1>8 DEF Restored
  <2>3. OnlyNewDeleted'
    BY <1>8 DEF Restored
  <2> QED BY <2>1, <2>2, <2>3
<1>9. CASE StagedStart
  <2>1. Sessions'
    BY <1>9 DEF StagedStart, Store!EnrollStart
  <2>2. BaselineKept'
    BY <1>9 DEF StagedStart, Store!EnrollStart
  <2>3. OnlyNewDeleted'
    BY <1>9 DEF StagedStart, Store!EnrollStart
  <2> QED BY <2>1, <2>2, <2>3
<1>10. CASE Capture
  <2>1. Sessions'
    BY <1>10 DEF Capture, Store!EnrollCapture, Store!EnrollAbort
  <2>2. BaselineKept'
    BY <1>10 DEF Capture, Store!EnrollCapture, Store!EnrollAbort
  <2>3. OnlyNewDeleted'
    BY <1>10 DEF Capture, Store!EnrollCapture, Store!EnrollAbort
  <2> QED BY <2>1, <2>2, <2>3
<1>11. CASE Finalize
  <2>1. Sessions'
    BY <1>11 DEF Finalize, List, Store!EnrollCapture, Store!EnrollFinalize, Store!EnrollAbort
  <2>2. BaselineKept'
    BY <1>11 DEF Finalize, List, Store!EnrollCapture, Store!EnrollFinalize, Store!EnrollAbort
  <2>3. OnlyNewDeleted'
    BY <1>11 DEF Finalize, List, Store!EnrollCapture, Store!EnrollFinalize, Store!EnrollAbort
  <2> QED BY <2>1, <2>2, <2>3
<1>12. CASE AbortStaged
  <2>1. Sessions'
    BY <1>12 DEF AbortStaged, List, Recover, Store!EnrollAbort
  <2>2. BaselineKept'
    BY <1>12 DEF AbortStaged, List, Recover, Store!EnrollAbort
  <2>3. OnlyNewDeleted'
    BY <1>12 DEF AbortStaged, List, Recover, Store!EnrollAbort
  <2> QED BY <2>1, <2>2, <2>3
<1>13. CASE ManagedStart
  <2>1. Sessions'
    BY <1>13 DEF ManagedStart, Recover, List, Contract!Accept, staged
  <2>2. BaselineKept'
    BY <1>13 DEF ManagedStart, Recover, List, Contract!Accept, staged
  <2>3. OnlyNewDeleted'
    BY <1>13 DEF ManagedStart, Recover, List, Contract!Accept, staged
  <2> QED BY <2>1, <2>2, <2>3
<1>14. CASE Stop
  <2>1. Sessions'
    BY <1>14 DEF Stop, Contract!RequestStop
  <2>2. BaselineKept'
    BY <1>14 DEF Stop, Contract!RequestStop
  <2>3. OnlyNewDeleted'
    BY <1>14 DEF Stop, Contract!RequestStop
  <2> QED BY <2>1, <2>2, <2>3
<1>15. CASE StopReturns
  <2>1. Sessions'
    BY <1>15 DEF StopReturns
  <2>2. BaselineKept'
    BY <1>15 DEF StopReturns
  <2>3. OnlyNewDeleted'
    BY <1>15 DEF StopReturns
  <2> QED BY <2>1, <2>2, <2>3
<1>16. CASE Consume
  <2>1. Sessions'
    BY <1>16 DEF Consume
  <2>2. BaselineKept'
    BY <1>16 DEF Consume
  <2>3. OnlyNewDeleted'
    BY <1>16 DEF Consume
  <2> QED BY <2>1, <2>2, <2>3
<1>17. CASE WaitTimesOut
  <2>1. Sessions'
    BY <1>17 DEF WaitTimesOut
  <2>2. BaselineKept'
    BY <1>17 DEF WaitTimesOut
  <2>3. OnlyNewDeleted'
    BY <1>17 DEF WaitTimesOut
  <2> QED BY <2>1, <2>2, <2>3
<1>18. CASE Register
  <2>1. Sessions'
    BY <1>18 DEF Register, Recover, List, Contract!SetCallback
  <2>2. BaselineKept'
    BY <1>18 DEF Register, Recover, List, Contract!SetCallback
  <2>3. OnlyNewDeleted'
    BY <1>18 DEF Register, Recover, List, Contract!SetCallback
  <2> QED BY <2>1, <2>2, <2>3
<1>19. CASE Judge
  <2>1. Sessions'
    BY <1>19 DEF Judge, Recover, List
  <2>2. BaselineKept'
    BY <1>19 DEF Judge, Recover, List
  <2>3. OnlyNewDeleted'
    BY <1>19 DEF Judge, Recover, List
  <2> QED BY <2>1, <2>2, <2>3
<1>20. CASE Identify
  <2>1. Sessions'
    BY <1>20 DEF Identify, List
  <2>2. BaselineKept'
    BY <1>20 DEF Identify, List
  <2>3. OnlyNewDeleted'
    BY <1>20 DEF Identify, List
  <2> QED BY <2>1, <2>2, <2>3
<1> QED BY <1>1, <1>2, <1>3, <1>4, <1>5, <1>6, <1>7, <1>8, <1>9, <1>10, <1>11, <1>12, <1>13, <1>14, <1>15, <1>16, <1>17, <1>18, <1>19, <1>20 DEF Workflow

(* IInv holds in every behaviour: the shell may start the command at any time it is *)
(* not refused, the device may go on at any time.                                   *)
THEOREM Invariance == Spec => []IInv
<1>1. Init => IInv
  BY DEF Init, IInv, Sessions, BaselineKept, OnlyNewDeleted, NothingInProgress, ControlCalls,
         Calls, Contract!Init, Store!Init
<1>2. IInv /\ [Next]_vars => IInv'
  <2> SUFFICES ASSUME IInv, [Next]_vars PROVE IInv'
    OBVIOUS
  <2>1. CASE Begin
    BY <2>1 DEF Begin, IInv, Sessions, BaselineKept, OnlyNewDeleted, NothingInProgress,
                ControlCalls, Calls, deviceVars, storeVars, queueVars, dataVars
  <2>2. CASE Workflow
    BY <2>2, WorkflowInv
  <2>3. CASE Device
    BY <2>3, DeviceInv
  <2>4. CASE UNCHANGED vars
    BY <2>4 DEF vars, IInv, Sessions, BaselineKept, OnlyNewDeleted, NothingInProgress, ControlCalls,
                Calls, deviceVars, storeVars, queueVars, dataVars, scriptVars, historyVars
  <2> QED BY <2>1, <2>2, <2>3, <2>4 DEF Next
<1> QED BY <1>1, <1>2, PTL DEF Spec

(* No run, however it fails, deletes a template that was there before the first one *)
(* (restore_inventory, main.c:85).                                                  *)
THEOREM UserTemplates == Spec => []UserTemplatesSurvive
<1>1. IInv => UserTemplatesSurvive
  BY DEF IInv, OnlyNewDeleted, UserTemplatesSurvive
<1> QED BY <1>1, Invariance, PTL

(* After PASS the library is the one the run found (cmd_run, main.c:390). *)
THEOREM PassIsHonest == Spec => []PassMeansRestored
<1>1. IInv => PassMeansRestored
  BY DEF IInv, Sessions, BaselineKept, NothingInProgress, PassMeansRestored
<1> QED BY <1>1, Invariance, PTL

(* The database is used only when nothing is in progress (workflow, main.c:382). *)
THEOREM ControlWhenIdle == Spec => []NoControlUnlessIdle
<1>1. IInv => NoControlUnlessIdle
  BY DEF IInv, Sessions, NothingInProgress, NoControlUnlessIdle
<1> QED BY <1>1, Invariance, PTL
-----------------------------------------------------------------------------
(***************************************************************************)
(* The events of a request.                                                *)
(***************************************************************************)

(* What one event more adds to a count. *)
LEMMA CountNext ==
    ASSUME NEW s, NEW n \in Nat, NEW t
    PROVE  /\ Cardinality(OfType(s, n, t)) \in Nat
           /\ Cardinality(OfType(s, n + 1, t))
                  = Cardinality(OfType(s, n, t)) + (IF s[n + 1].type = t THEN 1 ELSE 0)
<1>1. IsFiniteSet(OfType(s, n, t))
  <2>1. IsFiniteSet(1 .. n) /\ OfType(s, n, t) \in SUBSET (1 .. n)
    BY FS_Interval DEF OfType
  <2> QED BY <2>1, FS_Subset
<1>2. OfType(s, n + 1, t) = IF s[n + 1].type = t THEN OfType(s, n, t) \cup {n + 1}
                            ELSE OfType(s, n, t)
  BY DEF OfType
<1>3. n + 1 \notin OfType(s, n, t)
  BY DEF OfType
<1>4. Cardinality(OfType(s, n, t)) \in Nat
  BY <1>1, FS_CardinalityType
<1>5. Cardinality(OfType(s, n, t) \cup {n + 1}) = Cardinality(OfType(s, n, t)) + 1
  BY <1>1, <1>3, FS_AddElement
<1> QED BY <1>2, <1>4, <1>5

(* What the driver can report of an enrollment. *)
LEMMA ReportsAreTyped ==
    ASSUME EventsTyped, Contract!Result \/ Contract!ReportError \/ Contract!ReportStopped
    PROVE  [type |-> event'.type, status |-> event'.status, id |-> fresh] \in Reports
<1>1. CASE Contract!Result
  <2>1. operation = "ENROLLING"
    BY <1>1 DEF EventsTyped, Contract!Result
  <2>2. PICK r \in Contract!Results(operation) : event' = Contract!Event(r[1], r[2])
    BY <1>1 DEF Contract!Result
  <2>3. r = <<"ENROLL_COMPLETE", "OK">>
    BY <2>1, <2>2 DEF Contract!Results
  <2> QED BY <2>2, <2>3 DEF Contract!Event, Contract!Errnos, EventsTyped, Reports
<1>2. CASE Contract!ReportError
  BY <1>2 DEF Contract!ReportError, Contract!Event, EventsTyped, Reports
<1>3. CASE Contract!ReportStopped
  BY <1>3 DEF Contract!ReportStopped, Contract!Event, EventsTyped, Reports
<1> QED BY <1>1, <1>2, <1>3

(* A step that leaves the queue, what was reported and what was made of it alone. *)
LEMMA OtherSteps ==
    ASSUME EventsInv,
           UNCHANGED <<queueVars, result>>,
           pc' \in RequestCalls \cup {"judge"} => pc' = pc \/ (pc = "stop" /\ pc' = "consume")
                                                  \/ (pc = "stop" /\ pc' = "stopping")
                                                  \/ (pc = "stopping" /\ pc' = "consume")
    PROVE  QueueIsRest' /\ StoppedOnce' /\ EventsAccounted'
<1>1. QueueIsRest'
  BY DEF EventsInv, QueueIsRest, RequestCalls, Consumed, Among, queueVars
<1>2. StoppedOnce'
  BY DEF EventsInv, StoppedOnce, RequestCalls
<1>3. EventsAccounted'
  BY DEF EventsInv, EventsAccounted, RequestCalls, Delivered, queueVars
<1> QED BY <1>1, <1>2, <1>3

(* One report, put into the queue or counted as lost. *)
LEMMA ReportSteps == IInv /\ EventsInv /\ DeviceReports => EventsInv'
<1> SUFFICES ASSUME IInv, EventsInv, DeviceReports PROVE EventsInv'
  OBVIOUS
<1> DEFINE e == [type |-> event'.type, status |-> event'.status, id |-> fresh]
<1>1. /\ phase # "idle" /\ phase' # "idle"
      /\ UNCHANGED <<fresh, operation, outcome, result, pc>>
  BY DEF DeviceReports, Contract!Result, Contract!ReportError, Contract!ReportStopped, dataVars,
         scriptVars
<1>2. e \in Reports
  BY ReportsAreTyped DEF DeviceReports, EventsInv
<1>3. /\ delivered' = Append(delivered, e)
      /\ \/ events' = Append(events, e) /\ event_loss' = event_loss
         \/ events' = events /\ event_loss' = event_loss + 1
  BY DEF DeviceReports, OnEventCalled
<1> HIDE DEF e
<1>4. delivered \in Seq(Reports) /\ events \in Seq(Reports) /\ event_loss \in Nat
  BY DEF EventsInv, EventsTyped
<1>5. /\ Append(delivered, e) \in Seq(Reports) /\ Append(events, e) \in Seq(Reports)
      /\ Len(Append(delivered, e)) = Len(delivered) + 1 /\ Len(Append(events, e)) = Len(events) + 1
      /\ Len(delivered) \in Nat /\ Len(events) \in Nat
  BY <1>2, <1>4, AppendProperties, LenProperties
<1>6. EventsTyped'
  <2>1. delivered' \in Seq(Reports) /\ events' \in Seq(Reports)
    BY <1>3, <1>4, <1>5
  <2>2. event_loss' \in Nat
    BY <1>3, <1>4
  <2> QED BY <1>1, <2>1, <2>2 DEF EventsInv, EventsTyped
<1>7. QueueIsRest'
  <2> SUFFICES ASSUME pc \in RequestCalls, event_loss' = 0 PROVE QueueIsRest'
    BY <1>1 DEF QueueIsRest, RequestCalls
  <2>1. event_loss = 0 /\ events' = Append(events, e)
    BY <1>3, <1>4
  <2>2. Consumed' = Consumed /\ Consumed \in Nat
    BY <1>3, <1>4, <1>5, <2>1 DEF Consumed, EventsInv, QueueIsRest
  <2>3. \A i \in 1 .. Len(delivered) : delivered'[i] = delivered[i]
    BY <1>2, <1>3, <1>4, AppendProperties
  <2>4. \A i \in 1 .. Len(events) : events'[i] = events[i]
    BY <1>2, <1>4, <2>1, AppendProperties
  <2>5. events'[Len(events) + 1] = e /\ delivered'[Len(delivered) + 1] = e
    BY <1>2, <1>3, <1>4, <2>1, AppendProperties
  <2>6. \A i \in 1 .. Len(events) : events[i] = delivered[Consumed + i]
    BY <2>1 DEF EventsInv, QueueIsRest
  <2>7. ASSUME NEW i \in 1 .. Len(events') PROVE events'[i] = delivered'[Consumed + i]
    <3>1. CASE i = Len(events) + 1
      BY <1>5, <2>5, <3>1 DEF Consumed
    <3>2. CASE i \in 1 .. Len(events)
      <4>1. Consumed + i \in 1 .. Len(delivered)
        BY <1>5, <2>2, <3>2 DEF Consumed
      <4> QED BY <2>3, <2>4, <2>6, <3>2, <4>1
    <3> QED BY <1>5, <2>1, <3>1, <3>2
  <2>8. ASSUME NEW t PROVE Among(Consumed, t)' = Among(Consumed, t)
    <3>1. Consumed <= Len(delivered)
      BY <1>5 DEF Consumed
    <3>2. \A i \in 1 .. Consumed : delivered'[i] = delivered[i]
      BY <1>5, <2>2, <2>3, <3>1
    <3> QED BY <1>5, <2>2, <3>2 DEF Among, OfType
  <2> QED BY <1>1, <2>1, <2>2, <2>7, <2>8 DEF EventsInv, QueueIsRest
<1>8. StoppedOnce'
  BY <1>1 DEF EventsInv, StoppedOnce
<1>9. EventsAccounted'
  BY <1>1 DEF IInv, Sessions, NothingInProgress, EventsAccounted
<1> QED BY <1>6, <1>7, <1>8, <1>9 DEF EventsInv

LEMMA DeviceEvents == IInv /\ EventsInv /\ Device => EventsInv'
<1> SUFFICES ASSUME IInv, EventsInv, Device PROVE EventsInv'
  OBVIOUS
<1>1. CASE DeviceStores
  <2>1. UNCHANGED <<queueVars, result, pc, phase, operation, outcome>> /\ fresh' \in Ids
    BY <1>1 DEF DeviceStores, dataVars, scriptVars
  <2>2. EventsTyped'
    BY <2>1 DEF EventsInv, EventsTyped, queueVars
  <2> QED BY <2>1, <2>2, OtherSteps DEF EventsInv
<1>2. CASE DeviceReports
  BY <1>2, ReportSteps
<1>3. CASE DeviceGoesOn
  <2>1. /\ UNCHANGED <<queueVars, result, pc, fresh>> /\ outcome' \in Contract!Errnos
        /\ phase # "idle" /\ (UNCHANGED operation \/ phase' = "idle")
    BY <1>3 DEF DeviceGoesOn, Contract!ResultReturn, Contract!Settle, Contract!CleanupFails,
                Contract!StoppedReturn, Contract!BecomeIdle, Contract!Errnos, EventsInv, EventsTyped,
                dataVars, scriptVars
  <2>2. EventsTyped'
    BY <2>1 DEF EventsInv, EventsTyped, queueVars
  <2> QED BY <2>1, <2>2, OtherSteps DEF EventsInv
<1> QED BY <1>1, <1>2, <1>3 DEF Device

(* The request begins with an empty queue, an empty result and nothing reported. *)
LEMMA StartEvents == EventsInv /\ ManagedStart => EventsInv'
<1> SUFFICES ASSUME EventsInv, ManagedStart PROVE EventsInv'
  OBVIOUS
<1>1. events' = <<>> /\ event_loss' = 0 /\ result' = NoResult
  BY DEF ManagedStart
<1>2. EventsTyped'
  <2>1. /\ phase' # "idle" => operation' = "ENROLLING"
        /\ outcome' = outcome /\ fresh' \in {0, fresh} /\ delivered' \in {<<>>, delivered}
    BY DEF ManagedStart, Contract!Accept, deviceVars, EventsInv, EventsTyped
  <2>2. NoResult \in Outcomes
    BY DEF NoResult, Outcomes, Contract!Errnos
  <2> QED BY <1>1, <2>1, <2>2, EmptySeq DEF EventsInv, EventsTyped
<1>3. CASE delivered' = <<>> /\ pc' \in {"stop", "consume"}
  <2>1. Consumed' = 0
    BY <1>1, <1>3, EmptySeq DEF Consumed
  <2>2. ASSUME NEW t PROVE Among(0, t)' = 0
    BY FS_EmptySet DEF Among, OfType
  <2>3. QueueIsRest'
    BY <1>1, <2>1, <2>2, EmptySeq DEF QueueIsRest, NoResult
  <2> QED BY <1>1, <1>2, <1>3, <2>3 DEF EventsInv, StoppedOnce, EventsAccounted, NoResult
<1>4. CASE pc' \in {"shell", "list"}
  BY <1>2, <1>4 DEF EventsInv, QueueIsRest, StoppedOnce, EventsAccounted, RequestCalls
<1> QED BY <1>3, <1>4 DEF ManagedStart, Goto, Recover, List, End

(* The three ways an event is counted. *)
LEMMA Tally ==
    ASSUME NEW r \in Outcomes, NEW status \in Contract!Errnos, NEW i \in Ids \cup {0}
    PROVE  /\ LET q == [r EXCEPT !.enrolled = r.enrolled + 1, !.id = i]
              IN  /\ q \in Outcomes
                  /\ q.enrolled = r.enrolled + 1 /\ q.errors = r.errors /\ q.stopped = r.stopped
           /\ LET q == [r EXCEPT !.errors = r.errors + 1]
              IN  /\ q \in Outcomes
                  /\ q.enrolled = r.enrolled /\ q.errors = r.errors + 1 /\ q.stopped = r.stopped
           /\ LET q == [r EXCEPT !.stopped = r.stopped + 1, !.terminal = status]
              IN  /\ q \in Outcomes
                  /\ q.enrolled = r.enrolled /\ q.errors = r.errors /\ q.stopped = r.stopped + 1
<1> DEFINE enrolled == [r EXCEPT !.enrolled = r.enrolled + 1]
           stopped == [r EXCEPT !.stopped = r.stopped + 1]
<1> USE DEF Outcomes
<1>1. /\ enrolled \in Outcomes /\ enrolled.enrolled = r.enrolled + 1
      /\ enrolled.errors = r.errors /\ enrolled.stopped = r.stopped
  OBVIOUS
<1>2. [r EXCEPT !.enrolled = r.enrolled + 1, !.id = i] = [enrolled EXCEPT !.id = i]
  OBVIOUS
<1>3. /\ stopped \in Outcomes /\ stopped.stopped = r.stopped + 1
      /\ stopped.errors = r.errors /\ stopped.enrolled = r.enrolled
  OBVIOUS
<1>4. [r EXCEPT !.stopped = r.stopped + 1, !.terminal = status] = [stopped EXCEPT !.terminal = status]
  OBVIOUS
<1> HIDE DEF enrolled, stopped
<1>5. LET q == [enrolled EXCEPT !.id = i]
      IN  /\ q \in Outcomes
          /\ q.enrolled = r.enrolled + 1 /\ q.errors = r.errors /\ q.stopped = r.stopped
  BY <1>1
<1>6. LET q == [r EXCEPT !.errors = r.errors + 1]
      IN  /\ q \in Outcomes
          /\ q.enrolled = r.enrolled /\ q.errors = r.errors + 1 /\ q.stopped = r.stopped
  OBVIOUS
<1>7. LET q == [stopped EXCEPT !.terminal = status]
      IN  /\ q \in Outcomes
          /\ q.enrolled = r.enrolled /\ q.errors = r.errors /\ q.stopped = r.stopped + 1
  BY <1>3
<1> QED BY <1>2, <1>4, <1>5, <1>6, <1>7

(* consume_events() takes the oldest event and counts it. *)
LEMMA ConsumeEvents == EventsInv /\ Consume => EventsInv'
<1> SUFFICES ASSUME EventsInv, Consume PROVE EventsInv'
  OBVIOUS
<1> DEFINE e == Head(events)
<1>1. /\ pc = "consume" /\ events # <<>> /\ events' = Tail(events)
      /\ UNCHANGED <<delivered, event_loss, phase, operation, outcome, fresh>>
      /\ pc' = IF e.type = "STOPPED" THEN "register" ELSE "consume"
  BY DEF Consume, Goto, deviceVars
<1>2. delivered \in Seq(Reports) /\ events \in Seq(Reports)
  BY DEF EventsInv, EventsTyped
<1>3. e \in Reports /\ e = events[1] /\ Tail(events) \in Seq(Reports)
      /\ Len(Tail(events)) = Len(events) - 1
      /\ \A i \in 1 .. Len(Tail(events)) : Tail(events)[i] = events[i + 1]
  BY <1>1, <1>2, HeadTailProperties
<1>4. Len(delivered) \in Nat /\ Len(events) \in Nat \ {0}
  BY <1>1, <1>2, EmptySeq, LenProperties
<1>5. /\ e.type \in {"ENROLL_COMPLETE", "ERROR", "STOPPED"} /\ e.status \in Contract!Errnos
      /\ e.id \in Ids \cup {0}
  BY <1>3 DEF Reports
<1>6. /\ e.type = "ENROLL_COMPLETE" =>
             result' = [result EXCEPT !.enrolled = result.enrolled + 1, !.id = e.id]
      /\ e.type = "ERROR" => result' = [result EXCEPT !.errors = result.errors + 1]
      /\ e.type = "STOPPED" =>
             result' = [result EXCEPT !.stopped = result.stopped + 1, !.terminal = e.status]
  <2>1. CASE e.type = "ENROLL_COMPLETE"
    BY <2>1 DEF Consume
  <2>2. CASE e.type = "ERROR"
    BY <2>2 DEF Consume
  <2>3. CASE e.type = "STOPPED"
    BY <2>3 DEF Consume
  <2> QED BY <1>5, <2>1, <2>2, <2>3
<1> HIDE DEF e
<1>7. result \in Outcomes
  BY DEF EventsInv, EventsTyped
<1>8. /\ result' \in Outcomes
      /\ result'.enrolled = result.enrolled + (IF e.type = "ENROLL_COMPLETE" THEN 1 ELSE 0)
      /\ result'.errors = result.errors + (IF e.type = "ERROR" THEN 1 ELSE 0)
      /\ result'.stopped = result.stopped + (IF e.type = "STOPPED" THEN 1 ELSE 0)
  <2>1. CASE e.type = "ENROLL_COMPLETE"
    <3> DEFINE q == [result EXCEPT !.enrolled = result.enrolled + 1, !.id = e.id]
    <3>1. q \in Outcomes /\ q.enrolled = result.enrolled + 1 /\ q.errors = result.errors
          /\ q.stopped = result.stopped
      BY <1>5, <1>7, Tally, Zenon
    <3>2. result' = q
      BY <1>6, <2>1
    <3> HIDE DEF q
    <3> QED BY <1>7, <2>1, <3>1, <3>2 DEF Outcomes
  <2>2. CASE e.type = "ERROR"
    <3> DEFINE q == [result EXCEPT !.errors = result.errors + 1]
    <3>1. q \in Outcomes /\ q.enrolled = result.enrolled /\ q.errors = result.errors + 1
          /\ q.stopped = result.stopped
      BY <1>5, <1>7, Tally, Zenon
    <3>2. result' = q
      BY <1>6, <2>2
    <3> HIDE DEF q
    <3> QED BY <1>7, <2>2, <3>1, <3>2 DEF Outcomes
  <2>3. CASE e.type = "STOPPED"
    <3> DEFINE q == [result EXCEPT !.stopped = result.stopped + 1, !.terminal = e.status]
    <3>1. q \in Outcomes /\ q.enrolled = result.enrolled /\ q.errors = result.errors
          /\ q.stopped = result.stopped + 1
      BY <1>5, <1>7, Tally, Zenon
    <3>2. result' = q
      BY <1>6, <2>3
    <3> HIDE DEF q
    <3> QED BY <1>7, <2>3, <3>1, <3>2 DEF Outcomes
  <2> QED BY <1>5, <2>1, <2>2, <2>3
<1>9. EventsTyped'
  BY <1>1, <1>3, <1>8 DEF EventsInv, EventsTyped
<1>10. QueueIsRest'
  <2> SUFFICES ASSUME event_loss = 0 PROVE QueueIsRest'
    BY <1>1 DEF QueueIsRest
  <2>1. /\ Consumed \in Nat /\ \A i \in 1 .. Len(events) : events[i] = delivered[Consumed + i]
        /\ result.enrolled = Among(Consumed, "ENROLL_COMPLETE")
        /\ result.errors = Among(Consumed, "ERROR")
        /\ result.stopped = Among(Consumed, "STOPPED")
    BY <1>1, <1>4 DEF EventsInv, QueueIsRest, RequestCalls, Consumed
  <2>2. Consumed' = Consumed + 1
    BY <1>1, <1>3, <1>4 DEF Consumed
  <2>3. e = delivered[Consumed + 1]
    BY <1>3, <1>4, <2>1
  <2>4. ASSUME NEW t
        PROVE  Among(Consumed + 1, t) = Among(Consumed, t) + (IF e.type = t THEN 1 ELSE 0)
    <3>1. Cardinality(OfType(delivered, Consumed + 1, t))
              = Cardinality(OfType(delivered, Consumed, t))
                  + (IF delivered[Consumed + 1].type = t THEN 1 ELSE 0)
      BY <2>1, CountNext
    <3> QED BY <2>3, <3>1 DEF Among
  <2>5. ASSUME NEW i \in 1 .. Len(events') PROVE events'[i] = delivered'[Consumed' + i]
    <3>1. i + 1 \in 1 .. Len(events) /\ events'[i] = events[i + 1]
      BY <1>1, <1>3, <1>4
    <3>2. events[i + 1] = delivered[Consumed + (i + 1)]
      BY <2>1, <3>1
    <3>3. Consumed + (i + 1) = Consumed' + i
      BY <2>1, <2>2
    <3> QED BY <1>1, <3>1, <3>2, <3>3
  <2>6. Consumed' >= 0
    BY <2>1, <2>2
  <2>7. ASSUME NEW t PROVE Among(Consumed, t)' = Among(Consumed, t) + (IF e.type = t THEN 1 ELSE 0)
    <3>1. Among(Consumed, t)' = Among(Consumed + 1, t)
      BY <1>1, <2>2 DEF Among
    <3> QED BY <2>4, <3>1
  <2> QED BY <1>8, <2>1, <2>5, <2>6, <2>7 DEF QueueIsRest
<1>11. StoppedOnce'
  BY <1>1, <1>8 DEF EventsInv, StoppedOnce
<1>12. EventsAccounted'
  BY <1>1 DEF EventsAccounted
<1> QED BY <1>9, <1>10, <1>11, <1>12 DEF EventsInv

(* The callback can be registered again: the queue is empty and nothing was lost, or *)
(* the request is not judged.                                                         *)
LEMMA RegisterEvents == EventsInv /\ Register => EventsInv'
<1> SUFFICES ASSUME EventsInv, Register PROVE EventsInv'
  OBVIOUS
<1>1. /\ events' = <<>> /\ pc \in {"wait", "register"}
      /\ UNCHANGED <<delivered, event_loss, result, phase, operation, outcome, fresh>>
  BY DEF Register, Contract!SetCallback
<1>2. EventsTyped'
  BY <1>1, EmptySeq DEF EventsInv, EventsTyped
<1>3. pc' \notin RequestCalls
  BY DEF Register, Goto, Recover, List, End, RequestCalls
<1>4. EventsAccounted' /\ StoppedOnce'
  <2> SUFFICES ASSUME pc' = "judge" PROVE EventsAccounted' /\ StoppedOnce'
    BY <1>3 DEF EventsAccounted, StoppedOnce, RequestCalls
  <2>1. pc = "register" /\ events = <<>> /\ event_loss = 0
    <3>1. pc = "register" /\ events = <<>> /\ ~(event_loss > 0)
      BY <1>1 DEF Register, Goto, Recover, List, End
    <3> QED BY <3>1 DEF EventsInv, EventsTyped
  <2>2. Consumed = Len(delivered) /\ delivered \in Seq(Reports)
    BY <2>1, LenProperties, EmptySeq DEF Consumed, EventsInv, EventsTyped
  <2>3. ASSUME NEW t PROVE Among(Consumed, t) = Delivered(t)'
    BY <1>1, <2>2, LenProperties DEF Among, OfType, Delivered
  <2>4. /\ result.enrolled = Among(Consumed, "ENROLL_COMPLETE")
        /\ result.errors = Among(Consumed, "ERROR")
        /\ result.stopped = Among(Consumed, "STOPPED") /\ result.stopped = 1
    BY <2>1 DEF EventsInv, QueueIsRest, StoppedOnce, RequestCalls
  <2> QED BY <1>1, <2>3, <2>4 DEF EventsAccounted, StoppedOnce
<1> QED BY <1>2, <1>3, <1>4 DEF EventsInv, QueueIsRest

LEMMA WorkflowEvents == EventsInv /\ Workflow => EventsInv'
<1> SUFFICES ASSUME EventsInv, Workflow PROVE EventsInv'
  OBVIOUS
<1> USE DEF RequestCalls, Goto, End, List, Recover
<1>1. ASSUME UNCHANGED <<queueVars, result, fresh, phase, operation, outcome>> PROVE EventsTyped'
  BY <1>1 DEF EventsInv, EventsTyped, queueVars
<1>2. ASSUME UNCHANGED <<queueVars, result, fresh, phase, operation, outcome>>,
             pc' \notin RequestCalls \cup {"judge"}
      PROVE  EventsInv'
  BY <1>1, <1>2, OtherSteps DEF EventsInv
<1>3. CASE InventoryFails \/ TakeBaseline \/ LookAfterInterrupt \/ CheckEnrolled \/ BeginRestore
           \/ DeleteNew \/ AllDeleted \/ Restored
  <2>1. UNCHANGED <<queueVars, result, fresh, phase, operation, outcome>>
    BY <1>3 DEF InventoryFails, TakeBaseline, LookAfterInterrupt, CheckEnrolled, BeginRestore,
                DeleteNew, AllDeleted, Restored, deviceVars, dataVars
  <2>2. pc' \notin RequestCalls \cup {"judge"}
    BY <1>3 DEF InventoryFails, TakeBaseline, LookAfterInterrupt, CheckEnrolled, BeginRestore,
                DeleteNew, AllDeleted, Restored, scriptVars
  <2> QED BY <1>2, <2>1, <2>2
<1>4. CASE StagedStart \/ Capture \/ Finalize \/ AbortStaged \/ Judge \/ Identify
  <2>1. UNCHANGED <<queueVars, result, fresh, phase, operation, outcome>>
    BY <1>4 DEF StagedStart, Capture, Finalize, AbortStaged, Judge, Identify, deviceVars, dataVars
  <2>2. pc' \notin RequestCalls \cup {"judge"}
    BY <1>4 DEF StagedStart, Capture, Finalize, AbortStaged, Judge, Identify
  <2> QED BY <1>2, <2>1, <2>2
<1>5. CASE ManagedStart
  BY <1>5, StartEvents
<1>6. CASE Stop \/ StopReturns \/ WaitTimesOut
  <2>1. UNCHANGED <<queueVars, result, fresh, phase, operation, outcome>>
    BY <1>6 DEF Stop, StopReturns, WaitTimesOut, Contract!RequestStop, deviceVars, dataVars
  <2>2. \/ pc = "stop" /\ pc' \in {"consume", "stopping"}
        \/ pc = "stopping" /\ pc' = "consume"
        \/ pc' = "shell"
    BY <1>6 DEF Stop, StopReturns, WaitTimesOut
  <2> QED BY <1>1, <2>1, <2>2, OtherSteps DEF EventsInv
<1>7. CASE Consume
  BY <1>7, ConsumeEvents
<1>8. CASE Register
  BY <1>8, RegisterEvents
<1> QED BY <1>3, <1>4, <1>5, <1>6, <1>7, <1>8 DEF Workflow

(* A request is judged by all the events that were reported for it: none was lost, none *)
(* is queued, none comes later, however short the queue is (consume_events, main.c:144). *)
THEOREM EveryEventCounted == Spec => []EventsAccounted
<1>1. Init => EventsInv
  <2> SUFFICES ASSUME Init PROVE EventsInv
    OBVIOUS
  <2>1. EventsTyped
    <3>1. NoResult \in Outcomes
      BY DEF NoResult, Outcomes, Contract!Errnos
    <3> QED BY <3>1, EmptySeq DEF Init, EventsTyped, Contract!Init, Contract!Errnos
  <2> QED BY <2>1 DEF Init, EventsInv, QueueIsRest, StoppedOnce, EventsAccounted, RequestCalls
<1>2. IInv /\ EventsInv /\ [Next]_vars => EventsInv'
  <2> SUFFICES ASSUME IInv, EventsInv, [Next]_vars PROVE EventsInv'
    OBVIOUS
  <2>1. ASSUME UNCHANGED <<queueVars, result, fresh, phase, operation, outcome>>,
               pc' = pc \/ pc' \notin RequestCalls \cup {"judge"}
        PROVE  EventsInv'
    <3>1. EventsTyped'
      BY <2>1 DEF EventsInv, EventsTyped, queueVars
    <3> QED BY <2>1, <3>1, OtherSteps DEF EventsInv
  <2>2. CASE Begin
    BY <2>1, <2>2 DEF Begin, deviceVars, dataVars, RequestCalls
  <2>3. CASE Workflow
    BY <2>3, WorkflowEvents
  <2>4. CASE Device
    BY <2>4, DeviceEvents
  <2>5. CASE UNCHANGED vars
    BY <2>1, <2>5 DEF vars, deviceVars, dataVars, scriptVars
  <2> QED BY <2>2, <2>3, <2>4, <2>5 DEF Next
<1>3. EventsInv => EventsAccounted
  BY DEF EventsInv
<1> QED BY <1>1, <1>2, <1>3, Invariance, PTL DEF Spec
=============================================================================
