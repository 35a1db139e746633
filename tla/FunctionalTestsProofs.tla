------------------------ MODULE FunctionalTestsProofs ------------------------
(***************************************************************************)
(* Theorems about FunctionalTests, for every capacity of the library, any  *)
(* page the ZFM lists, every queue size and any number of runs; and, in    *)
(* the second part, about FootprintTests, for any number of matches.       *)
(***************************************************************************)
EXTENDS FunctionalTests, FootprintTests, SequenceTheorems, TLAPS

(* What the driver can report: a template only with the status OK. *)
LEMMA ReportsAreTyped ==
    ASSUME outcome \in Contract!Errnos,
           Contract!Result \/ Contract!ReportError \/ Contract!ReportStopped,
           NEW i \in 0 .. max_templates + 1
    PROVE  /\ [type |-> event'.type, status |-> event'.status, id |-> i] \in Reports
           /\ event'.type = "ENROLL_COMPLETE" => event'.status = "OK"
<1>1. CASE Contract!Result
  <2>1. PICK r \in Contract!Results(operation) : event' = Contract!Event(r[1], r[2])
    BY <1>1 DEF Contract!Result
  <2>2. event'.type = r[1] /\ event'.status = r[2]
    BY <2>1 DEF Contract!Event
  <2>3. /\ r[1] \in {"MATCH", "NO_MATCH", "ENROLL_COMPLETE"} /\ r[2] \in Contract!Errnos
        /\ r[1] = "ENROLL_COMPLETE" => r[2] = "OK"
    BY <2>1 DEF Contract!Results, Contract!Errnos, Contract!ai10_status, Contract!NoMatchStatuses,
                Contract!Statuses
  <2> QED BY <2>2, <2>3 DEF Reports
<1>2. CASE Contract!ReportError
  BY <1>2 DEF Contract!ReportError, Contract!Event, Reports
<1>3. CASE Contract!ReportStopped
  BY <1>3 DEF Contract!ReportStopped, Contract!Event, Reports
<1> QED BY <1>1, <1>2, <1>3

(* The device going on by itself. *)
LEMMA DeviceInv == IInv /\ (DeviceStores \/ DeviceReports \/ DeviceGoesOn) => IInv'
<1> SUFFICES ASSUME IInv, DeviceStores \/ DeviceReports \/ DeviceGoesOn PROVE IInv'
  OBVIOUS
<1> USE DEF IInv, Sessions, LibraryKnown, IdleCalls, ClosedCalls, UntouchedCalls, dataVars,
            scriptVars, historyVars, storeVars, staged
<1>1. CASE DeviceStores
  <2>1. UNCHANGED <<contractVars, queueVars, scriptVars, dataVars, historyVars, open, template_id>>
        /\ phase = "active" /\ db = found /\ \E i \in Ids : db' = db \cup {i}
    BY <1>1 DEF DeviceStores, Store!TemplateStore
  <2>2. Sessions'
    BY <2>1 DEF contractVars
  <2>3. LibraryKnown'
    BY <2>1 DEF Listed
  <2>4. NothingMissed' /\ EnrollmentIsOver'
    BY <2>1 DEF NothingMissed, EnrollmentIsOver, contractVars, queueVars, staged
  <2> QED BY <2>2, <2>3, <2>4
<1>2. ASSUME phase # "idle", UNCHANGED <<storeVars, dataVars, scriptVars, historyVars>>,
             UNCHANGED callback
      PROVE  Sessions' /\ LibraryKnown' /\ EnrollmentIsOver'
  <2>1. Sessions'
    BY <1>2
  <2>2. LibraryKnown'
    BY <1>2 DEF Listed
  <2>3. EnrollmentIsOver'
    BY <1>2 DEF EnrollmentIsOver
  <2> QED BY <2>1, <2>2, <2>3
<1>3. CASE DeviceReports
  <2>1. phase # "idle" /\ UNCHANGED <<storeVars, dataVars, scriptVars, historyVars, callback, outcome>>
    BY <1>3 DEF DeviceReports, Contract!Result, Contract!ReportError, Contract!ReportStopped
  <2>2. NothingMissed'
    <3>1. CASE UNCHANGED queueVars
      BY <2>1, <3>1 DEF NothingMissed, queueVars
    <3>2. ASSUME NEW i \in 0 .. max_templates + 1, OnEventCalled(i) PROVE NothingMissed'
      <4> DEFINE e == [type |-> event'.type, status |-> event'.status, id |-> i]
      <4>1. e \in Reports /\ (e.type = "ENROLL_COMPLETE" => e.status = "OK")
        BY <1>3, ReportsAreTyped DEF DeviceReports, NothingMissed
      <4>2. /\ delivered' = Append(delivered, e)
            /\ \/ events' = Append(events, e) /\ dropped_events' = dropped_events
               \/ events' = events /\ dropped_events' = dropped_events + 1
        BY <3>2 DEF OnEventCalled
      <4> HIDE DEF e
      <4>3. delivered' \in Seq(Reports) /\ events' \in Seq(Reports) /\ dropped_events' \in Nat
        <5>1. delivered \in Seq(Reports) /\ events \in Seq(Reports) /\ dropped_events \in Nat
          BY DEF NothingMissed
        <5>2. Append(delivered, e) \in Seq(Reports) /\ Append(events, e) \in Seq(Reports)
          BY <4>1, <5>1, AppendProperties
        <5>3. delivered' \in Seq(Reports) /\ events' \in Seq(Reports)
          BY <4>2, <5>1, <5>2
        <5>4. dropped_events' \in Nat
          BY <4>2, <5>1
        <5> QED BY <5>3, <5>4
      <4>4. \A k \in DOMAIN delivered' :
                delivered'[k].type = "ENROLL_COMPLETE" => delivered'[k].status = "OK"
        BY <4>1, <4>2, AppendProperties DEF NothingMissed
      <4>5. pc' \in {"await", "detach", "drain"} =>
                failures' \/ dropped_events' > 0 \/ events' = delivered'
        BY <2>1, <4>2 DEF NothingMissed
      <4>6. pc' # "request" /\ outcome' \in Contract!Errnos
        BY <2>1 DEF NothingMissed
      <4> QED BY <4>3, <4>4, <4>5, <4>6 DEF NothingMissed
    <3>3. \A i \in IF event'.type = "ENROLL_COMPLETE" THEN 0 .. max_templates + 1 ELSE {0} :
              i \in 0 .. max_templates + 1
      BY FunctionalAssumption
    <3> QED BY <1>3, <3>1, <3>2, <3>3 DEF DeviceReports
  <2> QED BY <1>2, <2>1, <2>2
<1>4. CASE DeviceGoesOn
  <2>1. /\ phase # "idle" /\ UNCHANGED <<storeVars, queueVars, dataVars, scriptVars, historyVars, callback>>
        /\ outcome' \in Contract!Errnos
    BY <1>4 DEF DeviceGoesOn, Contract!ResultReturn, Contract!Settle, Contract!CleanupFails,
                Contract!StoppedReturn, Contract!BecomeIdle, Contract!Errnos, NothingMissed
  <2>2. NothingMissed'
    BY <2>1 DEF NothingMissed, queueVars
  <2> QED BY <1>2, <2>1, <2>2
<1> QED BY <1>1, <1>3, <1>4

(* Where a call leaves the device. *)
LEMMA SessionsInv == IInv /\ Test => Sessions'
<1> SUFFICES ASSUME IInv, Test PROVE Sessions'
  OBVIOUS
<1> USE DEF IInv, Sessions, IdleCalls, ClosedCalls, Goto, End, contractVars, storeVars,
            historyVars, staged
<1>1. CASE ListBefore
  <2>1. db = found /\ phase = "idle" /\ ~open /\ UNCHANGED <<db, found, phase, open>>
    BY <1>1 DEF ListBefore, LibraryKnown, UntouchedCalls, historyVars
  <2>2. pc' \in {"shell", "unsupported"}
    BY <1>1 DEF ListBefore, Refuse
  <2> QED BY <2>1, <2>2
<1>2. CASE Unsupported
  <2>1. CASE Halt
    BY <2>1 DEF Halt
  <2>2. CASE Goto(IF staged THEN "start" ELSE "register") /\ UNCHANGED <<contractVars, storeVars>>
    BY <1>2, <2>2 DEF Unsupported
  <2> QED BY <1>2, <2>1, <2>2 DEF Unsupported
<1>3. CASE EnrollStart
  BY <1>3 DEF EnrollStart, Halt, Store!EnrollStart
<1>4. CASE EnrollCapture
  BY <1>4 DEF EnrollCapture, Store!EnrollCapture, Store!EnrollAbort
<1>5. CASE EnrollFinalize
  BY <1>5 DEF EnrollFinalize, Store!EnrollCapture, Store!EnrollFinalize, Store!EnrollAbort
<1>6. CASE EnrollAbort
  BY <1>6 DEF EnrollAbort, Halt, Store!EnrollAbort
<1>7. CASE Register
  BY <1>7 DEF Register, Halt, Contract!SetCallback
<1>8. CASE Request
  BY <1>8 DEF Request, GotoNoting, Contract!Accept
<1>9. CASE Await
  BY <1>9 DEF Await
<1>10. CASE Detach
  BY <1>10 DEF Detach, Contract!SetCallback
<1>11. CASE Drain
  BY <1>11 DEF Drain, GotoNoting, Halt
<1>12. CASE ListAfter
  BY <1>12 DEF ListAfter, AddedOnly, Halt
<1>13. CASE Match
  BY <1>13 DEF Match, GotoNoting, Halt
<1>14. CASE Delete
  <2>1. CASE Halt
    BY <2>1 DEF Halt
  <2>2. CASE Store!TemplateDelete(id) /\ Goto("last")
    BY <1>14, <2>2 DEF Delete, Store!TemplateDelete
  <2> QED BY <1>14, <2>1, <2>2 DEF Delete
<1>15. CASE ListLast
  <2>1. db = found /\ phase = "idle" /\ ~open /\ UNCHANGED <<db, found, phase, open>>
    BY <1>15 DEF ListLast, LibraryKnown, UntouchedCalls, historyVars
  <2>2. pc' = "shell"
    BY <1>15 DEF ListLast, Halt
  <2> QED BY <2>1, <2>2
<1> QED BY <1>1, <1>2, <1>3, <1>4, <1>5, <1>6, <1>7, <1>8, <1>9, <1>10, <1>11, <1>12, <1>13, <1>14, <1>15 DEF Test

(* Where a call leaves the library. *)
LEMMA LibraryInv == IInv /\ Test => LibraryKnown'
<1> SUFFICES ASSUME IInv, Test PROVE LibraryKnown'
  OBVIOUS
<1> USE DEF IInv, Sessions, LibraryKnown, IdleCalls, ClosedCalls, UntouchedCalls, Goto, End, contractVars,
            storeVars, dataVars, historyVars, Listed
<1>1. CASE ListBefore
  BY <1>1 DEF ListBefore, Choices, Refuse
<1>2. CASE Unsupported
  BY <1>2 DEF Unsupported, Halt, Contract!Accept, Store!EnrollStart
<1>3. CASE EnrollStart
  BY <1>3 DEF EnrollStart, Halt, Store!EnrollStart
<1>4. CASE EnrollCapture
  BY <1>4 DEF EnrollCapture, Store!EnrollCapture, Store!EnrollAbort
<1>5. CASE EnrollFinalize
  BY <1>5 DEF EnrollFinalize, Store!EnrollCapture, Store!EnrollFinalize, Store!EnrollAbort
<1>6. CASE EnrollAbort
  BY <1>6 DEF EnrollAbort, Halt, Store!EnrollAbort
<1>7. CASE Register
  BY <1>7 DEF Register, Halt, Contract!SetCallback
<1>8. CASE Request
  BY <1>8 DEF Request, GotoNoting, Contract!Accept
<1>9. CASE Await
  BY <1>9 DEF Await
<1>10. CASE Detach
  BY <1>10 DEF Detach, Contract!SetCallback
<1>11. CASE Drain
  BY <1>11 DEF Drain, GotoNoting, Halt
<1>12. CASE ListAfter
  BY <1>12 DEF ListAfter, AddedOnly, Halt
<1>13. CASE Match
  BY <1>13 DEF Match, GotoNoting, Halt
<1>14. CASE Delete
  BY <1>14 DEF Delete, Halt, Store!TemplateDelete
<1>15. CASE ListLast
  BY <1>15 DEF ListLast, Restored, Halt
<1> QED BY <1>1, <1>2, <1>3, <1>4, <1>5, <1>6, <1>7, <1>8, <1>9, <1>10, <1>11, <1>12, <1>13, <1>14, <1>15 DEF Test

(* Whether a call leaves the queue complete. *)
LEMMA EventsInv == IInv /\ Test => NothingMissed'
<1> SUFFICES ASSUME IInv, Test PROVE NothingMissed'
  OBVIOUS
<1> USE DEF Goto, End
<1>1. ASSUME UNCHANGED <<queueVars, outcome>>,
             pc' \in {"detach", "drain"} =>
                 failures' \/ (failures' = failures /\ pc \in {"await", "detach"}),
             pc' \notin {"request", "await"}
      PROVE  NothingMissed'
  BY <1>1 DEF IInv, NothingMissed, queueVars
<1>2. CASE ListBefore
  BY <1>1, <1>2 DEF ListBefore, Refuse, contractVars
<1>3. CASE Unsupported
  BY <1>1, <1>3 DEF Unsupported, Halt, Contract!Accept, Store!EnrollStart, contractVars
<1>4. CASE EnrollStart \/ EnrollCapture \/ EnrollFinalize \/ EnrollAbort
  BY <1>1, <1>4 DEF EnrollStart, EnrollCapture, EnrollFinalize, EnrollAbort, Halt, contractVars
<1>5. CASE Register
  <2>1. CASE events' = <<>> /\ dropped_events' = 0 /\ UNCHANGED <<outcome, delivered>> /\ pc' = "request"
    BY <2>1, EmptySeq DEF IInv, NothingMissed
  <2>2. CASE pc' = "shell" /\ UNCHANGED <<outcome, delivered, events, dropped_events>>
    BY <2>2 DEF IInv, NothingMissed
  <2> QED BY <1>5, <2>1, <2>2 DEF Register, Halt, Contract!SetCallback, contractVars
<1>6. CASE Request
  <2>1. events = <<>> /\ dropped_events = 0 /\ UNCHANGED <<outcome, events, dropped_events>>
    BY <1>6 DEF Request, IInv, NothingMissed, Contract!Accept, contractVars
  <2>2. CASE delivered' = <<>> /\ pc' = "await"
    BY <2>1, <2>2, EmptySeq DEF IInv, NothingMissed
  <2>3. CASE UNCHANGED delivered /\ pc' = "detach" /\ failures' = TRUE
    BY <2>1, <2>3 DEF IInv, NothingMissed
  <2> QED BY <1>6, <2>2, <2>3 DEF Request, GotoNoting
<1>7. CASE Await \/ Detach
  BY <1>1, <1>7 DEF Await, Detach, Contract!SetCallback, contractVars
<1>8. CASE Drain
  <2>1. events' = <<>> /\ UNCHANGED <<outcome, delivered, dropped_events>> /\ pc' \in {"shell", "after"}
    BY <1>8 DEF Drain, GotoNoting, Halt, contractVars
  <2> QED BY <2>1, EmptySeq DEF IInv, NothingMissed
<1>9. CASE ListAfter \/ Match \/ Delete \/ ListLast
  BY <1>1, <1>9 DEF ListAfter, Match, Delete, ListLast, GotoNoting, Halt, contractVars
<1> QED BY <1>2, <1>3, <1>4, <1>5, <1>6, <1>7, <1>8, <1>9 DEF Test

(* What a drained queue says of the request. *)
LEMMA EnrollmentInv == IInv /\ Test => EnrollmentIsOver'
<1> SUFFICES ASSUME IInv, Test, pc' = "after", ~staged' PROVE EnrollmentIsOver'
  BY DEF EnrollmentIsOver
<1>1. CASE Drain
  <2>1. ~failures /\ GoodTrace /\ UNCHANGED <<delivered, phase, callback>> /\ pc = "drain"
    BY <1>1 DEF Drain, Halt, End, contractVars
  <2>2. phase = "idle" /\ callback = NoCallback
    BY <2>1 DEF IInv, Sessions
  <2>3. events = delivered /\ delivered \in Seq(Reports)
    BY <2>1 DEF IInv, NothingMissed, GoodTrace
  <2>4. /\ Len(delivered) = 2
        /\ delivered[1].type = "ENROLL_COMPLETE"
        /\ delivered[2].type = "STOPPED" /\ delivered[2].status = "OK"
    BY <2>1, <2>3 DEF GoodTrace, Recorded
  <2>5. DOMAIN delivered = 1 .. 2
    BY <2>3, <2>4
  <2>6. delivered[1].status = "OK"
    BY <2>4, <2>5 DEF IInv, NothingMissed
  <2> QED BY <2>1, <2>2, <2>4, <2>5, <2>6 DEF EnrollmentIsOver
<1>2. CASE EnrollFinalize
  BY <1>2 DEF EnrollFinalize, IInv, Sessions, historyVars, staged
<1>3. pc' # "after" \/ Drain \/ EnrollFinalize
  BY DEF Test, ListBefore, Unsupported, EnrollStart, EnrollCapture, EnrollFinalize, EnrollAbort,
         Register, Request, Await, Detach, ListAfter, Match, Delete, ListLast,
         Refuse, Halt, End, Goto, GotoNoting
<1> QED BY <1>1, <1>2, <1>3

(* IInv holds in every behaviour: a run may begin whenever the test is not halted, and *)
(* the device goes on while the test is anywhere.                                       *)
THEOREM Invariance == Spec => []IInv
<1>1. Init => IInv
  <2> SUFFICES ASSUME Init PROVE IInv
    OBVIOUS
  <2>1. Sessions /\ LibraryKnown /\ EnrollmentIsOver
    BY DEF Init, Sessions, LibraryKnown, EnrollmentIsOver, IdleCalls, ClosedCalls, UntouchedCalls,
           Contract!Init, Store!Init
  <2>2. NothingMissed
    BY EmptySeq DEF Init, NothingMissed, Contract!Init, Contract!Errnos
  <2> QED BY <2>1, <2>2 DEF IInv
<1>2. IInv /\ [Next]_vars => IInv'
  <2> SUFFICES ASSUME IInv, [Next]_vars PROVE IInv'
    OBVIOUS
  <2>1. CASE Begin
    <3>1. pc = "shell" /\ ~halted /\ pc' = "before" /\ found' = db
          /\ UNCHANGED <<contractVars, storeVars, queueVars, user>>
      BY <2>1 DEF Begin
    <3>2. db = found /\ phase = "idle" /\ ~open /\ user \subseteq db
      BY <3>1 DEF IInv, Sessions, LibraryKnown
    <3>3. Sessions' /\ LibraryKnown' /\ EnrollmentIsOver'
      BY <3>1, <3>2 DEF Sessions, LibraryKnown, EnrollmentIsOver, IdleCalls, ClosedCalls,
                        UntouchedCalls, contractVars, storeVars
    <3>4. NothingMissed'
      BY <3>1 DEF IInv, NothingMissed, contractVars, queueVars
    <3> QED BY <3>3, <3>4 DEF IInv
  <2>2. CASE Test
    BY <2>2, SessionsInv, LibraryInv, EventsInv, EnrollmentInv DEF IInv
  <2>3. CASE DeviceStores \/ DeviceReports \/ DeviceGoesOn
    BY <2>3, DeviceInv
  <2>4. CASE UNCHANGED vars
    <3>1. UNCHANGED <<contractVars, storeVars, queueVars, scriptVars, dataVars, historyVars>>
      BY <2>4 DEF vars
    <3>2. Sessions' /\ LibraryKnown' /\ EnrollmentIsOver'
      BY <3>1 DEF IInv, Sessions, LibraryKnown, EnrollmentIsOver, IdleCalls, ClosedCalls,
                  UntouchedCalls, Listed, staged, contractVars, storeVars, queueVars, scriptVars,
                  dataVars, historyVars
    <3>3. NothingMissed'
      BY <3>1 DEF IInv, NothingMissed, contractVars, queueVars, scriptVars
    <3> QED BY <3>2, <3>3 DEF IInv
  <2> QED BY <2>1, <2>2, <2>3, <2>4 DEF Next
<1> QED BY <1>1, <1>2, PTL DEF Spec

(* No run, whatever fails in it, deletes a template that was there before the first one: *)
(* the id it deletes is the one the listing has confirmed as new.                         *)
THEOREM OwnOnly == Spec => []OnlyOwnDeleted
<1>1. IInv => OnlyOwnDeleted
  BY DEF IInv, LibraryKnown, OnlyOwnDeleted
<1> QED BY <1>1, Invariance, PTL

(* A test that was not halted has left the library as it found it, and no request or *)
(* enrollment behind; this also holds when the listing shows only some of the ids.   *)
THEOREM NextRunSafe == Spec => []NextRunIsSafe
<1>1. IInv => NextRunIsSafe
  BY DEF IInv, Sessions, NextRunIsSafe
<1> QED BY <1>1, Invariance, PTL

(* An enrollment by request that is taken for good is over, and its events were one *)
(* template and STOPPED, though the queue may be shorter than what was reported.    *)
THEOREM EnrollmentOver == Spec => []EnrollmentIsOver
<1>1. IInv => EnrollmentIsOver
  BY DEF IInv
<1> QED BY <1>1, Invariance, PTL
-----------------------------------------------------------------------------
(***************************************************************************)
(* Test 4.                                                                 *)
(***************************************************************************)

(* Nothing is open at the start. *)
LEMMA Test4Init == FootprintInit => FootprintIInv
  BY DEF FootprintInit, Contract!Init, FootprintIInv, RequestOpen, ObserverAsked,
         DisturbanceNoted

(* The label of a snapshot depends on the place in the script alone. *)
LEMMA Test4SameLabel ==
    ASSUME UNCHANGED <<sensor, variant, at>>
    PROVE  Label' = Label
  BY DEF Label, Script, AI10Profile, GT5Profile, AndSnapshot,
         Times

(* A report notes in event_error what disturbs the match, but for the STOPPED of a  *)
(* failure: its ERROR has done so.                                                  *)
LEMMA Test4DeviceReportsInv == ASSUME FootprintIInv, WorkerReports PROVE FootprintIInv'
<1> USE DEF FootprintIInv
<1>1. /\ phase # "idle" /\ phase' # "idle"
      /\ event_error' = 1 \/ event_error' = event_error
      /\ phase' = "failed" => event_error' = 1
      /\ disturbed' => disturbed \/ event_error' = 1 \/ phase = "failed"
  <2>1. CASE Contract!Result
    <3>1. PICK r \in Contract!Results(operation) :
                event' = Contract!Event(r[1], r[2])
      BY <2>1 DEF Contract!Result
    <3>2. /\ event'.type = r[1] /\ event'.status = r[2] /\ r[1] # "STOPPED"
          /\ r[1] = "NO_MATCH" /\ r[2] = "ETIMEDOUT" => event' = NobodyCame
      BY <3>1 DEF Contract!Event, Contract!Results, NobodyCame
    <3>3. /\ event_error' = event_error => \/ r[1] = "NO_MATCH" /\ r[2] = "ETIMEDOUT"
                                          \/ event_error' = 1
          /\ event_error' = 1 \/ event_error' = event_error
          /\ disturbed' = (disturbed \/ ~(\/ event' = NobodyCame
                                          \/ event'.type = "STOPPED" /\ Contract!Quiet))
      BY <3>2 DEF WorkerReports, on_event
    <3> QED BY <2>1, <3>2, <3>3 DEF Contract!Result
  <2>2. CASE Contract!ReportError
    BY <2>2 DEF Contract!ReportError, WorkerReports, on_event,
                Contract!Event
  <2>3. CASE Contract!ReportStopped
    BY <2>3 DEF Contract!ReportStopped, WorkerReports, on_event,
                Contract!Event
  <2> QED BY <2>1, <2>2, <2>3 DEF WorkerReports
<1>2. UNCHANGED <<ot, snapshot_request, snapshot_done, snapshot_phase, sensor, variant, main_pc, at,
                  suite_verdict>>
  BY DEF WorkerReports, snapshotVars, mainVars
<1>3. RequestOpen'
  BY <1>1, <1>2 DEF RequestOpen
<1>4. ObserverAsked'
  <2>1. ot = "waits" /\ snapshot_request = 0 
    BY <1>1 DEF ObserverAsked
  <2> QED BY <1>1, <1>2, <2>1 DEF ObserverAsked
<1>5. DisturbanceNoted'
  BY <1>1, <1>2 DEF DisturbanceNoted, RequestOpen
<1> QED BY <1>2, <1>3, <1>4, <1>5

LEMMA Test4DeviceGoesOnInv == ASSUME FootprintIInv, WorkerGoesOn PROVE FootprintIInv'
<1> USE DEF FootprintIInv
<1>1. /\ phase' = "failed" => phase = "failed"
      /\ phase' = "idle" => event' = Contract!NoEvent
      /\ UNCHANGED <<event_error, ot, snapshot_request, snapshot_done, snapshot_phase,
                     sensor, variant, main_pc, at, suite_verdict, disturbed>>
  BY DEF WorkerGoesOn, Contract!ResultReturn, Contract!Settle,
         Contract!CleanupFails, Contract!StoppedReturn, Contract!BecomeIdle,
         traceVars, snapshotVars, mainVars
<1>2. phase # "idle"
  BY DEF WorkerGoesOn, Contract!ResultReturn, Contract!Settle,
         Contract!CleanupFails, Contract!StoppedReturn, Contract!BecomeIdle
<1>3. RequestOpen' /\ DisturbanceNoted'
  BY <1>1, <1>2 DEF RequestOpen, DisturbanceNoted
<1>4. ObserverAsked'
  BY <1>1, <1>2 DEF ObserverAsked
<1> QED BY <1>1, <1>3, <1>4

LEMMA Test4ObserverInv == ASSUME FootprintIInv, Observer PROVE FootprintIInv'
<1> USE DEF FootprintIInv
<1>1. /\ UNCHANGED <<phase, event, event_error, snapshot_phase, sensor, variant, main_pc, at,
                     suite_verdict, disturbed>>
      /\ Label' = Label
  BY Test4SameLabel DEF Observer, ObserverTakes, StackRow, ObserverGives,
         contractVars, traceVars, mainVars
<1>2. RequestOpen' /\ DisturbanceNoted'
  BY <1>1 DEF RequestOpen, DisturbanceNoted
<1>3. ObserverAsked'
  BY <1>1 DEF ObserverAsked, Observer, ObserverTakes, StackRow,
              ObserverGives
<1> QED BY <1>1, <1>2, <1>3

(* The steps of the suite that leave the device and the observer alone. *)
LEMMA Test4ScriptInv ==
    ASSUME FootprintIInv, SuiteBegins \/ NextPart \/ SyncOnce \/ Judge
    PROVE  FootprintIInv'
<1> USE DEF FootprintIInv
<1>1. /\ UNCHANGED <<phase, event, event_error, ot, snapshot_request, snapshot_done,
                     snapshot_phase, sensor, variant>>
      /\ suite_verdict = "none" /\ main_pc # "end" /\ main_pc # "snapshot_wait"
  BY DEF SuiteBegins, NextPart, SyncOnce, Judge, GoOn, EndSuite,
         Done, contractVars, traceVars, snapshotVars
<1>2. /\ suite_verdict' \in {"none", "PASS", "FAIL"}
      /\ suite_verdict' # "none" <=> main_pc' = "end"
      /\ phase = "idle"
      /\ suite_verdict' # "FAIL" => /\ ~disturbed'
                              /\ main_pc' \in {"next", "snapshot", "match", "idle", "end"}
  <2>1. CASE SuiteBegins
    BY <1>1, <2>1 DEF SuiteBegins, GoOn, EndSuite, RequestOpen,
                      DisturbanceNoted
  <2>2. CASE NextPart
    BY <1>1, <2>2 DEF NextPart, GoOn, EndSuite, RequestOpen,
                      DisturbanceNoted
  <2>3. CASE SyncOnce
    BY <1>1, <2>3 DEF SyncOnce, Done, EndSuite, RequestOpen,
                      DisturbanceNoted
  <2>4. CASE Judge
    BY <1>1, <2>4 DEF Judge, Done, EndSuite, AsExpected, RequestOpen,
                      DisturbanceNoted
  <2> QED BY <2>1, <2>2, <2>3, <2>4
<1>3. RequestOpen' /\ DisturbanceNoted'
  BY <1>1, <1>2 DEF RequestOpen, DisturbanceNoted
<1>4. ObserverAsked'
  <2>1. ot = "waits" /\ snapshot_request = 0 /\ snapshot_done = 0
    BY <1>1 DEF ObserverAsked
  <2> QED BY <1>1, <2>1 DEF ObserverAsked
<1> QED BY <1>2, <1>3, <1>4

LEMMA Test4SnapshotInv ==
    ASSUME FootprintIInv, Snapshot \/ SnapshotDone
    PROVE  FootprintIInv'
<1> USE DEF FootprintIInv
<1>1. CASE Snapshot
  <2>1. /\ UNCHANGED <<phase, event, event_error, ot, snapshot_done, sensor, variant, at,
                       suite_verdict, disturbed>>
        /\ main_pc = "snapshot" /\ main_pc' = "snapshot_wait" /\ snapshot_request' = 1
        /\ snapshot_phase' = Label
    BY <1>1 DEF Snapshot, GoOn, contractVars, traceVars
  <2>2. Label' = Label
    BY <2>1, Test4SameLabel
  <2>3. phase = "idle" /\ ot = "waits" /\ snapshot_done = 0
    BY <2>1 DEF RequestOpen, ObserverAsked
  <2>4. ObserverAsked'
    BY <2>1, <2>2, <2>3 DEF ObserverAsked
  <2>5. RequestOpen' /\ DisturbanceNoted'
    BY <2>1, <2>3 DEF RequestOpen, DisturbanceNoted
  <2> QED BY <2>1, <2>4, <2>5
<1>2. CASE SnapshotDone
  <2>1. /\ UNCHANGED <<phase, event, event_error, ot, snapshot_request, snapshot_phase, sensor,
                       variant, disturbed>>
        /\ main_pc = "snapshot_wait" /\ suite_verdict = "none" /\ phase = "idle" /\ ~disturbed
    BY <1>2 DEF SnapshotDone, Done, EndSuite, contractVars, traceVars,
                RequestOpen, DisturbanceNoted
  <2>2. CASE suite_verdict' = "FAIL"
    <3>1. main_pc' = "end" /\ UNCHANGED at /\ snapshot_done' \in {snapshot_done, 0}
      BY <1>2, <2>1, <2>2 DEF SnapshotDone, Done, EndSuite
    <3>2. Label' = Label
      BY <2>1, <3>1, Test4SameLabel
    <3>3. ObserverAsked'
      BY <2>1, <2>2, <3>1, <3>2 DEF ObserverAsked
    <3> QED BY <2>1, <2>2, <3>1, <3>3 DEF RequestOpen, DisturbanceNoted
  <2>3. CASE suite_verdict' # "FAIL"
    <3>1. main_pc' = "next" /\ suite_verdict' = "none" /\ snapshot_done = 1 /\ snapshot_done' = 0
      BY <1>2, <2>1, <2>3 DEF SnapshotDone, Done, EndSuite
    <3>2. ObserverAsked'
      BY <2>1, <3>1 DEF ObserverAsked
    <3> QED BY <2>1, <3>1, <3>2 DEF RequestOpen, DisturbanceNoted
  <2> QED BY <2>2, <2>3
<1> QED BY <1>1, <1>2

(* From the trace that is cleared to the verdict on it. *)
LEMMA Test4MatchInv ==
    ASSUME FootprintIInv, \/ CallbackIdle \/ Clear \/ RequestMatch \/ Stop
                       \/ StopReturns \/ Terminal
    PROVE  FootprintIInv'
<1> USE DEF FootprintIInv
<1>1. /\ UNCHANGED <<event, ot, snapshot_request, snapshot_done, snapshot_phase, sensor, variant,
                     disturbed>>
      /\ main_pc \in {"idle", "idle_again", "clear", "request", "stop", "stopping", "terminal"}
  <2> USE DEF GoOn, Done, EndSuite, contractVars, snapshotVars
  <2>1. CASE CallbackIdle
    BY <2>1 DEF CallbackIdle, Contract!SetCallback
  <2>2. CASE Clear
    BY <2>2 DEF Clear
  <2>3. CASE RequestMatch
    BY <2>3 DEF RequestMatch, Contract!Accept
  <2>4. CASE Stop
    BY <2>4 DEF Stop, Contract!RequestStop
  <2>5. CASE StopReturns \/ Terminal
    BY <2>5 DEF StopReturns, Terminal
  <2> QED BY <2>1, <2>2, <2>3, <2>4, <2>5
<1>2. ot = "waits" /\ snapshot_request = 0 /\ snapshot_done = 0 /\ suite_verdict = "none"
  BY <1>1 DEF ObserverAsked
<1>3. ObserverAsked'
  BY <1>1, <1>2 DEF ObserverAsked
<1>4. /\ suite_verdict' \in {"none", "FAIL"} /\ (suite_verdict' # "none" <=> main_pc' = "end")
      /\ RequestOpen' /\ DisturbanceNoted'
  <2> USE <1>1, <1>2 DEF RequestOpen, DisturbanceNoted, GoOn, Done,
                         EndSuite
  <2>1. CASE CallbackIdle
    BY <2>1 DEF CallbackIdle, Contract!SetCallback, contractVars,
                traceVars
  <2>2. CASE Clear
    BY <2>2 DEF Clear, contractVars
  <2>3. CASE RequestMatch
    BY <2>3 DEF RequestMatch, Contract!Accept, contractVars, traceVars
  <2>4. CASE Stop
    BY <2>4 DEF Stop, Contract!RequestStop, contractVars, traceVars
  <2>5. CASE StopReturns
    BY <2>5 DEF StopReturns, contractVars, traceVars
  <2>6. CASE Terminal
    BY <2>6 DEF Terminal, contractVars
  <2> QED BY <2>1, <2>2, <2>3, <2>4, <2>5, <2>6
<1> QED BY <1>3, <1>4

THEOREM Test4Invariance == FootprintSpec => []FootprintIInv
<1>1. FootprintIInv /\ [FootprintNext]_footprintVars => FootprintIInv'
  <2> SUFFICES ASSUME FootprintIInv, [FootprintNext]_footprintVars PROVE FootprintIInv'
    OBVIOUS
  <2>1. CASE Device
    BY <2>1, Test4DeviceReportsInv, Test4DeviceGoesOnInv DEF Device
  <2>2. CASE Observer
    BY <2>2, Test4ObserverInv
  <2>3. CASE Main
    BY <2>3, Test4ScriptInv, Test4SnapshotInv, Test4MatchInv DEF Main
  <2>4. CASE UNCHANGED footprintVars
    <3>1. UNCHANGED <<phase, event, event_error, ot, snapshot_request, snapshot_done,
                      snapshot_phase, sensor, variant, main_pc, at, suite_verdict, disturbed>>
      BY <2>4 DEF footprintVars, contractVars, traceVars, snapshotVars,
                  mainVars
    <3>2. ObserverAsked'
      BY <3>1, Test4SameLabel DEF FootprintIInv, ObserverAsked
    <3> QED BY <3>1, <3>2 DEF FootprintIInv, RequestOpen, DisturbanceNoted
  <2> QED BY <2>1, <2>2, <2>3, <2>4 DEF FootprintNext
<1> QED BY <1>1, Test4Init, PTL DEF FootprintSpec

(* The stacks are scanned while no request or callback runs and under the name of the *)
(* operations that were done, also when the main thread has given the snapshot up.    *)
THEOREM Test4ScansAtRest == FootprintSpec => []ScannedAtRest
<1>1. FootprintIInv => ScannedAtRest
  BY DEF FootprintIInv, RequestOpen, ObserverAsked, ScannedAtRest
<1> QED BY <1>1, Test4Invariance, PTL

(* A suite that passes measured matches for which nobody came and nothing failed. *)
THEOREM Test4PassIsTrue == FootprintSpec => []PassMeansNobody
<1>1. FootprintIInv => PassMeansNobody
  BY DEF FootprintIInv, DisturbanceNoted, PassMeansNobody
<1> QED BY <1>1, Test4Invariance, PTL
=============================================================================
