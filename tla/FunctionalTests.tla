--------------------------- MODULE FunctionalTests ---------------------------
(***************************************************************************)
(* Test 1 of the three devices: ai10-test1/src/main.c, which goes by the   *)
(* capabilities and enrolls staged or by an asynchronous request, and      *)
(* gt5-test1/src/main.c and zfm-test1/src/main.c, staged.  Each enrolls    *)
(* one template under a free id, matches it, deletes it, and compares the  *)
(* library with what it was.                                               *)
(*                                                                         *)
(* The device keeps BiometricStore and BiometricEvents; any call may fail, *)
(* after its effect or before, and an event may carry any id.  One action  *)
(* is one call of the test, with what follows it up to the next call.      *)
(***************************************************************************)
EXTENDS TestedDevice, Naturals, Sequences, FiniteSets

CONSTANTS max_templates,    \* capacity of the library
          PAGE_IDS,         \* the ZFM lists ids up to this one only
          STAGED_TEST_SLOTS,\* the ids the AI10's test may choose from
          EVENT_CAPACITY,   \* events the queue has room for
          SampleCounts,     \* of each test: values of enrollment_samples_required
          MaxRuns           \* bound: commands given

ASSUME FunctionalAssumption ==
    /\ max_templates \in Nat \ {0} /\ PAGE_IDS \in Nat \ {0} /\ STAGED_TEST_SLOTS \in Nat \ {0}
    /\ EVENT_CAPACITY \in Nat \ {0} /\ MaxRuns \in Nat
    /\ OnEvent # NoCallback

VARIABLES
    \* the library of the device
    db, open, template_id,
    samples_required,
    \* what the callback leaves
    events, dropped_events, callback_stops,
    \* the test
    suite, pc,
    before,        \* before_ids
    id,            \* enrolled_id or owned_id
    taken,         \* samples captured
    failures,      \* a check has failed in this run
    release_ret,   \* "OK" once the callback is known to be over
    halted, verdict,
    \* history
    runs, found, user,  \* the library at the begin of the run, and of the first run
    delivered           \* the events of the last request

storeVars == <<db, open, template_id>>
queueVars == <<events, dropped_events, callback_stops, delivered>>
scriptVars == <<pc, failures, halted, verdict>>
dataVars == <<before, id, taken, release_ret>>
historyVars == <<suite, samples_required, runs, found, user>>
vars == <<contractVars, storeVars, queueVars, scriptVars, dataVars, historyVars>>

Ids == 1 .. max_templates

Store == INSTANCE BiometricStore WITH calls <- {}

staged == samples_required > 0
careful == suite # "ai10"   \* the later tests halt on every failed check

(* The ids a listing can report. *)
Listed == IF suite = "zfm" THEN 1 .. PAGE_IDS ELSE Ids

Init == /\ Contract!Init /\ Store!Init
        /\ suite \in DOMAIN SampleCounts
        /\ samples_required \in SampleCounts[suite]
        /\ events = <<>> /\ dropped_events = 0 /\ callback_stops = 0 /\ delivered = <<>>
        /\ pc = "shell" /\ before = {} /\ id = 0 /\ taken = 0
        /\ failures = FALSE /\ release_ret = "OK"
        /\ halted = FALSE /\ verdict = "none"
        /\ runs = 0 /\ found = db /\ user = db
-----------------------------------------------------------------------------
(***************************************************************************)
(* The device enrolling on its own, and on_event().                        *)
(***************************************************************************)

DeviceStores ==
    /\ phase = "active" /\ event = Contract!NoEvent
    /\ db = found
    /\ \E i \in Ids \ db : Store!TemplateStore(i)
    /\ UNCHANGED <<contractVars, queueVars, scriptVars, dataVars, historyVars>>

(* The count of STOPPED does not depend on the queue, which may be full. *)
OnEventCalled(i) ==
    LET e == [type |-> event'.type, status |-> event'.status, id |-> i]
    IN  /\ delivered' = Append(delivered, e)
        /\ IF Len(events) < EVENT_CAPACITY
           THEN events' = Append(events, e) /\ UNCHANGED dropped_events
           ELSE dropped_events' = dropped_events + 1 /\ UNCHANGED events
        /\ callback_stops' = callback_stops + (IF e.type = "STOPPED" THEN 1 ELSE 0)

DeviceReports ==
    /\ \/ Contract!Result
       \/ Contract!ReportError
       \/ Contract!ReportStopped
    /\ \E i \in IF event'.type = "ENROLL_COMPLETE" THEN 0 .. max_templates + 1 ELSE {0} :
           IF callback = OnEvent THEN OnEventCalled(i) ELSE UNCHANGED queueVars
    /\ UNCHANGED <<storeVars, scriptVars, dataVars, historyVars>>

DeviceGoesOn ==
    /\ \/ Contract!ResultReturn
       \/ (Contract!Settle \/ Contract!CleanupFails) /\ outcome' \in {"ETIMEDOUT", "ECANCELED"}
       \/ Contract!StoppedReturn \/ Contract!BecomeIdle
    /\ UNCHANGED <<storeVars, queueVars, scriptVars, dataVars, historyVars>>
-----------------------------------------------------------------------------
(***************************************************************************)
(* Where the test goes on.                                                 *)
(***************************************************************************)

Goto(call) == pc' = call /\ UNCHANGED <<failures, halted, verdict>>

(* Goes on though a check may have failed. *)
GotoNoting(ok, call) == pc' = call /\ failures' = (failures \/ ~ok) /\ UNCHANGED <<halted, verdict>>

End(v, stop) == pc' = "shell" /\ verdict' = v /\ halted' = (halted \/ stop) /\ UNCHANGED failures

(* A failed check before anything was asked of the device, and one after. *)
Refuse == End("FAIL", careful)
Halt == End("FAIL", TRUE)

(* cmd_run(); refused once the test is halted. *)
Begin ==
    /\ pc = "shell" /\ ~halted
    /\ runs < MaxRuns
    /\ runs' = runs + 1
    /\ found' = db
    /\ failures' = FALSE /\ verdict' = "none" /\ pc' = "before"
    /\ id' = 0
    /\ UNCHANGED <<contractVars, storeVars, queueVars, before, taken, release_ret, halted, suite,
                   samples_required, user>>

(* The lowest free id among those a listing shows and the test may use. *)
Choices(used) ==
    LET ids == (Ids \cap Listed) \cap (IF careful THEN Ids ELSE 1 .. STAGED_TEST_SLOTS)
    IN  {i \in ids \ used : \A j \in ids \ used : i <= j}

ListBefore ==
    /\ pc = "before"
    /\ \/ /\ before' = db \cap Listed
          /\ IF staged
             THEN IF Choices(before') = {} THEN Refuse /\ UNCHANGED id
                  ELSE id' \in Choices(before') /\ Goto("unsupported")
             ELSE Goto("unsupported") /\ UNCHANGED id
       \/ Refuse /\ UNCHANGED <<before, id>>
    /\ UNCHANGED <<contractVars, storeVars, queueVars, taken, release_ret, historyVars>>

(* The kind of enrollment the device does not have must be refused with -ENOSYS; what *)
(* was accepted is left to go on.                                                     *)
Unsupported ==
    /\ pc = "unsupported"
    /\ \/ Goto(IF staged THEN "start" ELSE "register") /\ UNCHANGED <<contractVars, storeVars>>
       \/ Halt /\ UNCHANGED <<contractVars, storeVars>>
       \/ ~staged /\ Halt /\ Store!EnrollStart(1) /\ UNCHANGED contractVars
       \/ /\ staged /\ Halt /\ Contract!Accept /\ operation' = "ENROLLING" /\ continuous' = FALSE
          /\ UNCHANGED storeVars
    /\ UNCHANGED <<queueVars, dataVars, historyVars>>
-----------------------------------------------------------------------------
(***************************************************************************)
(* The staged enrollment.                                                  *)
(***************************************************************************)

EnrollStart ==
    /\ pc = "start"
    /\ taken' = 0
    /\ \/ Store!EnrollStart(id) /\ Goto("capture")
       \/ (Store!EnrollStart(id) \/ UNCHANGED storeVars) /\ Halt
    /\ UNCHANGED <<contractVars, queueVars, before, id, release_ret, historyVars>>

EnrollCapture ==
    /\ pc = "capture"
    /\ \/ /\ taken' = taken + 1
          /\ UNCHANGED storeVars \/ (taken' = samples_required /\ Store!EnrollCapture)
          /\ Goto(IF taken' = samples_required THEN "finalize" ELSE "capture")
       \/ /\ UNCHANGED storeVars \/ Store!EnrollAbort
             \/ (taken + 1 = samples_required /\ Store!EnrollCapture)
          /\ Goto("abort") /\ UNCHANGED taken
    /\ UNCHANGED <<contractVars, queueVars, before, id, release_ret, historyVars>>

EnrollFinalize ==
    /\ pc = "finalize"
    /\ \/ Store!EnrollFinalize /\ Goto("after")
       \/ /\ \/ UNCHANGED storeVars \/ Store!EnrollCapture
             \/ Store!EnrollFinalize \/ Store!EnrollAbort
          /\ Goto("abort")
    /\ UNCHANGED <<contractVars, queueVars, dataVars, historyVars>>

(* Whatever it returns, the test is over: nothing is deleted on failure. *)
EnrollAbort ==
    /\ pc = "abort"
    /\ Store!EnrollAbort \/ UNCHANGED storeVars
    /\ Halt
    /\ UNCHANGED <<contractVars, queueVars, dataVars, historyVars>>
-----------------------------------------------------------------------------
(***************************************************************************)
(* enroll_async()                                                          *)
(***************************************************************************)

Register ==
    /\ pc = "register"
    /\ \/ /\ Contract!SetCallback /\ callback' = OnEvent
          /\ events' = <<>> /\ dropped_events' = 0 /\ callback_stops' = 0
          /\ Goto("request")
       \/ Halt /\ UNCHANGED <<contractVars, events, dropped_events, callback_stops>>
    /\ UNCHANGED <<storeVars, delivered, dataVars, historyVars>>

Request ==
    /\ pc = "request"
    /\ \/ /\ Contract!Accept /\ operation' = "ENROLLING" /\ continuous' = FALSE
          /\ delivered' = <<>>
          /\ Goto("await")
       \/ /\ GotoNoting(FALSE, "detach")
          /\ UNCHANGED <<contractVars, delivered>>
    /\ UNCHANGED <<storeVars, events, dropped_events, callback_stops, dataVars, historyVars>>

(* STOPPED was reported, or the watchdog of the test has expired. *)
Await ==
    /\ pc = "await"
    /\ \/ callback_stops > 0 /\ Goto("detach") /\ UNCHANGED release_ret
       \/ /\ callback_stops = 0 /\ release_ret' = "ETIMEDOUT"
          /\ pc' = "drain" /\ halted' = TRUE /\ failures' = TRUE /\ UNCHANGED verdict
    /\ UNCHANGED <<contractVars, storeVars, queueVars, before, id, taken, historyVars>>

(* The callback is not waited for. *)
Bug_Detach ==
    /\ pc = "detach"
    /\ release_ret' = "OK" /\ Goto("drain")
    /\ UNCHANGED <<contractVars, storeVars, queueVars, before, id, taken, historyVars>>

(* detach_callback(): unregistering is refused until the device is idle. *)
Detach ==
    /\ pc = "detach"
    /\ \/ /\ Contract!SetCallback /\ callback' = NoCallback
          /\ release_ret' = "OK" /\ Goto("drain")
       \/ /\ phase # "idle" /\ release_ret' = "ETIMEDOUT"
          /\ pc' = "drain" /\ halted' = TRUE /\ failures' = TRUE
          /\ UNCHANGED <<contractVars, verdict>>
    /\ UNCHANGED <<storeVars, queueVars, before, id, taken, historyVars>>

Recorded(type) == {i \in DOMAIN events : events[i].type = type}

(* One result and then STOPPED without an error, and nothing lost. *)
GoodTrace == /\ release_ret = "OK" /\ dropped_events = 0
             /\ Len(events) = 2
             /\ Recorded("ENROLL_COMPLETE") = {1} /\ Recorded("STOPPED") = {2}
             /\ events[2].status = "OK"

(* A modality that was not asked for is a failure, but the run goes on. *)
Drain ==
    /\ pc = "drain"
    /\ events' = <<>>
    /\ id' = IF Recorded("ENROLL_COMPLETE") = {} THEN id
             ELSE events[CHOOSE i \in Recorded("ENROLL_COMPLETE") :
                            \A j \in Recorded("ENROLL_COMPLETE") : j <= i].id
    /\ IF GoodTrace /\ ~failures THEN \E ok \in BOOLEAN : GotoNoting(ok, "after") ELSE Halt
    /\ UNCHANGED <<contractVars, storeVars, dropped_events, callback_stops, delivered, before,
                   taken, release_ret, historyVars>>
-----------------------------------------------------------------------------
(***************************************************************************)
(* From the enrolled template to the end.                                  *)
(***************************************************************************)

(* It is enough that the id is in the library. *)
Bug_AddedOnly(after) == id \in after

(* new_record_only, only_test_id_added *)
AddedOnly(after) == /\ id \in Ids
                    /\ id \notin before /\ id \in after
                    /\ before \subseteq after
                    /\ Cardinality(after) = Cardinality(before) + 1

(* same_inventory(), once the template is deleted. *)
Restored(after) == id \notin after /\ after = before

ListAfter ==
    /\ pc = "after"
    /\ \/ IF AddedOnly(db \cap Listed) THEN Goto("match") ELSE Halt
       \/ Halt
    /\ UNCHANGED <<contractVars, storeVars, queueVars, dataVars, historyVars>>

(* Identification and verification.  "Subsequent match failures do not prevent its    *)
(* cleanup" (ai10-test1/src/main.c:597); the later tests keep the template.            *)
Match ==
    /\ pc = "match"
    /\ \/ Goto("delete")
       \/ IF careful THEN Halt ELSE GotoNoting(FALSE, "delete")
    /\ UNCHANGED <<contractVars, storeVars, queueVars, dataVars, historyVars>>

(* A delete that fails leaves the test ready for the next run. *)
Bug_Delete ==
    /\ pc = "delete"
    /\ \/ Store!TemplateDelete(id) /\ Goto("last")
       \/ (Store!TemplateDelete(id) \/ UNCHANGED storeVars) /\ End("FAIL", FALSE)
    /\ UNCHANGED <<contractVars, queueVars, dataVars, historyVars>>

Delete ==
    /\ pc = "delete"
    /\ \/ Store!TemplateDelete(id) /\ Goto("last")
       \/ (Store!TemplateDelete(id) \/ UNCHANGED storeVars) /\ Halt
    /\ UNCHANGED <<contractVars, queueVars, dataVars, historyVars>>

ListLast ==
    /\ pc = "last"
    /\ \/ IF Restored(db \cap Listed) THEN End(IF failures THEN "FAIL" ELSE "PASS", FALSE) ELSE Halt
       \/ Halt
    /\ UNCHANGED <<contractVars, storeVars, queueVars, dataVars, historyVars>>

Test == \/ ListBefore \/ Unsupported
        \/ EnrollStart \/ EnrollCapture \/ EnrollFinalize \/ EnrollAbort
        \/ Register \/ Request \/ Await \/ Detach \/ Drain
        \/ ListAfter \/ Match \/ Delete \/ ListLast

Next == Begin \/ Test \/ DeviceStores \/ DeviceReports \/ DeviceGoesOn

Spec == Init /\ [][Next]_vars
-----------------------------------------------------------------------------
(***************************************************************************)
(* Properties.                                                             *)
(***************************************************************************)

(* Only the template of the run is ever deleted, also when the device reports another *)
(* id for it, or does not list every id: "never allocate or delete an ID outside this  *)
(* page" (zfm-test1/src/main.c:20).                                                    *)
OnlyOwnDeleted == user \subseteq db

(* A test that lets the next run begin has left the library as it was, with neither a  *)
(* request nor an enrollment in progress: halted is "set after an unresolved operation  *)
(* or uncertain database state" (ai10-test1/src/main.c:45).                            *)
NextRunIsSafe == pc = "shell" /\ ~halted => db = found /\ phase = "idle" /\ ~open

(* An enrollment by request is taken for good only when the device is idle again and   *)
(* has reported one template, STOPPED without an error, and nothing else.              *)
EnrollmentIsOver ==
    pc = "after" /\ ~staged =>
        /\ phase = "idle" /\ callback = NoCallback
        /\ [i \in DOMAIN delivered |-> <<delivered[i].type, delivered[i].status>>]
               = << <<"ENROLL_COMPLETE", "OK">>, <<"STOPPED", "OK">> >>
-----------------------------------------------------------------------------
(***************************************************************************)
(* The inductive invariant behind the three properties.                    *)
(***************************************************************************)

(* The calls made with no request in progress, with no enrollment open, and with the *)
(* library of the begin of the run.                                                  *)
IdleCalls == {"before", "unsupported", "start", "capture", "finalize", "abort", "register",
              "request", "after", "match", "delete", "last"}
ClosedCalls == {"before", "unsupported", "start", "register", "request", "await", "detach",
                "drain", "after", "match", "delete", "last"}
UntouchedCalls == {"before", "unsupported", "start", "register", "request", "last"}

Sessions ==
    /\ pc \in {"shell"} \cup IdleCalls \cup ClosedCalls
    /\ pc \in IdleCalls => phase = "idle"
    /\ pc \in ClosedCalls => ~open
    /\ pc = "shell" => halted \/ (db = found /\ phase = "idle" /\ ~open)
    /\ pc \in {"start", "capture", "finalize"} => staged
    /\ pc = "drain" => failures \/ (phase = "idle" /\ callback = NoCallback)

(* What a run may have added to the library so far: one template, which is the one it *)
(* was about as soon as the listing has confirmed it.                                  *)
LibraryKnown ==
    /\ user \subseteq found /\ user \subseteq db
    /\ pc \in UntouchedCalls => db = found
    /\ pc \notin {"shell", "before"} => before = found \cap Listed
    /\ pc \in {"capture", "finalize", "abort"} => template_id = id /\ db \in {found, found \cup {id}}
    /\ pc # "shell" => found \subseteq db /\ \A i, j \in db \ found : i = j
    /\ pc \in {"match", "delete"} => id \notin found /\ db = found \cup {id}

Reports == [type : {"MATCH", "NO_MATCH", "ENROLL_COMPLETE", "ERROR", "STOPPED"},
            status : Contract!Errnos, id : 0 .. max_templates + 1]

(* The queue holds every event of the request unless one was dropped or the run has *)
(* already failed.                                                                  *)
NothingMissed ==
    /\ outcome \in Contract!Errnos
    /\ delivered \in Seq(Reports) /\ events \in Seq(Reports) /\ dropped_events \in Nat
    /\ \A i \in DOMAIN delivered :
           delivered[i].type = "ENROLL_COMPLETE" => delivered[i].status = "OK"
    /\ pc = "request" => events = <<>> /\ dropped_events = 0
    /\ pc \in {"await", "detach", "drain"} =>
           failures \/ dropped_events > 0 \/ events = delivered

IInv == Sessions /\ LibraryKnown /\ NothingMissed /\ EnrollmentIsOver
=============================================================================
