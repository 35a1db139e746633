--------------------------- MODULE LifecycleTests ---------------------------
(***************************************************************************)
(* The lifecycle tests of asynchronous requests: test 2A                   *)
(* (ai10-test2/src/main.c) and test 2B (ai10-test2b/src/main.c), which     *)
(* holds the STOPPED callback at a gate and watches what the driver does   *)
(* meanwhile.  Each test is a script run by the shell thread; the stopper  *)
(* and the prober call the driver for it, so that no call traps the shell. *)
(*                                                                         *)
(* The driver keeps BiometricEvents or has one of the flaws that the tests *)
(* are written to find.  One action is what a thread does from one wait to *)
(* the next; the sleeps of the script and the printed rows are left out.   *)
(***************************************************************************)
EXTENDS TestedDevice, Naturals, Sequences, FiniteSets

CONSTANTS Suites,         \* the tests to run: subset of {"t2", "t2b"}
          Drivers,        \* the drivers to run them on: subset of {"good"} \cup Flaws
          EVENT_CAPACITY, \* events the queue has room for
          WrongEvents,    \* what a disorderly driver may report at any time of a request
          MaxResults,     \* bound: events of a request before its last
          MaxCommands         \* bound: commands given

(* What an event may say.  Which failure a NO_MATCH tells the tests do not look at. *)
EventValues ==
    {e \in [type : {"MATCH", "NO_MATCH", "ENROLL_COMPLETE", "ERROR", "STOPPED"},
            status : Contract!Errnos] :
        e.type = "NO_MATCH" /\ e.status # "OK" =>
            <<e.type, e.status>> \in Contract!Results("IDENTIFY")}

Flaws == {"early_stop",   \* a stop may return while the STOPPED callback runs
          "accepting",    \* calls may succeed while a callback runs
          "blocking",     \* calls may wait for the callback instead of being refused
          "disorderly"}   \* events are lost, added, or have a wrong status

ASSUME LifecycleAssumption ==
    /\ Suites \subseteq {"t2", "t2b"} /\ Drivers \subseteq {"good"} \cup Flaws
    /\ EVENT_CAPACITY \in Nat \ {0} /\ MaxResults \in Nat /\ MaxCommands \in Nat
    /\ WrongEvents \subseteq EventValues
    /\ OnEvent # NoCallback

VARIABLES
    \* the driver
    flaw,               \* what is wrong with it
    added,              \* a template was stored during the run
    \* the callback: where it is, and the queue it fills
    cb, events, dropped_events, callback_count, terminal_seen,
    \* the gate
    gate_arm, gate_active, gate_entered, gate_release, gate_expired,
    order_counter, callback_before_return_order, primary_return_order, primary_returned,
    \* the stopper: where it is, its semaphores and its result
    st, stop_request, stop_entered, stop_done, stop_result,
    \* the prober
    pr, probe_request, probe_done, probe_command, probe_result,
    probe_active_before, probe_active_after,
    \* the shell thread: the test, its next step (0 outside the command)
    test, at, expected, test_halted, verdict,
    \* history
    runs,
    delivered,          \* the events of the last request
    asked,              \* requests made of stopper and prober, and the last each has taken
    stop_for, probe_for,
    broken,             \* the driver broke its contract in this run
    excused             \* the driver is flawed, a watchdog fired, a call failed, or
                        \* somebody was in view

driverVars == <<flaw, contractVars, added>>
recordVars == <<events, dropped_events, callback_count, terminal_seen>>
gateVars == <<gate_arm, gate_active, gate_entered, gate_release, gate_expired, order_counter,
              callback_before_return_order, primary_return_order, primary_returned>>
stopVars == <<st, stop_request, stop_entered, stop_done, stop_result, stop_for>>
probeVars == <<pr, probe_request, probe_done, probe_command, probe_result, probe_active_before,
               probe_active_after, probe_for>>
runVars == <<test, runs>>
scriptVars == <<runVars, at, expected, test_halted, verdict, asked>>
lifecycleVars == <<driverVars, cb, delivered, recordVars, gateVars, stopVars, probeVars, scriptVars,
          broken, excused>>

-----------------------------------------------------------------------------
(***************************************************************************)
(* The scripts.  A step is a tuple of its name and its parameter.          *)
(***************************************************************************)

Finish == << <<"terminal">>, <<"idle">> >>

(* Test 2A waits for the end of the stop only. *)
Stop2A(r) == << <<"stop">>, <<"stopped", r>> >>
Ask == << <<"stop">>, <<"entered">> >>
Stop2B(r) == Ask \o << <<"stopped", r>> >>

Probe(c) == << <<"probe", c>>, <<"probed">> >>
Probes == Probe("ENROLL") \o Probe("IDENTIFY") \o Probe("REGISTER") \o Probe("LIST")

(* The device must take the next request at once; then the library is compared. *)
Recovery(stops, finds_idle) ==
    << <<"start", "CANCEL_IDENTIFY">> >> \o stops \o Finish
    \o << <<"unchanged">> >> \o finds_idle

rejections ==
    << <<"purge">> >> \o Stop2A("EALREADY")
    \o << <<"unregister">>, <<"refused">>, <<"register">>, <<"quiet">> >>

run_case(expect, asks) == << <<"start", expect>> >> \o asks \o Finish
                          \o Recovery(Stop2A("OK"), Stop2A("EALREADY"))

Busy2A == << <<"busy", "ENROLL">>, <<"busy", "IDENTIFY">>, <<"busy", "REGISTER">>,
             <<"busy", "LIST">> >>

T2 == << <<"snapshot">> >> \o rejections
      \o run_case("ENROLL_TIMEOUT", <<>>)
      \o run_case("ONCE_NO_SAMPLE", <<>>)
      \o run_case("CANCEL_ENROLL", Stop2A("OK"))
      \o run_case("CANCEL_IDENTIFY", Busy2A \o Stop2A("OK"))

(* From the second stop on both cases of test 2B are the same. *)
held_callback ==
    Probe("STOP") \o << <<"window">>, <<"release">>, <<"stopped", "OK">> >>
    \o Finish \o << <<"markers">> >> \o Recovery(Stop2B("OK"), Stop2B("EALREADY"))

natural_terminal == << <<"hold", "ENROLL_TIMEOUT">>, <<"gate">> >> \o Probes \o Ask
                    \o held_callback
cancel_terminal == << <<"hold", "CANCEL_IDENTIFY">> >> \o Ask \o << <<"gate">> >> \o Probes
                   \o held_callback

T2B == << <<"snapshot">>, <<"register">> >> \o natural_terminal \o cancel_terminal

Script == [t2 |-> T2, t2b |-> T2B]

script == Script[test]
-----------------------------------------------------------------------------
(***************************************************************************)
(* The verdict on a trace.                                                 *)
(***************************************************************************)

Of(trace, type) == {i \in DOMAIN trace : trace[i].type = type}
Times(trace, type) == Cardinality(Of(trace, type))

Lifecycle(trace) ==
    LET errors == Of(trace, "ERROR")
        stops == Of(trace, "STOPPED")
    IN  /\ stops = {Len(trace)}
        /\ Cardinality(errors) <= 1
        /\ \A i \in DOMAIN trace :
            /\ trace[i].type \in {"MATCH", "ENROLL_COMPLETE"} => trace[i].status = "OK"
            /\ trace[i].type \in {"NO_MATCH", "ERROR"} => trace[i].status # "OK"
            /\ trace[i].type \notin {"ERROR", "STOPPED"} => \A e \in errors : i < e
        /\ LET last == trace[Len(trace)].status
           IN  IF errors = {} THEN last \in {"OK", "ECANCELED"}
               ELSE \A e \in errors : trace[e].status = last

t2_evaluate(trace, expect) ==
    /\ Lifecycle(trace)
    /\ LET last == trace[Len(trace)].status
       IN  CASE expect = "ENROLL_TIMEOUT" ->
                    /\ Len(trace) = 2 /\ Times(trace, "ERROR") = 1
                    /\ last = "ETIMEDOUT"
             [] expect = "ONCE_NO_SAMPLE" ->
                    /\ Len(trace) = 2 /\ Times(trace, "NO_MATCH") = 1
                    /\ last = "OK"
             [] expect = "CANCEL_ENROLL" -> Len(trace) = 1 /\ last = "ECANCELED"
             [] expect = "CANCEL_IDENTIFY" ->
                    /\ Times(trace, "MATCH") = 0 /\ Times(trace, "ENROLL_COMPLETE") = 0
                    /\ Times(trace, "ERROR") = 0
                    /\ last = "ECANCELED"
-----------------------------------------------------------------------------
LifecycleInit == /\ Contract!Init
                 /\ flaw \in Drivers /\ added = FALSE
                 /\ cb = "none" /\ delivered = <<>>
                 /\ events = <<>> /\ dropped_events = 0 /\ callback_count = 0 /\ terminal_seen = 0
                 /\ gate_arm = 0 /\ gate_active = 0 /\ gate_entered = 0 /\ gate_release = 0
                 /\ gate_expired = 0 /\ order_counter = 0 /\ callback_before_return_order = 0
                 /\ primary_return_order = 0 /\ primary_returned = 0
                 /\ st = "waits" /\ stop_request = 0 /\ stop_entered = 0 /\ stop_done = 0
                 /\ stop_result = "OK" /\ stop_for = 0
                 /\ pr = "waits" /\ probe_request = 0 /\ probe_done = 0 /\ probe_command = "ENROLL"
                 /\ probe_result = "OK" /\ probe_for = 0
                 /\ probe_active_before = FALSE /\ probe_active_after = FALSE
                 /\ test \in Suites /\ at = 0 /\ expected = "ENROLL_TIMEOUT"
                 /\ test_halted = FALSE /\ verdict = "none"
                 /\ runs = 0 /\ asked = [stop |-> 0, probe |-> 0]
                 /\ broken = FALSE /\ excused = (flaw # "good")
-----------------------------------------------------------------------------
(***************************************************************************)
(* The driver and the callback it calls.                                   *)
(***************************************************************************)

(* Bound: once the command has ended, the driver does only what it must. *)
Watched == at > 0

(* The device answers as the tests want it: nobody is in view. *)
Unexpected ==
    \/ event'.type \in {"MATCH", "ENROLL_COMPLETE"}
    \/ event'.type = "ERROR" /\ event'.status # "ETIMEDOUT"

(* callback(), until it returns or waits at the gate. *)
CallbackStarts ==
    /\ delivered' = Append(delivered, event')
    /\ callback_count' = callback_count + 1
    /\ IF Len(events) < EVENT_CAPACITY
       THEN events' = Append(events, event') /\ UNCHANGED dropped_events
       ELSE dropped_events' = dropped_events + 1 /\ UNCHANGED events
    /\ IF event'.type = "STOPPED" /\ gate_arm = 1
       THEN /\ gate_arm' = 0 /\ gate_active' = 1 /\ gate_entered' = 1
            /\ cb' = "held"
            /\ UNCHANGED terminal_seen
       ELSE /\ terminal_seen' = IF event'.type = "STOPPED" THEN 1 ELSE terminal_seen
            /\ cb' = "returns"
            /\ UNCHANGED <<gate_arm, gate_active, gate_entered>>
    /\ excused' = (excused \/ Unexpected \/ dropped_events' > 0)
    /\ UNCHANGED <<gate_release, gate_expired, order_counter, callback_before_return_order,
                   primary_return_order, primary_returned>>

(* Events where the contract does not allow them. *)
Misreports ==
    /\ Watched
    /\ flaw = "disorderly" /\ phase # "idle" /\ event = Contract!NoEvent
    /\ Len(delivered) < MaxResults
    /\ event' \in WrongEvents
    /\ UNCHANGED <<phase, operation, continuous, callback, cancel, outcome>>

DriverReports ==
    /\ cb \in {"none", "returns"}
    /\ \/ /\ Contract!Result /\ Len(delivered) < MaxResults
          /\ event'.type = "NO_MATCH" => event'.status = "ETIMEDOUT"
       \/ Contract!ReportError
       \/ Contract!ReportStopped
       \/ Misreports
    /\ CallbackStarts
    /\ added' = (added \/ event'.type = "ENROLL_COMPLETE")
    /\ UNCHANGED <<flaw, stopVars, probeVars, scriptVars, broken>>

(* The callback waits for its release, GATE_WATCHDOG_MS at most. *)
GateReleased ==
    /\ cb = "held" /\ gate_release = 1
    /\ gate_release' = 0
    /\ cb' = "released"
    /\ UNCHANGED <<driverVars, delivered, recordVars, gate_arm, gate_active, gate_entered,
                   gate_expired, order_counter, callback_before_return_order,
                   primary_return_order, primary_returned, stopVars, probeVars, scriptVars,
                   broken, excused>>

GateExpires ==
    /\ cb = "held" /\ gate_release = 0
    /\ gate_expired' = 1
    /\ cb' = "released"
    /\ excused' = TRUE
    /\ UNCHANGED <<driverVars, delivered, recordVars, gate_arm, gate_active, gate_entered,
                   gate_release, order_counter, callback_before_return_order,
                   primary_return_order, primary_returned, stopVars, probeVars, scriptVars,
                   broken>>

(* The last statements of a callback that was held. *)
CallbackMarks ==
    /\ cb = "released"
    /\ order_counter' = order_counter + 1
    /\ callback_before_return_order' = order_counter'
    /\ gate_active' = 0
    /\ terminal_seen' = 1
    /\ cb' = "returns"
    /\ UNCHANGED <<driverVars, delivered, events, dropped_events, callback_count, gate_arm,
                   gate_entered, gate_release, gate_expired, primary_return_order,
                   primary_returned, stopVars, probeVars, scriptVars, broken, excused>>

CallbackReturns ==
    /\ cb = "returns"
    /\ \/ Contract!ResultReturn
       \/ Contract!StoppedReturn
       \/ /\ flaw = "disorderly" /\ event' = Contract!NoEvent
          /\ UNCHANGED <<phase, operation, continuous, callback, cancel, outcome>>
    /\ cb' = "none"
    /\ UNCHANGED <<flaw, added, delivered, recordVars, gateVars, stopVars, probeVars, scriptVars,
                   broken, excused>>

(* The request ends without a result: it is cancelled, times out, or fails. *)
Settles ==
    /\ Contract!Settle
    /\ outcome' \in {"ECANCELED", "ETIMEDOUT"}
    /\ excused' = (excused \/ ~(\/ cancel = 1 /\ outcome' = "ECANCELED"
                               \/ /\ cancel = 0 /\ expected = "ENROLL_TIMEOUT"
                                  /\ outcome' = "ETIMEDOUT"))
    /\ UNCHANGED <<flaw, added, cb, delivered, recordVars, gateVars, stopVars, probeVars,
                   scriptVars, broken>>

CleanupFails ==
    /\ Watched
    /\ Contract!CleanupFails
    /\ outcome' = "EIO"
    /\ excused' = TRUE
    /\ UNCHANGED <<flaw, added, cb, delivered, recordVars, gateVars, stopVars, probeVars,
                   scriptVars, broken>>

(* Somebody is in view while an enrollment waits. *)
Stores ==
    /\ Watched
    /\ phase = "active" /\ operation = "ENROLLING" /\ event = Contract!NoEvent
    /\ added' = TRUE
    /\ excused' = TRUE
    /\ UNCHANGED <<flaw, contractVars, cb, delivered, recordVars, gateVars, stopVars, probeVars,
                   scriptVars, broken>>

(* The final event is never reported. *)
SkipsStopped ==
    /\ Watched
    /\ flaw = "disorderly" /\ phase = "settled" /\ event = Contract!NoEvent
    /\ phase' = "stopped"
    /\ UNCHANGED <<flaw, operation, continuous, callback, cancel, outcome, event, added, cb,
                   delivered, recordVars, gateVars, stopVars, probeVars, scriptVars, broken,
                   excused>>

(* What biometrics.h:158-188 says of the events of one request. *)
LegalTrace(trace) ==
    \E n \in 0 .. Len(trace) :
        /\ \A i \in 1 .. n : <<trace[i].type, trace[i].status>> \in
               Contract!Results("IDENTIFY") \cup Contract!Results("ENROLLING")
        /\ \/ \E s \in {"OK", "ECANCELED"} :
                SubSeq(trace, n + 1, Len(trace)) = << Contract!Event("STOPPED", s) >>
           \/ \E s \in Contract!Errnos \ {"OK"} :
                SubSeq(trace, n + 1, Len(trace)) =
                    << Contract!Event("ERROR", s), Contract!Event("STOPPED", s) >>

BecomesIdle ==
    /\ Contract!BecomeIdle
    /\ broken' = (broken \/ ~LegalTrace(delivered))
    /\ UNCHANGED <<flaw, added, cb, delivered, recordVars, gateVars, stopVars, probeVars,
                   scriptVars, excused>>
-----------------------------------------------------------------------------
(***************************************************************************)
(* The calls of the driver's API.                                          *)
(***************************************************************************)

(* A stop that waits holds the driver's mutex. *)
StopWaits == st = "stopping" \/ pr = "stopping"
Busy == phase # "idle" \/ StopWaits

Request(op, forever, r) ==
    \/ /\ ~Busy /\ callback # NoCallback
       /\ Contract!Accept /\ operation' = op /\ continuous' = forever
       /\ delivered' = <<>>
       /\ r = "OK"
    \/ /\ r = IF Busy THEN "EBUSY" ELSE "EINVAL"
       /\ Busy \/ callback = NoCallback
       /\ UNCHANGED <<contractVars, delivered>>

Register(function, r) ==
    \/ /\ ~Busy /\ r = "OK"
       /\ Contract!SetCallback /\ callback' = function
       /\ UNCHANGED delivered
    \/ Busy /\ r = "EBUSY" /\ UNCHANGED <<contractVars, delivered>>

(* biometric_template_list(): may fail, too. *)
List(r) ==
    /\ IF Busy THEN r = "EBUSY" ELSE r \in {"OK", "EIO"}
    /\ UNCHANGED <<contractVars, delivered>>

Call(command, r) ==
    CASE command = "ENROLL" -> Request("ENROLLING", FALSE, r)
      [] command = "IDENTIFY" -> Request("IDENTIFY", TRUE, r)
      [] command = "REGISTER" -> Register(OnEvent, r)
      [] OTHER -> List(r)    \* "LIST"

Results == {"OK", "EBUSY", "EINVAL", "EALREADY", "EIO"}

(* A stop's status, when the driver is done with the request: a failed cleanup is *)
(* reported.                                                                      *)
StopStatuses == IF excused THEN {"OK", "EIO"} ELSE {"OK"}

(* The only promise the tests can see broken: what happens while the callback is held. *)
Held == cb = "held" /\ gate_release = 0
-----------------------------------------------------------------------------
(***************************************************************************)
(* stop_thread(), of priority 6.                                           *)
(***************************************************************************)

StopperTakes ==
    /\ st = "waits" /\ stop_request = 1
    /\ stop_request' = 0
    /\ stop_entered' = 1
    /\ stop_for' = asked.stop
    /\ st' = "calls"
    /\ UNCHANGED <<driverVars, cb, delivered, recordVars, gateVars, stop_done, stop_result,
                   probeVars, scriptVars, broken, excused>>

StopperCalls ==
    /\ st = "calls"
    /\ \/ /\ pr = "stopping" /\ stop_result' = "EBUSY" /\ st' = "returned"
          /\ UNCHANGED contractVars
       \/ /\ pr # "stopping" /\ phase = "idle" /\ stop_result' = "EALREADY"
          /\ st' = "returned"
          /\ UNCHANGED contractVars
       \/ /\ pr # "stopping" /\ phase # "idle" /\ Contract!RequestStop
          /\ st' = "stopping"
          /\ UNCHANGED stop_result
    /\ UNCHANGED <<flaw, added, cb, delivered, recordVars, gateVars, stop_request, stop_entered,
                   stop_done, stop_for, probeVars, scriptVars, broken, excused>>

StopReturns ==
    /\ st = "stopping"
    /\ phase = "idle" \/ (flaw = "early_stop" /\ phase = "stopped")
    /\ stop_result' \in StopStatuses
    /\ phase = "stopped" => stop_result' = "OK"
    /\ st' = "returned"
    /\ broken' = (broken \/ Held)
    /\ UNCHANGED <<driverVars, cb, delivered, recordVars, gateVars, stop_request, stop_entered,
                   stop_done, stop_for, probeVars, scriptVars, excused>>

StopperGives ==
    /\ st = "returned"
    /\ order_counter' = order_counter + 1
    /\ primary_return_order' = order_counter'
    /\ primary_returned' = 1
    /\ stop_done' = 1
    /\ st' = "waits"
    /\ UNCHANGED <<driverVars, cb, delivered, recordVars, gate_arm, gate_active, gate_entered,
                   gate_release, gate_expired, callback_before_return_order, stop_request,
                   stop_entered, stop_result, stop_for, probeVars, scriptVars, broken, excused>>

Stopper == StopperTakes \/ StopperCalls \/ StopReturns \/ StopperGives

(* The stopper does not preempt the others. *)
Bug_StopperReady == FALSE

StopperReady == \/ st = "waits" /\ stop_request = 1
                \/ st \in {"calls", "returned"}
                \/ st = "stopping" /\ phase = "idle"
-----------------------------------------------------------------------------
(***************************************************************************)
(* probe_thread(), of priority 7: on the one CPU it runs when the stopper  *)
(* waits ("This directed schedule uses priority-6 stop and priority-7      *)
(* probe workers on one CPU", prj.conf).                                   *)
(***************************************************************************)

ProberTakes ==
    /\ ~StopperReady
    /\ pr = "waits" /\ probe_request = 1
    /\ probe_request' = 0
    /\ probe_active_before' = (gate_active # 0)
    /\ probe_for' = asked.probe
    /\ pr' = "calls"
    /\ UNCHANGED <<driverVars, cb, delivered, recordVars, gateVars, stopVars, probe_done,
                   probe_command, probe_result, probe_active_after, scriptVars, broken, excused>>

(* The mutex is only tried; a driver may wait for it, or not look at it. *)
Waits == flaw = "blocking" /\ Busy
Accepts == flaw = "accepting" /\ Busy

ProberCalls ==
    /\ ~StopperReady
    /\ pr = "calls" /\ ~Waits
    /\ \/ /\ probe_command # "STOP"
          /\ probe_result' \in Results
          /\ \/ Call(probe_command, probe_result')
             \/ Accepts /\ probe_result' = "OK" /\ UNCHANGED <<contractVars, delivered>>
          /\ pr' = "returned"
       \/ /\ probe_command = "STOP" /\ (StopWaits \/ phase = "idle")
          /\ \/ probe_result' = IF StopWaits THEN "EBUSY" ELSE "EALREADY"
             \/ Accepts /\ probe_result' = "OK"
          /\ pr' = "returned"
          /\ UNCHANGED <<contractVars, delivered>>
       \/ /\ probe_command = "STOP" /\ ~StopWaits /\ phase # "idle"
          /\ Contract!RequestStop
          /\ pr' = "stopping"
          /\ UNCHANGED <<delivered, probe_result>>
    /\ broken' = (broken \/ (Held /\ pr' = "returned" /\ probe_result' # "EBUSY"))
    /\ excused' = (excused \/ probe_result' = "EIO")
    /\ UNCHANGED <<flaw, added, cb, recordVars, gateVars, stopVars, probe_request, probe_done,
                   probe_command, probe_active_before, probe_active_after, probe_for, scriptVars>>

ProbeStopReturns ==
    /\ ~StopperReady
    /\ pr = "stopping" /\ phase = "idle"
    /\ probe_result' \in StopStatuses
    /\ pr' = "returned"
    /\ UNCHANGED <<driverVars, cb, delivered, recordVars, gateVars, stopVars, probe_request,
                   probe_done, probe_command, probe_active_before, probe_active_after,
                   probe_for, scriptVars, broken, excused>>

ProberGives ==
    /\ ~StopperReady
    /\ pr = "returned"
    /\ probe_active_after' = (gate_active # 0)
    /\ probe_done' = 1
    /\ pr' = "waits"
    /\ UNCHANGED <<driverVars, cb, delivered, recordVars, gateVars, stopVars, probe_request,
                   probe_command, probe_result, probe_active_before, probe_for, scriptVars,
                   broken, excused>>

Prober == ProberTakes \/ ProberCalls \/ ProbeStopReturns \/ ProberGives

ProberReady == \/ pr = "waits" /\ probe_request = 1
               \/ pr = "calls" /\ ~Waits
               \/ pr = "returned"
               \/ pr = "stopping" /\ phase = "idle"
-----------------------------------------------------------------------------
(***************************************************************************)
(* The shell thread, of the lowest priority.                               *)
(***************************************************************************)

(* Threads run in any order. *)
Bug_Turn == TRUE

Turn == ~StopperReady /\ ~ProberReady

Step(name) == Turn /\ at > 0 /\ script[at][1] = name

Parameter == script[at][2]

Gated == test = "t2b"

(* The next step; after the last one the run passes. *)
Continue ==
    /\ at' = IF at < Len(script) THEN at + 1 ELSE 0
    /\ verdict' = IF at < Len(script) THEN "none" ELSE "PASS"
    /\ UNCHANGED test_halted

(* A failed check halts the test for good; a callback that is held is let go. *)
HaltTest ==
    /\ at' = 0 /\ verdict' = "FAIL"
    /\ test_halted' = TRUE

(* Failed, and the gate stays as it is. *)
Bug_Release(ok) == UNCHANGED <<gate_arm, gate_release>>

Release(ok) ==
    IF ok \/ ~Gated THEN UNCHANGED <<gate_arm, gate_release>>
    ELSE gate_arm' = 0 /\ gate_release' = 1

Check(ok) == IF ok THEN Continue ELSE HaltTest

otherGateVars == <<gate_active, gate_entered, gate_expired, order_counter,
                   callback_before_return_order, primary_return_order, primary_returned>>

(* A check, with nothing done but what the caller says. *)
Verify(ok) == Check(ok) /\ Release(ok) /\ UNCHANGED otherGateVars

(* cmd_run(): refused, when the test was halted, until the next reboot. *)
cmd_run ==
    /\ Turn /\ at = 0 /\ ~test_halted
    /\ runs < MaxCommands
    /\ runs' = runs + 1
    /\ at' = 1 /\ verdict' = "none" /\ broken' = FALSE /\ added' = FALSE
    /\ UNCHANGED <<flaw, contractVars, cb, delivered, recordVars, gateVars, stopVars, probeVars,
                   test, expected, test_halted, asked, excused>>

(* begin_trace(): "Only call while previous callbacks are known to have finished." *)
begin_trace ==
    /\ events' = <<>> /\ dropped_events' = 0 /\ callback_count' = 0 /\ terminal_seen' = 0
    /\ gate_entered' = 0 /\ gate_active' = 0 /\ gate_expired' = 0
    /\ order_counter' = 0 /\ callback_before_return_order' = 0
    /\ primary_return_order' = 0 /\ primary_returned' = 0

Purge ==
    /\ Step("purge")
    /\ begin_trace
    /\ gate_arm' = 0 /\ gate_release' = 0
    /\ Continue
    /\ UNCHANGED <<driverVars, cb, delivered, stopVars, probeVars, runVars, expected, asked,
                   broken, excused>>

(* start_operation(): the request must be accepted. *)
start_operation ==
    /\ Step("start") \/ Step("hold")
    /\ begin_trace
    /\ expected' = Parameter
    /\ \E r \in Results :
        /\ Request(IF Parameter \in {"ENROLL_TIMEOUT", "CANCEL_ENROLL"}
                   THEN "ENROLLING" ELSE "IDENTIFY", Parameter = "CANCEL_IDENTIFY", r)
        /\ Check(r = "OK")
        /\ gate_arm' = IF r = "OK" /\ Step("hold") THEN 1 ELSE 0
        /\ gate_release' = IF r = "OK" \/ ~Gated THEN 0 ELSE 1
    /\ UNCHANGED <<flaw, added, cb, stopVars, probeVars, runVars, asked, broken, excused>>

(* A call the driver must refuse at once, made by the shell thread itself. *)
Refused ==
    /\ Step("refused") \/ Step("busy")
    /\ \E r \in Results :
        /\ IF Step("busy") THEN Call(Parameter, r) /\ Verify(r = "EBUSY")
           ELSE (Call("ENROLL", r) \/ Call("IDENTIFY", r)) /\ Verify(r = "EINVAL")
        /\ excused' = (excused \/ r = "EIO")
    /\ UNCHANGED <<flaw, added, cb, recordVars, stopVars, probeVars, runVars, expected, asked,
                   broken>>

Registers ==
    /\ Step("register") \/ Step("unregister")
    /\ \E r \in Results :
        /\ Register(IF Step("register") THEN OnEvent ELSE NoCallback, r)
        /\ Verify(r = "OK")
    /\ UNCHANGED <<flaw, added, cb, recordVars, stopVars, probeVars, runVars, expected, asked,
                   broken, excused>>

(* Nothing may have been reported for the requests that were refused. *)
StaysQuiet ==
    /\ Step("quiet")
    /\ Verify(events = <<>> /\ dropped_events = 0 /\ callback_count = 0)
    /\ UNCHANGED <<driverVars, cb, delivered, recordVars, stopVars, probeVars, runVars, expected,
                   asked, broken, excused>>

(* snapshot(), and inventory_unchanged() when it is not the first. *)
Lists ==
    /\ Step("snapshot") \/ Step("unchanged")
    /\ \E r \in Results :
        /\ List(r)
        /\ Verify(r = "OK" /\ (Step("unchanged") => ~added))
        /\ excused' = (excused \/ r = "EIO")
    /\ UNCHANGED <<flaw, added, cb, recordVars, stopVars, probeVars, runVars, expected, asked,
                   broken>>

(* stop_start() *)
Stop ==
    /\ Step("stop")
    /\ stop_done' = 0 /\ stop_entered' = 0
    /\ primary_returned' = 0 /\ primary_return_order' = 0
    /\ stop_request' = 1
    /\ asked' = [asked EXCEPT !.stop = @ + 1]
    /\ Continue
    /\ UNCHANGED <<driverVars, cb, delivered, recordVars, gate_arm, gate_active, gate_entered,
                   gate_release, gate_expired, order_counter, callback_before_return_order,
                   st, stop_result, stop_for, probeVars, runVars, expected, broken, excused>>

StopEntered ==
    /\ Step("entered") /\ stop_entered = 1
    /\ stop_entered' = 0
    /\ Continue
    /\ UNCHANGED <<driverVars, cb, delivered, recordVars, gateVars, st, stop_request, stop_done,
                   stop_result, stop_for, probeVars, runVars, expected, asked, broken, excused>>

(* stop_finish(): the result is read after stop_done only. *)
Stopped ==
    /\ Step("stopped") /\ stop_done = 1
    /\ stop_done' = 0
    /\ Verify(stop_result = Parameter)
    /\ UNCHANGED <<driverVars, cb, delivered, recordVars, st, stop_request, stop_entered,
                   stop_result, stop_for, probeVars, runVars, expected, asked, broken, excused>>

(* probe_busy(), up to its wait. *)
ProbeAsks ==
    /\ Step("probe")
    /\ probe_command' = Parameter
    /\ probe_done' = 0
    /\ probe_request' = 1
    /\ asked' = [asked EXCEPT !.probe = @ + 1]
    /\ Continue
    /\ UNCHANGED <<driverVars, cb, delivered, recordVars, gateVars, stopVars, pr, probe_result,
                   probe_active_before, probe_active_after, probe_for, runVars, expected,
                   broken, excused>>

Probed ==
    /\ Step("probed") /\ probe_done = 1
    /\ probe_done' = 0
    /\ Verify(/\ probe_active_before /\ probe_active_after
              /\ gate_active # 0 /\ gate_expired = 0
              /\ probe_result = "EBUSY")
    /\ UNCHANGED <<driverVars, cb, delivered, recordVars, stopVars, pr, probe_request,
                   probe_command, probe_result, probe_active_before, probe_active_after,
                   probe_for, runVars, expected, asked, broken, excused>>

(* The STOPPED callback has come to the gate. *)
GateEntered ==
    /\ Step("gate") /\ gate_entered = 1
    /\ gate_entered' = 0
    /\ LET ok == gate_active # 0 /\ gate_expired = 0 IN Check(ok) /\ Release(ok)
    /\ UNCHANGED <<driverVars, cb, delivered, recordVars, gate_active, gate_expired,
                   order_counter, callback_before_return_order, primary_return_order,
                   primary_returned, stopVars, probeVars, runVars, expected, asked, broken,
                   excused>>

(* stop_waits_for_callback: what is seen after the observation. *)
GateWindow ==
    /\ Step("window")
    /\ Verify(gate_active # 0 /\ gate_expired = 0 /\ primary_returned = 0)
    /\ UNCHANGED <<driverVars, cb, delivered, recordVars, stopVars, probeVars, runVars, expected,
                   asked, broken, excused>>

release_gate ==
    /\ Step("release")
    /\ gate_release' = 1
    /\ Continue
    /\ UNCHANGED <<driverVars, cb, delivered, recordVars, gate_arm, otherGateVars, stopVars,
                   probeVars, runVars, expected, asked, broken, excused>>

TerminalSeen ==
    /\ Step("terminal") /\ terminal_seen = 1
    /\ terminal_seen' = 0
    /\ Continue
    /\ UNCHANGED <<driverVars, cb, delivered, events, dropped_events, callback_count, gateVars,
                   stopVars, probeVars, runVars, expected, asked, broken, excused>>

(* STOPPED was seen: the callback must be over. *)
Bug_Quiescent ==
    /\ Step("idle")
    /\ Verify(/\ dropped_events = 0 /\ Len(events) = callback_count
              /\ t2_evaluate(events, expected))
    /\ events' = <<>>
    /\ UNCHANGED <<flaw, contractVars, added, cb, delivered, dropped_events, callback_count,
                   terminal_seen, stopVars, probeVars, runVars, expected, asked, broken, excused>>

(* The rest of finish_trace(): "STOPPED entry is not callback completion. Wait for *)
(* idle via registration", then judge what was recorded.                           *)
Quiescent ==
    /\ Step("idle")
    /\ Register(OnEvent, "OK")
    /\ Verify(/\ dropped_events = 0 /\ Len(events) = callback_count
              /\ t2_evaluate(events, expected))
    /\ events' = <<>>
    /\ UNCHANGED <<flaw, added, cb, dropped_events, callback_count, terminal_seen, stopVars,
                   probeVars, runVars, expected, asked, broken, excused>>

Markers ==
    /\ Step("markers")
    /\ Verify(/\ callback_before_return_order > 0
              /\ primary_return_order > callback_before_return_order
              /\ gate_expired = 0 /\ gate_active = 0)
    /\ UNCHANGED <<driverVars, cb, delivered, recordVars, stopVars, probeVars, runVars, expected,
                   asked, broken, excused>>

(* A semaphore that is still 0, or a device that is still busy, at the deadline: the  *)
(* device is slow, unless it is a probe that waits, which the driver must refuse.      *)
WatchdogFires ==
    /\ \/ Step("entered") /\ stop_entered = 0
       \/ Step("stopped") /\ stop_done = 0
       \/ Step("probed") /\ probe_done = 0
       \/ Step("gate") /\ gate_entered = 0
       \/ Step("terminal") /\ terminal_seen = 0
       \/ Step("idle") /\ Busy
    /\ Verify(FALSE)
    /\ excused' = (excused \/ ~Step("probed"))
    /\ UNCHANGED <<driverVars, cb, delivered, recordVars, stopVars, probeVars, runVars, expected,
                   asked, broken>>

ShellThread == \/ Purge \/ start_operation \/ Refused \/ Registers \/ StaysQuiet \/ Lists
               \/ Stop \/ StopEntered \/ Stopped \/ ProbeAsks \/ Probed
               \/ GateEntered \/ GateWindow \/ release_gate
               \/ TerminalSeen \/ Quiescent \/ Markers \/ WatchdogFires

(* What the driver's worker does without the help of anybody. *)
Worker == \/ Contract!ReportStopped /\ DriverReports
          \/ Contract!ReportError /\ DriverReports
          \/ GateReleased \/ CallbackMarks \/ CallbackReturns \/ Settles \/ BecomesIdle

LifecycleNext ==
    \/ cmd_run \/ ShellThread \/ Stopper \/ Prober
    \/ DriverReports \/ GateReleased \/ GateExpires \/ CallbackMarks \/ CallbackReturns
    \/ Settles \/ CleanupFails \/ Stores \/ SkipsStopped \/ BecomesIdle

LifecycleSpec == LifecycleInit /\ [][LifecycleNext]_lifecycleVars

(* Threads that are ready run: the stopper preempts the prober, and both the shell. *)
(* The gate's own watchdog and a cleanup that fails again need not come.            *)
LifecycleFairSpec == /\ LifecycleSpec
                     /\ WF_lifecycleVars(ShellThread) /\ WF_lifecycleVars(Stopper)
                     /\ WF_lifecycleVars(Prober) /\ WF_lifecycleVars(Worker)
-----------------------------------------------------------------------------
(***************************************************************************)
(* Properties.                                                             *)
(***************************************************************************)

(* A driver that breaks its contract in view of the tests does not pass: a stop that *)
(* returns or a call that succeeds while the callback is held, a trace the contract  *)
(* does not allow, a template left behind.  That the stop has really waited rests on *)
(* the priorities: the shell does not release the gate before the stopper is known   *)
(* to wait (2B:438, "the primary stop must be pending").                             *)
PassMeansKept == verdict = "PASS" => ~broken /\ ~added

(* A driver that keeps its contract fails only if the device, the line or the people *)
(* in view gave a reason; in particular the second stop never overtakes the first.   *)
NoFalseAlarm == flaw = "good" /\ verdict = "FAIL" => excused

(* Data without a lock of its own is touched by the shell only while no other thread *)
(* may use it: the trace "while previous callbacks are known to have finished"       *)
(* (2B:176), "stop_result/timestamps only after stop_done, never after a timeout"    *)
(* (2B:55), the probe's result likewise, and each is of the request made last.       *)
SharedDataOwned ==
    /\ at > 0 /\ script[at][1] \in {"purge", "start", "hold"} => cb = "none"
    /\ Step("stopped") /\ stop_done = 1 => st = "waits" /\ stop_for = asked.stop
    /\ Step("probed") /\ probe_done = 1 => pr = "waits" /\ probe_for = asked.probe

(* The shell always comes back, "even an incorrectly blocking API cannot trap" it     *)
(* (2B:334), and a callback that is held is let go by it, "even on a failed probe"    *)
(* (2B:475), without the help of the gate's watchdog.                                 *)
NobodyStaysHeld == /\ at > 0 ~> at = 0
                   /\ cb = "held" ~> cb # "held"
=============================================================================
