--------------------------- MODULE FootprintTests ---------------------------
(***************************************************************************)
(* Test 4 of the AI10 (ai10-test4/src/main.c) and of the GT5 and ZFM       *)
(* (gt5-test4/src/main.c): matches nobody comes for, and between them      *)
(* snapshots of the stacks, which an observer thread scans while the main  *)
(* thread waits.  A build is one of four variants and runs its script      *)
(* once; the device keeps BiometricEvents and answers a blocking match     *)
(* with anything.  Sizes of stacks are left out; error codes are 1.        *)
(***************************************************************************)
EXTENDS TestedDevice, Naturals, Sequences

CONSTANTS TRIALS,     \* matches of one kind in a profile (3)
          MaxEvents   \* bound: events of one continuous match

ASSUME FootprintAssumption ==
    /\ TRIALS \in Nat \ {0} /\ MaxEvents \in Nat
    /\ OnEvent # NoCallback

VARIABLES
    \* what the callback leaves
    terminal, event_count, no_match_count, stopped_count, terminal_status, event_error,
    callback_thread,
    \* the observer thread
    ot, snapshot_request, snapshot_done, snapshot_phase, snapshot_error,
    \* the main thread
    sensor, variant,
    main_pc, at,       \* its step, and how much of the script is done
    suite_verdict,
    \* history
    disturbed     \* the device did anything but report that nobody came

traceVars == <<terminal, event_count, no_match_count, stopped_count, terminal_status,
               event_error, callback_thread>>
snapshotVars == <<snapshot_request, snapshot_done, snapshot_phase, snapshot_error>>
mainVars == <<sensor, variant, main_pc, at, suite_verdict>>
footprintVars == <<contractVars, traceVars, ot, snapshotVars, mainVars, disturbed>>


Times(operation_, n) == [i \in 1 .. n |-> operation_]
AndSnapshot(kind) == Times(kind, TRIALS) \o <<"snapshot">>

AI10Profile == <<"snapshot">> \o AndSnapshot("sync_timeout") \o AndSnapshot("async_timeout")
               \o AndSnapshot("continuous_cancel")
GT5Profile == <<"snapshot">> \o AndSnapshot("sync_timeout")

(* What each build does. *)
Script == CASE variant = "idle" -> <<>>
            [] variant = "sync" -> <<"sync_timeout">>
            [] variant = "async" -> <<"async_timeout">>
            [] variant = "profile" -> IF sensor = "ai10" THEN AI10Profile ELSE GT5Profile

(* The step the script is at, and the name a snapshot there is taken under. *)
Current == IF at < Len(Script) THEN Script[at + 1] ELSE "end"
Label == IF at = 0 THEN "before_operations" ELSE Script[at]

FootprintInit == /\ Contract!Init
                 /\ terminal = 0 /\ event_count = 0 /\ no_match_count = 0 /\ stopped_count = 0
                 /\ terminal_status = "OK" /\ event_error = 0 /\ callback_thread = FALSE
                 /\ ot = "waits" /\ snapshot_request = 0 /\ snapshot_done = 0
                 /\ snapshot_phase = "none" /\ snapshot_error = 0
                 /\ sensor \in {"ai10", "gt5"}
                 /\ variant \in {"idle", "sync", "profile"}
                             \cup (IF sensor = "ai10" THEN {"async"} ELSE {})
                 /\ main_pc = "start" /\ at = 0 /\ suite_verdict = "none"
                 /\ disturbed = FALSE
-----------------------------------------------------------------------------
(***************************************************************************)
(* The device's worker, and the callback it calls.                         *)
(***************************************************************************)

(* on_event() *)
on_event ==
    LET e == event'
    IN  /\ callback_thread' = TRUE
        /\ event_count' = event_count + 1
        /\ no_match_count' = no_match_count + (IF e.type = "NO_MATCH" THEN 1 ELSE 0)
        /\ event_error' = IF \/ e.type = "STOPPED"
                             \/ e.type = "NO_MATCH" /\ stopped_count = 0 /\ e.status = "ETIMEDOUT"
                          THEN event_error ELSE 1
        /\ IF e.type = "STOPPED"
           THEN stopped_count' = stopped_count + 1 /\ terminal_status' = e.status /\ terminal' = 1
           ELSE UNCHANGED <<stopped_count, terminal_status, terminal>>

NobodyCame == Contract!Event("NO_MATCH", "ETIMEDOUT")

WorkerReports ==
    /\ event_count < MaxEvents \/ phase # "active"
    /\ Contract!Result \/ Contract!ReportError \/ Contract!ReportStopped
    /\ on_event
    /\ disturbed' = (disturbed \/ ~(\/ event' = NobodyCame
                                    \/ event'.type = "STOPPED" /\ Contract!Quiet))
    /\ UNCHANGED <<ot, snapshotVars, mainVars>>

WorkerGoesOn ==
    /\ \/ Contract!ResultReturn \/ Contract!Settle \/ Contract!CleanupFails
       \/ Contract!StoppedReturn \/ Contract!BecomeIdle
    /\ UNCHANGED <<traceVars, ot, snapshotVars, mainVars, disturbed>>

Device == WorkerReports \/ WorkerGoesOn
-----------------------------------------------------------------------------
(***************************************************************************)
(* observer(): one row for the main thread, one for the worker once a      *)
(* callback has told which thread that is.                                 *)
(***************************************************************************)

ObserverTakes ==
    /\ ot = "waits" /\ snapshot_request = 1
    /\ snapshot_request' = 0
    /\ ot' = "app_main"
    /\ UNCHANGED <<contractVars, traceVars, snapshot_done, snapshot_phase, snapshot_error,
                   mainVars, disturbed>>

(* stack_row() *)
StackRow ==
    /\ ot \in {"app_main", "ai10_worker"}
    /\ snapshot_error' \in {snapshot_error, 1}
    /\ ot' = IF ot = "app_main" /\ callback_thread THEN "ai10_worker" ELSE "signals"
    /\ UNCHANGED <<contractVars, traceVars, snapshot_request, snapshot_done, snapshot_phase,
                   mainVars, disturbed>>

ObserverGives ==
    /\ ot = "signals"
    /\ snapshot_done' = 1
    /\ ot' = "waits"
    /\ UNCHANGED <<contractVars, traceVars, snapshot_request, snapshot_phase, snapshot_error,
                   mainVars, disturbed>>

Observer == ObserverTakes \/ StackRow \/ ObserverGives
-----------------------------------------------------------------------------
(***************************************************************************)
(* main(): its return value, 0 or an error, is what every step has left.   *)
(***************************************************************************)

GoOn(step) == main_pc' = step /\ UNCHANGED <<sensor, variant, at, suite_verdict>>

EndSuite(v) == main_pc' = "end" /\ suite_verdict' = v /\ UNCHANGED <<sensor, variant, at>>

(* An error ends the suite; otherwise the next part of the script follows. *)
Done(ret) == IF ret # 0 THEN EndSuite("FAIL")
             ELSE at' = at + 1 /\ main_pc' = "next" /\ UNCHANGED <<sensor, variant, suite_verdict>>

(* The device is ready and of the kind that is tested, or the suite has failed. *)
SuiteBegins ==
    /\ main_pc = "start"
    /\ GoOn("next") \/ EndSuite("FAIL")
    /\ UNCHANGED <<contractVars, traceVars, ot, snapshotVars, disturbed>>

NextPart ==
    /\ main_pc = "next"
    /\ CASE Current = "end" -> EndSuite("PASS")
         [] Current = "snapshot" -> GoOn("snapshot")
         [] Current = "sync_timeout" -> GoOn("match")
         [] OTHER -> GoOn("idle")
    /\ UNCHANGED <<contractVars, traceVars, ot, snapshotVars, disturbed>>

(* sync_once() *)
SyncOnce ==
    /\ main_pc = "match"
    /\ \/ Done(0) /\ UNCHANGED disturbed
       \/ Done(1) /\ disturbed' = TRUE
    /\ UNCHANGED <<contractVars, traceVars, ot, snapshotVars>>

Snapshot ==
    /\ main_pc = "snapshot"
    /\ snapshot_phase' = Label
    /\ snapshot_error' = 0
    /\ snapshot_request' = 1
    /\ GoOn("snapshot_wait")
    /\ UNCHANGED <<contractVars, traceVars, ot, snapshot_done, disturbed>>

(* A snapshot that takes too long is as good as one without an error. *)
Bug_SnapshotDone ==
    /\ main_pc = "snapshot_wait"
    /\ \/ snapshot_done = 1 /\ snapshot_done' = 0 /\ Done(snapshot_error)
       \/ snapshot_done = 0 /\ UNCHANGED snapshot_done /\ Done(snapshot_error)
    /\ UNCHANGED <<contractVars, traceVars, ot, snapshot_request, snapshot_phase, snapshot_error,
                   disturbed>>

(* The rows are printed, or 3 s have passed. *)
SnapshotDone ==
    /\ main_pc = "snapshot_wait"
    /\ \/ snapshot_done = 1 /\ snapshot_done' = 0 /\ Done(snapshot_error)
       \/ snapshot_done = 0 /\ UNCHANGED snapshot_done /\ Done(1)
    /\ UNCHANGED <<contractVars, traceVars, ot, snapshot_request, snapshot_phase, snapshot_error,
                   disturbed>>

(* callback_idle(): -EBUSY until the last callback has returned, or for 2 s. *)
CallbackIdle ==
    /\ main_pc \in {"idle", "idle_again"}
    /\ \/ /\ Contract!SetCallback /\ callback' = OnEvent
          /\ GoOn(IF main_pc = "idle" THEN "clear" ELSE "judge")
       \/ phase # "idle" /\ Done(1) /\ UNCHANGED contractVars
    /\ UNCHANGED <<traceVars, ot, snapshotVars, disturbed>>

(* async_once() clears the trace before its request, which may be refused. *)
Clear ==
    /\ main_pc = "clear"
    /\ event_count' = 0 /\ no_match_count' = 0 /\ stopped_count' = 0
    /\ terminal_status' = "OK" /\ event_error' = 0 /\ terminal' = 0
    /\ GoOn("request")
    /\ UNCHANGED <<contractVars, callback_thread, ot, snapshotVars, disturbed>>

RequestMatch ==
    /\ main_pc = "request"
    /\ \/ /\ Contract!Accept /\ operation' = "IDENTIFY"
          /\ continuous' = (Current = "continuous_cancel")
          /\ GoOn(IF continuous' THEN "stop" ELSE "terminal")
       \/ Done(1) /\ UNCHANGED contractVars
    /\ UNCHANGED <<traceVars, ot, snapshotVars, disturbed>>

(* biometric_async_stop(), 300 ms later, fails when the request has ended by itself. *)
Stop ==
    /\ main_pc = "stop"
    /\ \/ phase # "idle" /\ Contract!RequestStop /\ GoOn("stopping")
       \/ phase = "idle" /\ Done(1) /\ UNCHANGED contractVars
    /\ UNCHANGED <<traceVars, ot, snapshotVars, disturbed>>

StopReturns ==
    /\ main_pc = "stopping" /\ phase = "idle"
    /\ GoOn("terminal")
    /\ UNCHANGED <<contractVars, traceVars, ot, snapshotVars, disturbed>>

(* The final event, or 12 s without it. *)
Terminal ==
    /\ main_pc = "terminal"
    /\ \/ terminal = 1 /\ terminal' = 0 /\ GoOn("idle_again")
       \/ terminal = 0 /\ Done(1) /\ UNCHANGED terminal
    /\ UNCHANGED <<contractVars, event_count, no_match_count, stopped_count, terminal_status,
                   event_error, callback_thread, ot, snapshotVars, disturbed>>

(* The events of the match are counted, their statuses are not looked at. *)
Bug_AsExpected ==
    /\ stopped_count = 1 /\ event_count = no_match_count + 1
    /\ IF Current = "continuous_cancel" THEN terminal_status = "ECANCELED"
       ELSE no_match_count = 1 /\ terminal_status = "OK"

AsExpected ==
    /\ event_error = 0
    /\ stopped_count = 1 /\ event_count = no_match_count + 1
    /\ IF Current = "continuous_cancel" THEN terminal_status = "ECANCELED"
       ELSE no_match_count = 1 /\ terminal_status = "OK"

Judge ==
    /\ main_pc = "judge"
    /\ Done(IF AsExpected THEN 0 ELSE 1)
    /\ UNCHANGED <<contractVars, traceVars, ot, snapshotVars, disturbed>>

Main == \/ SuiteBegins \/ NextPart \/ SyncOnce \/ Snapshot \/ SnapshotDone \/ CallbackIdle
        \/ Clear \/ RequestMatch \/ Stop \/ StopReturns \/ Terminal \/ Judge

FootprintNext == Device \/ Observer \/ Main

FootprintSpec == FootprintInit /\ [][FootprintNext]_footprintVars
-----------------------------------------------------------------------------
(***************************************************************************)
(* Properties.                                                             *)
(***************************************************************************)

(* "The observer scans main while main is blocked waiting for the snapshot. The AI10 *)
(* worker is idle after API completion/callback quiescence" (ai10-test4/src/         *)
(* main.c:95): a row is printed under the name of the operations that were done and  *)
(* while no request or callback runs, also when the snapshot came too late.          *)
ScannedAtRest ==
    ot \in {"app_main", "ai10_worker"} =>
        /\ phase = "idle" /\ event = Contract!NoEvent
        /\ main_pc = "snapshot_wait" \/ (main_pc = "end" /\ suite_verdict = "FAIL")
        /\ snapshot_phase = Label

(* A suite that passes measured what it says: in none of its matches did anybody come *)
(* or the device fail, for any timing of events, stop and timeouts.                   *)
PassMeansNobody == suite_verdict = "PASS" => ~disturbed
-----------------------------------------------------------------------------
(***************************************************************************)
(* The inductive invariant.                                                *)
(***************************************************************************)

(* A request is open only while the suite waits for its end, or after a failure. *)
RequestOpen ==
    /\ phase # "idle" => \/ main_pc \in {"stop", "stopping", "terminal", "idle_again"}
                         \/ suite_verdict = "FAIL"
    /\ phase = "idle" => event = Contract!NoEvent

(* The observer has one request at most, made under the label of the step, and works *)
(* while the suite waits for it; it may go on when the wait was given up.            *)
ObserverAsked ==
    /\ snapshot_request \in {0, 1} /\ snapshot_done \in {0, 1}
    /\ ot # "waits" => snapshot_request = 0
    /\ snapshot_done = 1 => ot = "waits" /\ snapshot_request = 0
    /\ ot # "waits" \/ snapshot_request = 1 =>
            /\ phase = "idle"
            /\ snapshot_phase = Label
    /\ ot # "waits" \/ snapshot_request = 1 \/ snapshot_done = 1 =>
            main_pc = "snapshot_wait" \/ suite_verdict = "FAIL"

(* What disturbs a match is on record in event_error until the match is judged; an  *)
(* ERROR has put it there before the STOPPED of the same failure comes.             *)
DisturbanceNoted ==
    \/ suite_verdict = "FAIL"
    \/ /\ disturbed => /\ main_pc \in {"stop", "stopping", "terminal", "idle_again", "judge"}
                       /\ event_error = 1
       /\ phase = "failed" => event_error = 1

FootprintIInv ==
    /\ suite_verdict \in {"none", "PASS", "FAIL"}
    /\ suite_verdict # "none" <=> main_pc = "end"
    /\ RequestOpen
    /\ ObserverAsked
    /\ DisturbanceNoted
=============================================================================
