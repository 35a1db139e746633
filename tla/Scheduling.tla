----------------------------- MODULE Scheduling -----------------------------
(***************************************************************************)
(* Test 3 of the AI10 (ai10-test3/src/main.c) and of the GT5               *)
(* (gt5-test3/src/main.c): a timer releases JOBS jobs to a victim thread   *)
(* while a load thread and a biometric thread work; a cell is one window   *)
(* of such releases, and its records are printed when it has ended well.   *)
(*                                                                         *)
(* Threads run in any order: nothing here rests on their priorities, which *)
(* are what the test varies.  One action is what a thread does from one    *)
(* wait to the next.  The device answers a blocking match with anything    *)
(* and keeps BiometricEvents for the others.  Error codes are 1, 0 is no   *)
(* error; clocks, calibration and printed figures are left out.            *)
(***************************************************************************)
EXTENDS TestedDevice, Naturals, Sequences

CONSTANTS JOBS,       \* releases of a window
          TICK_LIMIT, \* the limit of the semaphore load_tick
          Modes,      \* the modes of each test: "ai10" and "gt5" to a sequence of modes
          Groups,     \* pairs of priority and load a command goes through
          MaxOps,     \* bound: matches of one cell
          MaxRuns     \* bound: commands given, with run numbers up to this

ASSUME SchedulingAssumption ==
    /\ JOBS \in Nat \ {0} /\ TICK_LIMIT \in Nat \ {0}
    /\ Groups \in Nat \ {0} /\ MaxOps \in Nat /\ MaxRuns \in Nat
    /\ OnEvent # NoCallback

VARIABLES
    \* what the callback leaves
    terminal, event_count, stopped_count, outcome_count,
    \* the release timer and the victim
    release_timer, timer_count, releases, dropped,
    vt, job, samples, processed_jobs, jobs_done,
    \* the load timer and the load thread
    load_timer, load_tick, lt, load_request, load_done, load_running,
    \* the biometric thread
    bt, bio_request, bio_entered, bio_done, bio_running, bio_ret, bio_error,
    bio_started, bio_completed, bio_in_window,
    \* the shell thread
    suite, pc, run, cell, measuring, ret, halted,
    \* history
    published,  \* the records this command printed last
    passed,     \* the last cell ended well
    disturbed   \* in this cell the device reported anything but that nobody came

traceVars == <<terminal, event_count, stopped_count, outcome_count>>
victimVars == <<release_timer, timer_count, releases, dropped, vt, job, samples,
                processed_jobs, jobs_done>>
loadVars == <<load_timer, load_tick, lt, load_request, load_done, load_running>>
bioVars == <<bt, bio_request, bio_entered, bio_done, bio_running, bio_ret, bio_started,
             bio_completed, bio_in_window>>
shellVars == <<suite, pc, run, cell, measuring, ret, halted>>
historyVars == <<published, passed>>
vars == <<contractVars, traceVars, victimVars, loadVars, bioVars, bio_error, shellVars,
          historyVars, disturbed>>


(* A release carries the number of its job, and run and cell for its cycle count. *)
Window == <<run, cell>>
NoRecords == [i \in 0 .. JOBS - 1 |-> <<0, 0>>]
NoJob == [seq |-> 0, window |-> <<0, 0>>]

(* The condition of a cell: cells come in groups of one cell per mode. *)
Mode(c) ==
    LET group == (c - 1) \div Len(Modes[suite])
        m == (c - 1) % Len(Modes[suite])
    IN  Modes[suite][((m + run - 1 + group) % Len(Modes[suite])) + 1]

current_mode == Mode(cell)

load == ((cell - 1) \div Len(Modes[suite])) % 2 = 1

LastCell == cell = Groups * Len(Modes[suite])

Init == /\ Contract!Init
        /\ terminal = 0 /\ event_count = 0 /\ stopped_count = 0 /\ outcome_count = 0
        /\ release_timer = "off" /\ timer_count = 0 /\ releases = <<>> /\ dropped = 0
        /\ vt = "waits" /\ job = NoJob /\ samples = NoRecords
        /\ processed_jobs = 0 /\ jobs_done = 0
        /\ load_timer = "off" /\ load_tick = 0 /\ lt = "waits" /\ load_request = 0
        /\ load_done = 0 /\ load_running = 0
        /\ bt = "waits" /\ bio_request = 0 /\ bio_entered = 0 /\ bio_done = 0
        /\ bio_running = 0 /\ bio_ret = 0 /\ bio_error = 0
        /\ bio_started = 0 /\ bio_completed = 0 /\ bio_in_window = 0
        /\ suite \in DOMAIN Modes /\ pc = "shell" /\ run = 0 /\ cell = 0
        /\ measuring = 0 /\ ret = 0 /\ halted = FALSE
        /\ published = NoRecords /\ passed = FALSE /\ disturbed = FALSE
-----------------------------------------------------------------------------
(***************************************************************************)
(* The timers and the threads they feed.                                   *)
(***************************************************************************)

(* release_expiry() stops its timer with the last job. *)
ReleaseExpiry ==
    /\ release_timer = "on"
    /\ timer_count' = timer_count + 1
    /\ IF timer_count >= JOBS THEN UNCHANGED <<releases, dropped>>
       ELSE IF Len(releases) < JOBS
            THEN /\ releases' = Append(releases, [seq |-> timer_count, window |-> Window])
                 /\ UNCHANGED dropped
            ELSE dropped' = dropped + 1 /\ UNCHANGED releases
    /\ release_timer' = IF timer_count + 1 >= JOBS THEN "off" ELSE "on"
    /\ UNCHANGED <<contractVars, traceVars, vt, job, samples, processed_jobs, jobs_done,
                   loadVars, bioVars, bio_error, shellVars, historyVars, disturbed>>

LoadExpiry ==
    /\ load_timer = "on" /\ load_tick < TICK_LIMIT
    /\ load_tick' = load_tick + 1
    /\ UNCHANGED <<contractVars, traceVars, victimVars, load_timer, lt, load_request, load_done,
                   load_running, bioVars, bio_error, shellVars, historyVars, disturbed>>

VictimTakes ==
    /\ vt = "waits" /\ releases # <<>>
    /\ job' = Head(releases) /\ releases' = Tail(releases)
    /\ vt' = "works"
    /\ UNCHANGED <<contractVars, traceVars, release_timer, timer_count, dropped, samples,
                   processed_jobs, jobs_done, loadVars, bioVars, bio_error, shellVars,
                   historyVars, disturbed>>

(* The record, the count of the jobs, and after the last one the shell's signal. *)
VictimFinishes ==
    /\ vt = "works"
    /\ samples' = [samples EXCEPT ![job.seq] = job.window]
    /\ processed_jobs' = processed_jobs + 1
    /\ jobs_done' = IF job.seq + 1 = JOBS THEN 1 ELSE jobs_done
    /\ vt' = "waits"
    /\ UNCHANGED <<contractVars, traceVars, release_timer, timer_count, releases, dropped, job,
                   loadVars, bioVars, bio_error, shellVars, historyVars, disturbed>>

LoadBegins ==
    /\ lt = "waits" /\ load_request = 1
    /\ load_request' = 0
    /\ lt' = "ticks"
    /\ UNCHANGED <<contractVars, traceVars, victimVars, load_timer, load_tick, load_done,
                   load_running, bioVars, bio_error, shellVars, historyVars, disturbed>>

LoadTakes ==
    /\ lt = "ticks" /\ load_tick > 0
    /\ load_tick' = load_tick - 1
    /\ lt' = "looks"
    /\ UNCHANGED <<contractVars, traceVars, victimVars, load_timer, load_request, load_done,
                   load_running, bioVars, bio_error, shellVars, historyVars, disturbed>>

(* Works for one period, or is done. *)
LoadLooks ==
    /\ lt = "looks"
    /\ IF load_running = 1 THEN lt' = "ticks" /\ UNCHANGED load_done
       ELSE lt' = "waits" /\ load_done' = 1
    /\ UNCHANGED <<contractVars, traceVars, victimVars, load_timer, load_tick, load_request,
                   load_running, bioVars, bio_error, shellVars, historyVars, disturbed>>

Helpers == VictimTakes \/ VictimFinishes \/ LoadBegins \/ LoadTakes \/ LoadLooks
-----------------------------------------------------------------------------
(***************************************************************************)
(* The device's worker, and the callback it calls.                         *)
(***************************************************************************)

(* The status of an outcome is not looked at. *)
Bug_AsExpected(e, index) ==
    \/ e.type = "NO_MATCH" /\ index = 0
    \/ e.type = "STOPPED" /\ index = 1 /\ e.status = "OK"

(* A timed out attempt is NO_MATCH first and then STOPPED without an error. *)
AsExpected(e, index) ==
    \/ e.type = "NO_MATCH" /\ index = 0 /\ e.status = "ETIMEDOUT"
    \/ e.type = "STOPPED" /\ index = 1 /\ e.status = "OK"

(* callback() *)
CallbackCalled ==
    /\ event_count' = event_count + 1
    /\ outcome_count' = outcome_count + (IF event'.type = "NO_MATCH" THEN 1 ELSE 0)
    /\ stopped_count' = stopped_count + (IF event'.type = "STOPPED" THEN 1 ELSE 0)
    /\ terminal' = IF event'.type = "STOPPED" THEN 1 ELSE terminal
    /\ bio_error' = IF AsExpected(event', event_count) THEN bio_error ELSE 1

Reports ==
    /\ \/ Contract!Result /\ event'.status \in {"OK", "ETIMEDOUT", "EACCES"}
       \/ Contract!ReportError
       \/ Contract!ReportStopped
    /\ CallbackCalled
    /\ disturbed' = (disturbed \/ event'.type \in {"MATCH", "ERROR"}
                               \/ event'.status \notin {"OK", "ETIMEDOUT"})
    /\ UNCHANGED <<victimVars, loadVars, bioVars, shellVars, historyVars>>

GoesOn ==
    /\ \/ Contract!ResultReturn \/ Contract!StoppedReturn \/ Contract!BecomeIdle
       \/ (Contract!Settle \/ Contract!CleanupFails) /\ outcome' = "EIO" /\ outcome = "OK"
    /\ UNCHANGED <<traceVars, victimVars, loadVars, bioVars, bio_error, shellVars, historyVars,
                   disturbed>>

Device == Reports \/ GoesOn
-----------------------------------------------------------------------------
(***************************************************************************)
(* bio_thread()                                                            *)
(***************************************************************************)

BioBegins ==
    /\ bt = "waits" /\ bio_request = 1
    /\ bio_request' = 0
    /\ bt' = "first"
    /\ UNCHANGED <<contractVars, traceVars, victimVars, loadVars, bio_entered, bio_done,
                   bio_running, bio_ret, bio_error, bio_started, bio_completed, bio_in_window,
                   shellVars, historyVars, disturbed>>

(* The next match, while the shell wants it; the first one is announced. *)
BioStarts ==
    /\ bt \in {"first", "again"} /\ bio_running = 1
    /\ bio_started < MaxOps
    /\ bio_started' = bio_started + 1
    /\ bio_entered' = IF bt = "first" THEN 1 ELSE bio_entered
    /\ bt' = IF current_mode = "sync" THEN "match" ELSE "clear"
    /\ UNCHANGED <<contractVars, traceVars, victimVars, loadVars, bio_request, bio_done,
                   bio_running, bio_ret, bio_error, bio_completed, bio_in_window, shellVars,
                   historyVars, disturbed>>

BioStops ==
    /\ bt \in {"first", "again"} /\ bio_running = 0
    /\ bio_done' = 1
    /\ bt' = "waits"
    /\ UNCHANGED <<contractVars, traceVars, victimVars, loadVars, bio_request, bio_entered,
                   bio_running, bio_ret, bio_error, bio_started, bio_completed, bio_in_window,
                   shellVars, historyVars, disturbed>>

(* What the operation came to. *)
BioEnds(r) == bt' = "ended" /\ bio_ret' = r

bioCounters == <<bio_request, bio_entered, bio_done, bio_running, bio_started, bio_completed,
                 bio_in_window>>

(* biometric_match() must time out; a match or another error is a failure. *)
BioMatch ==
    /\ bt = "match"
    /\ \/ BioEnds(0) /\ UNCHANGED disturbed
       \/ BioEnds(1) /\ disturbed' = TRUE
    /\ UNCHANGED <<contractVars, traceVars, victimVars, loadVars, bioCounters, bio_error,
                   shellVars, historyVars>>

BioClears ==
    /\ bt = "clear"
    /\ event_count' = 0 /\ stopped_count' = 0 /\ outcome_count' = 0
    /\ terminal' = 0
    /\ bt' = "request"
    /\ UNCHANGED <<contractVars, victimVars, loadVars, bioCounters, bio_ret, bio_error,
                   shellVars, historyVars, disturbed>>

BioRequests ==
    /\ bt = "request"
    /\ \/ /\ Contract!Accept /\ operation' = "IDENTIFY" /\ continuous' = FALSE
          /\ bt' = "terminal"
          /\ UNCHANGED <<bio_ret, disturbed>>
       \/ BioEnds(1) /\ disturbed' = TRUE /\ UNCHANGED contractVars
    /\ UNCHANGED <<traceVars, victimVars, loadVars, bioCounters, bio_error, shellVars,
                   historyVars>>

(* The final event, or 12 s without it. *)
BioTerminal ==
    /\ bt = "terminal"
    /\ \/ terminal = 1 /\ terminal' = 0 /\ bt' = "idle" /\ UNCHANGED bio_ret
       \/ terminal = 0 /\ BioEnds(1) /\ UNCHANGED terminal
    /\ UNCHANGED <<contractVars, event_count, stopped_count, outcome_count, victimVars, loadVars,
                   bioCounters, bio_error, shellVars, historyVars, disturbed>>

(* callback_idle(): -EBUSY until the final callback has returned, or for 2 s. *)
BioIdle ==
    /\ bt = "idle"
    /\ \/ /\ Contract!SetCallback /\ callback' = OnEvent
          /\ BioEnds(IF <<event_count, stopped_count, outcome_count>> = <<2, 1, 1>> THEN 0
                     ELSE 1)
       \/ phase # "idle" /\ BioEnds(1) /\ UNCHANGED contractVars
    /\ UNCHANGED <<traceVars, victimVars, loadVars, bioCounters, bio_error, shellVars,
                   historyVars, disturbed>>

(* An error, of this match or from a callback, ends the thread's part of the cell. *)
BioEnded ==
    /\ bt = "ended"
    /\ bio_error' = IF bio_ret = 0 THEN bio_error ELSE bio_ret
    /\ IF bio_error' = 0
       THEN /\ bio_completed' = bio_completed + 1
            /\ bio_in_window' = bio_in_window + measuring
            /\ bt' = "again"
            /\ UNCHANGED bio_done
       ELSE /\ bio_done' = 1
            /\ bt' = "waits"
            /\ UNCHANGED <<bio_completed, bio_in_window>>
    /\ UNCHANGED <<contractVars, traceVars, victimVars, loadVars, bio_request, bio_entered,
                   bio_running, bio_ret, bio_started, shellVars, historyVars, disturbed>>

Bio == \/ BioBegins \/ BioStarts \/ BioStops \/ BioMatch
       \/ BioClears \/ BioRequests \/ BioTerminal \/ BioIdle \/ BioEnded
-----------------------------------------------------------------------------
(***************************************************************************)
(* The shell: cmd_run() and do_cell().                                     *)
(***************************************************************************)

Goto(step) == pc' = step /\ UNCHANGED <<suite, run, cell, ret, halted>>

(* The suite is halted for good. *)
Fail ==
    /\ halted' = TRUE /\ pc' = "shell"
    /\ measuring' = 0 /\ bio_running' = 0 /\ load_running' = 0
    /\ release_timer' = "off" /\ load_timer' = "off"
    /\ passed' = FALSE
    /\ UNCHANGED <<suite, run, cell, ret>>

failVars == <<measuring, bio_running, load_running, release_timer, load_timer, passed>>
otherVictimVars == <<timer_count, releases, dropped, vt, job, samples, processed_jobs, jobs_done>>
otherLoadVars == <<load_tick, lt, load_request, load_done>>
otherBioVars == <<bt, bio_request, bio_entered, bio_done, bio_ret, bio_started, bio_completed,
                  bio_in_window>>

(* The set-up needs an idle device whose callback can be set. *)
Begin ==
    /\ pc = "shell" /\ ~halted
    /\ run < MaxRuns
    /\ run' \in run + 1 .. MaxRuns
    /\ cell' = 0
    /\ IF suite = "ai10" THEN Contract!SetCallback /\ callback' = OnEvent
       ELSE UNCHANGED contractVars
    /\ pc' = "clear"
    /\ published' = NoRecords
    /\ UNCHANGED <<traceVars, victimVars, loadVars, bioVars, bio_error, suite, measuring, ret,
                   halted, passed, disturbed>>

CellClears ==
    /\ pc = "clear"
    /\ timer_count' = 0 /\ dropped' = 0 /\ processed_jobs' = 0 /\ jobs_done' = 0
    /\ load_tick' = 0 /\ load_done' = 0
    /\ bio_error' = 0 /\ bio_done' = 0 /\ bio_entered' = 0
    /\ bio_started' = 0 /\ bio_completed' = 0 /\ bio_in_window' = 0
    /\ cell' = cell + 1
    /\ IF Mode(cell + 1) # "idle" THEN bio_running' = 1 /\ bio_request' = 1 /\ pc' = "enter"
       ELSE pc' = "open" /\ UNCHANGED <<bio_running, bio_request>>
    /\ published' = NoRecords /\ passed' = FALSE /\ disturbed' = FALSE
    /\ UNCHANGED <<contractVars, traceVars, release_timer, releases, vt, job, samples, load_timer,
                   lt, load_request, load_running, bt, bio_ret, suite, run, measuring, ret, halted>>

(* A semaphore that is taken, or not given in time. *)
BioEntered ==
    /\ pc = "enter"
    /\ \/ bio_entered = 1 /\ bio_entered' = 0 /\ Goto("open") /\ UNCHANGED failVars
       \/ bio_entered = 0 /\ Fail /\ UNCHANGED bio_entered
    /\ UNCHANGED <<contractVars, traceVars, otherVictimVars, otherLoadVars, bt, bio_request,
                   bio_done, bio_ret, bio_error, bio_started, bio_completed, bio_in_window,
                   published, disturbed>>

WindowOpens ==
    /\ pc = "open"
    /\ IF load THEN load_running' = 1 /\ load_request' = 1 /\ load_timer' = "on"
       ELSE UNCHANGED <<load_running, load_request, load_timer>>
    /\ measuring' = 1
    /\ release_timer' = "on"
    /\ Goto("jobs")
    /\ UNCHANGED <<contractVars, traceVars, otherVictimVars, load_tick, lt, load_done, bioVars,
                   bio_error, historyVars, disturbed>>

(* 8 s for all jobs: ret remembers that they took longer. *)
JobsDone ==
    /\ pc = "jobs"
    /\ \/ jobs_done = 1 /\ jobs_done' = 0 /\ ret' = 0
       \/ jobs_done = 0 /\ ret' = 1 /\ UNCHANGED jobs_done
    /\ pc' = "close"
    /\ UNCHANGED <<contractVars, traceVars, release_timer, timer_count, releases, dropped, vt,
                   job, samples, processed_jobs, loadVars, bioVars, bio_error, suite, run, cell,
                   measuring, halted, historyVars, disturbed>>

(* The load thread is not woken once more to see that it is over. *)
Bug_WakeLoad == UNCHANGED load_tick

WakeLoad == load_tick' = IF load /\ load_tick < TICK_LIMIT THEN load_tick + 1 ELSE load_tick

WindowCloses ==
    /\ pc = "close"
    /\ measuring' = 0 /\ release_timer' = "off" /\ load_timer' = "off"
    /\ load_running' = 0 /\ bio_running' = 0
    /\ WakeLoad
    /\ Goto(IF load THEN "drain_load" ELSE "drain_bio")
    /\ UNCHANGED <<contractVars, traceVars, otherVictimVars, lt, load_request, load_done,
                   otherBioVars, bio_error, historyVars, disturbed>>

DrainLoad ==
    /\ pc = "drain_load"
    /\ \/ load_done = 1 /\ load_done' = 0 /\ Goto("drain_bio") /\ UNCHANGED failVars
       \/ load_done = 0 /\ Fail /\ UNCHANGED load_done
    /\ UNCHANGED <<contractVars, traceVars, otherVictimVars, load_tick, lt, load_request,
                   otherBioVars, bio_error, published, disturbed>>

(* The biometric thread is not waited for. *)
Bug_DrainBio ==
    /\ pc = "drain_bio"
    /\ Goto("judge")
    /\ UNCHANGED <<contractVars, traceVars, failVars, otherVictimVars, otherLoadVars,
                   otherBioVars, bio_error, published, disturbed>>

DrainBio ==
    /\ pc = "drain_bio"
    /\ \/ current_mode = "idle" /\ Goto("judge") /\ UNCHANGED <<bio_done, failVars>>
       \/ current_mode # "idle" /\ bio_done = 1 /\ bio_done' = 0 /\ Goto("judge")
          /\ UNCHANGED failVars
       \/ current_mode # "idle" /\ bio_done = 0 /\ Fail /\ UNCHANGED bio_done
    /\ UNCHANGED <<contractVars, traceVars, otherVictimVars, otherLoadVars, bt, bio_request,
                   bio_entered, bio_ret, bio_error, bio_started, bio_completed, bio_in_window,
                   published, disturbed>>

(* Only drops are looked at. *)
Bug_Complete == dropped = 0

(* Every job of this window was released and done. *)
Complete == ret = 0 /\ timer_count = JOBS /\ processed_jobs = JOBS /\ dropped = 0

Undisturbed == /\ bio_error = 0
               /\ \/ current_mode = "idle"
                  \/ bio_started = bio_completed /\ bio_in_window > 0

Judge ==
    /\ pc = "judge"
    /\ published' = IF Complete THEN samples ELSE published
    /\ IF Complete /\ Undisturbed
       THEN /\ passed' = TRUE
            /\ pc' = IF LastCell THEN "shell" ELSE "clear"
            /\ UNCHANGED <<suite, run, cell, ret, halted, measuring, bio_running, load_running,
                           release_timer, load_timer>>
       ELSE Fail
    /\ UNCHANGED <<contractVars, traceVars, otherVictimVars, otherLoadVars, otherBioVars,
                   bio_error, disturbed>>

Shell == \/ CellClears \/ BioEntered \/ WindowOpens \/ JobsDone \/ WindowCloses
         \/ DrainLoad \/ DrainBio \/ Judge

Next == Begin \/ Shell \/ Helpers \/ Bio \/ Device \/ ReleaseExpiry \/ LoadExpiry

Spec == Init /\ [][Next]_vars

(* The offered load is half of the CPU, so that every thread gets its turn, and the  *)
(* device ends what it has accepted.                                                 *)
FairSpec == /\ Spec
            /\ WF_vars(Helpers) /\ WF_vars(Bio) /\ WF_vars(Device)
-----------------------------------------------------------------------------
(***************************************************************************)
(* Properties.                                                             *)
(***************************************************************************)

Parked == lt = "waits" /\ load_request = 0 /\ bt = "waits" /\ bio_request = 0

(* "Drain workers before touching their data or starting another condition"          *)
(* (main.c:296): the counters of the other threads are judged, and a cell is set up, *)
(* only while these wait for a request; and nothing of the cell before is left over  *)
(* in the timers, the queue, which is never purged (main.c:267), or the device.      *)
WorkersDrained ==
    /\ pc = "judge" => Parked
    /\ pc = "clear" => /\ Parked /\ phase = "idle"
                       /\ vt = "waits" /\ releases = <<>>
                       /\ release_timer = "off" /\ load_timer = "off"

(* What a cell reports is true of it.  "Do not publish stale/partial sample slots as *)
(* a complete new window" (main.c:313): each record that is printed is of a job       *)
(* released in this cell.  "A presented sample changes the workload: retain and       *)
(* reject that cell" (main.c:184), whichever thread learnt of it, and likewise any    *)
(* failed match.                                                                      *)
ReportIsTrue ==
    /\ published # NoRecords => \A i \in DOMAIN published : published[i] = Window
    /\ passed => ~disturbed

(* After a command, also one that failed in the middle of a window, no thread of the *)
(* test goes on working or waits for a signal nobody will give.                      *)
HelpersReturn == pc = "shell" /\ halted ~> Parked /\ vt = "waits" /\ phase = "idle"
-----------------------------------------------------------------------------
(***************************************************************************)
(* The inductive invariant.  A command that failed has halted the suite,   *)
(* and then nothing is said of the threads.                                *)
(***************************************************************************)

InCell == pc \notin {"shell", "clear"}

(* Between cells nothing of the last one is left over. *)
BetweenCells == ~halted /\ ~InCell => /\ Parked /\ phase = "idle"
                                      /\ vt = "waits" /\ releases = <<>>

(* Every release of the cell is done, in work or queued, in this order.  None is ever *)
(* dropped: no more are made than the queue has room for.                             *)
InWork == IF vt = "works" THEN 1 ELSE 0

ReleasesCounted ==
    /\ vt \in {"waits", "works"}
    /\ DOMAIN samples = 0 .. JOBS - 1
    /\ ~halted /\ pc \notin {"jobs", "close"} => release_timer = "off" /\ load_timer = "off"
    /\ pc \in {"enter", "open"} => timer_count = 0
    /\ InCell => /\ timer_count \in 0 .. JOBS /\ processed_jobs \in Nat /\ dropped = 0
                 /\ release_timer = "on" => timer_count < JOBS
                 /\ processed_jobs + InWork + Len(releases) = timer_count
                 /\ releases \in Seq([seq : Nat, window : {Window}])
                 /\ \A k \in DOMAIN releases : releases[k].seq = processed_jobs + InWork + k - 1
                 /\ vt = "works" => job = [seq |-> processed_jobs, window |-> Window]
                 /\ \A j \in DOMAIN samples : j < processed_jobs => samples[j] = Window

(* A signal is given by a thread that is back, and only a thread that was asked works. *)
LoadFollows ==
    /\ lt = "waits" \/ load_request = 0
    /\ load /\ pc \in {"jobs", "close"} => load_running = 1 /\ load_done = 0
    /\ load /\ pc = "drain_load" /\ load_done = 1 => lt = "waits" /\ load_request = 0
    /\ InCell /\ (~load \/ pc \in {"enter", "open", "drain_bio", "judge"})
         => lt = "waits" /\ load_request = 0
    /\ pc \in {"enter", "open"} => load_done = 0

BioFollows ==
    /\ bt = "waits" \/ bio_request = 0
    /\ InCell /\ (current_mode = "idle" \/ pc = "judge" \/ bio_done = 1)
         => bt = "waits" /\ bio_request = 0

(* A request that is not over is that of the thread's match, unless this went wrong;  *)
(* and whatever goes wrong is in bio_error, or is going to be.                        *)
Failing == bio_error # 0 \/ (bt = "ended" /\ bio_ret # 0)

FailuresKept ==
    InCell => /\ phase # "idle" => bt \in {"terminal", "idle"} \/ Failing
              /\ disturbed => Failing

PassedIsOver == /\ passed => ~halted /\ ~InCell
                /\ halted => pc = "shell"
                /\ InCell => published = NoRecords

IInv == BetweenCells /\ ReleasesCounted /\ LoadFollows /\ BioFollows /\ FailuresKept
        /\ PassedIsOver /\ ReportIsTrue
=============================================================================
