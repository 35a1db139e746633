-------------------------- MODULE SchedulingProofs --------------------------
(***************************************************************************)
(* Theorems about Scheduling, for any number of jobs, cells, matches and   *)
(* commands and any limit of the load's semaphore; then about              *)
(* LifecycleTests, the tests whose device meets the same contract, for any *)
(* queue, number of events, commands and flaws of the driver.              *)
(***************************************************************************)
EXTENDS Scheduling, LifecycleTests, SequenceTheorems, FiniteSetTheorems, TLAPS

(* What depends on the cell alone. *)
LEMMA SameCell ==
    ASSUME UNCHANGED <<suite, run, cell>>
    PROVE  load' = load /\ current_mode' = current_mode /\ Window' = Window
  BY DEF load, current_mode, Mode, Window

(* What does not touch queue, jobs, timers and the shell keeps the count of the jobs. *)
LEMMA SameReleases ==
    ASSUME ReleasesCounted, UNCHANGED <<victimVars, load_timer, shellVars>>
    PROVE  ReleasesCounted'
  BY SameCell DEF ReleasesCounted, victimVars, shellVars, InCell, InWork

LEMMA SameLoad ==
    ASSUME LoadFollows, UNCHANGED <<lt, load_request, load_running, load_done, shellVars>>
    PROVE  LoadFollows'
  BY SameCell DEF LoadFollows, shellVars, InCell

LEMMA SameBio ==
    ASSUME BioFollows, UNCHANGED <<bt, bio_request, bio_done, shellVars>>
    PROVE  BioFollows'
  BY SameCell DEF BioFollows, shellVars, InCell

LEMMA SameReport ==
    ASSUME PassedIsOver, ReportIsTrue, UNCHANGED <<shellVars, historyVars>>,
           disturbed' => disturbed \/ InCell
    PROVE  PassedIsOver' /\ ReportIsTrue'
  BY SameCell DEF PassedIsOver, ReportIsTrue, shellVars, historyVars, InCell
-----------------------------------------------------------------------------
(* The device works only while a request is open, thus within a cell or after a     *)
(* failure.                                                                          *)
LEMMA DeviceStep ==
    ASSUME Device
    PROVE  /\ phase # "idle"
           /\ UNCHANGED <<victimVars, loadVars, bioVars, shellVars, historyVars>>
           /\ bio_error' = bio_error \/ bio_error' = 1
           /\ disturbed' => disturbed \/ bio_error' = 1
<1>1. CASE Reports
  <2>1. phase # "idle"
    BY <1>1 DEF Reports, Contract!Result, Contract!ReportError, Contract!ReportStopped
  <2>2. disturbed' => disturbed \/ bio_error' = 1
    BY <1>1 DEF Reports, CallbackCalled, AsExpected
  <2> QED BY <1>1, <2>1, <2>2 DEF Reports, CallbackCalled
<1>2. CASE GoesOn
  BY <1>2 DEF GoesOn, Contract!ResultReturn, Contract!Settle, Contract!CleanupFails,
              Contract!StoppedReturn, Contract!BecomeIdle
<1> QED BY <1>1, <1>2 DEF Device

LEMMA DeviceInv == ASSUME IInv, Device PROVE IInv'
<1> USE DEF IInv
<1>1. /\ phase # "idle"
      /\ UNCHANGED <<victimVars, loadVars, bioVars, shellVars, historyVars>>
      /\ bio_error' = bio_error \/ bio_error' = 1
      /\ disturbed' => disturbed \/ bio_error' = 1
  BY DeviceStep
<1>2. UNCHANGED <<bt, bio_request, bio_ret, bio_done, pc, halted>>
  BY <1>1 DEF bioVars, shellVars
<1>3. BetweenCells'
  BY <1>1, <1>2 DEF BetweenCells, InCell
<1>4. ReleasesCounted' /\ LoadFollows' /\ BioFollows'
  BY <1>1, <1>2, SameReleases, SameLoad, SameBio DEF loadVars, bioVars
<1>5. FailuresKept'
  BY <1>1, <1>2 DEF FailuresKept, Failing, InCell
<1>6. PassedIsOver' /\ ReportIsTrue'
  <2>1. CASE halted
    BY <1>1, <2>1, SameCell DEF PassedIsOver, ReportIsTrue, InCell, shellVars, historyVars
  <2>2. CASE ~halted
    BY <1>1, <2>2, SameReport DEF BetweenCells
  <2> QED BY <2>1, <2>2
<1> QED BY <1>3, <1>4, <1>5, <1>6
-----------------------------------------------------------------------------
(* The timers. *)
LEMMA ReleaseExpiryInv == ASSUME IInv, ReleaseExpiry PROVE IInv'
<1> USE DEF IInv
<1>1. /\ release_timer = "on" /\ timer_count' = timer_count + 1
      /\ UNCHANGED <<contractVars, vt, job, samples, processed_jobs, loadVars, bioVars, bio_error,
                     shellVars, historyVars, disturbed>>
  BY DEF ReleaseExpiry
<1>2. UNCHANGED <<phase, bt, bio_request, bio_ret, bio_done, lt, load_request, load_timer, suite,
                  run, cell, pc, halted>>
  BY <1>1 DEF contractVars, bioVars, loadVars, shellVars
<1>3. halted \/ pc \in {"jobs", "close"}
  BY <1>1 DEF ReleasesCounted
<1>4. BetweenCells' /\ FailuresKept'
  BY <1>1, <1>2, <1>3 DEF BetweenCells, FailuresKept, Failing, InCell
<1>5. ReleasesCounted'
  <2>1. CASE halted
    BY <1>1, <1>2, <2>1 DEF ReleasesCounted, PassedIsOver, InCell
  <2>2. CASE ~halted
    <3> DEFINE Jobs == [seq : Nat, window : {Window}]
               new == [seq |-> timer_count, window |-> Window]
    <3>1. /\ InCell /\ InCell' /\ timer_count \in 0 .. JOBS /\ timer_count < JOBS
          /\ processed_jobs \in Nat /\ InWork \in {0, 1} /\ InWork' = InWork
          /\ processed_jobs + InWork + Len(releases) = timer_count
          /\ releases \in Seq(Jobs) /\ Len(releases) \in Nat
          /\ DOMAIN releases = 1 .. Len(releases)
          /\ dropped = 0 /\ Window' = Window
      BY <1>1, <1>2, <1>3, <2>2, SameCell, LenProperties DEF ReleasesCounted, InCell, InWork
    <3>2. new \in Jobs
      BY <3>1, SchedulingAssumption
    <3>3. /\ Len(releases) < JOBS
          /\ releases' = Append(releases, new) /\ dropped' = 0
      BY <1>1, <2>2, <3>1, SchedulingAssumption DEF ReleaseExpiry
    <3> HIDE DEF new
    <3>4. /\ releases' \in Seq(Jobs) /\ Len(releases') = Len(releases) + 1
          /\ releases'[Len(releases) + 1] = new
          /\ \A k \in 1 .. Len(releases) : releases'[k] = releases[k]
          /\ DOMAIN releases' = 1 .. Len(releases) + 1
      BY <3>1, <3>2, <3>3, AppendProperties, LenProperties
    <3>5. \A k \in DOMAIN releases' : releases'[k].seq = processed_jobs + InWork + k - 1
      <4>1. new.seq = processed_jobs + InWork + Len(releases)
        BY <3>1 DEF new
      <4>2. \A k \in 1 .. Len(releases) : releases'[k].seq = processed_jobs + InWork + k - 1
        BY <3>1, <3>4 DEF ReleasesCounted
      <4>3. releases'[Len(releases) + 1].seq = processed_jobs + InWork + (Len(releases) + 1) - 1
        BY <3>1, <3>4, <4>1
      <4>4. \A k \in DOMAIN releases' : k \in 1 .. Len(releases) \/ k = Len(releases) + 1
        BY <3>1, <3>4
      <4> QED BY <4>2, <4>3, <4>4
    <3>6. /\ timer_count' \in 0 .. JOBS /\ (release_timer' = "on" => timer_count' < JOBS)
          /\ processed_jobs + InWork + Len(releases') = timer_count'
      BY <1>1, <3>1, <3>4, SchedulingAssumption DEF ReleaseExpiry
    <3> QED BY <1>1, <1>2, <1>3, <2>2, <3>1, <3>3, <3>4, <3>5, <3>6 DEF ReleasesCounted
  <2> QED BY <2>1, <2>2
<1>6. LoadFollows' /\ BioFollows' /\ PassedIsOver' /\ ReportIsTrue'
  BY <1>1, <1>2, SameLoad, SameBio, SameReport DEF loadVars, bioVars
<1> QED BY <1>4, <1>5, <1>6

LEMMA LoadExpiryInv == ASSUME IInv, LoadExpiry PROVE IInv'
<1> USE DEF IInv
<1>1. UNCHANGED <<contractVars, victimVars, load_timer, lt, load_request, load_done, load_running,
                  bioVars, bio_error, shellVars, historyVars, disturbed>>
  BY DEF LoadExpiry
<1>2. BetweenCells' /\ FailuresKept'
  BY <1>1 DEF BetweenCells, FailuresKept, Failing, InCell, Parked, contractVars, bioVars,
              shellVars, victimVars
<1>3. ReleasesCounted' /\ LoadFollows' /\ BioFollows' /\ PassedIsOver' /\ ReportIsTrue'
  BY <1>1, SameReleases, SameLoad, SameBio, SameReport DEF bioVars
<1> QED BY <1>2, <1>3
-----------------------------------------------------------------------------
(* Victim and load thread. *)
LEMMA VictimTakesInv == ASSUME IInv, VictimTakes PROVE IInv'
<1> USE DEF IInv
<1>1. /\ vt = "waits" /\ vt' = "works" /\ releases # <<>>
      /\ job' = Head(releases) /\ releases' = Tail(releases)
      /\ UNCHANGED <<contractVars, release_timer, timer_count, dropped, samples, processed_jobs,
                     loadVars, bioVars, bio_error, shellVars, historyVars, disturbed>>
  BY DEF VictimTakes
<1>2. UNCHANGED <<phase, bt, bio_request, bio_ret, bio_done, lt, load_request, load_timer, suite,
                  run, cell, pc, halted>>
  BY <1>1 DEF contractVars, bioVars, loadVars, shellVars
<1>3. halted \/ InCell
  BY <1>1 DEF BetweenCells
<1>4. BetweenCells' /\ FailuresKept'
  BY <1>1, <1>2, <1>3 DEF BetweenCells, FailuresKept, Failing, InCell
<1>5. ReleasesCounted'
  <2>1. CASE ~InCell
    BY <1>1, <1>2, <2>1 DEF ReleasesCounted, InCell
  <2>2. CASE InCell
    <3> DEFINE Jobs == [seq : Nat, window : {Window}]
    <3>1. /\ InCell' /\ processed_jobs \in Nat /\ InWork = 0 /\ InWork' = 1
          /\ processed_jobs + Len(releases) = timer_count
          /\ releases \in Seq(Jobs) /\ Len(releases) \in Nat
          /\ DOMAIN releases = 1 .. Len(releases)
          /\ Window' = Window
      BY <1>1, <1>2, <2>2, SameCell, LenProperties DEF ReleasesCounted, InCell, InWork
    <3>2. /\ Len(releases) > 0 /\ job' = releases[1] /\ job' \in Jobs
          /\ releases' \in Seq(Jobs) /\ Len(releases') = Len(releases) - 1
          /\ DOMAIN releases' = 1 .. Len(releases) - 1
          /\ \A k \in 1 .. Len(releases) - 1 : releases'[k] = releases[k + 1]
      <4> HIDE DEF Jobs
      <4>1. /\ Head(releases) \in Jobs /\ Tail(releases) \in Seq(Jobs)
            /\ Len(Tail(releases)) = Len(releases) - 1
            /\ \A k \in 1 .. Len(Tail(releases)) : Tail(releases)[k] = releases[k + 1]
        BY <1>1, <3>1, HeadTailProperties
      <4>2. Len(releases) > 0 /\ Head(releases) = releases[1]
        BY <1>1, <3>1, EmptySeq
      <4>3. DOMAIN releases' = 1 .. Len(releases')
        BY <1>1, <4>1, LenProperties
      <4> QED BY <1>1, <4>1, <4>2, <4>3
    <3>3. \A k \in 1 .. Len(releases) : releases[k].seq = processed_jobs + k - 1
      BY <3>1, <2>2 DEF ReleasesCounted
    <3>4. job' = [seq |-> processed_jobs, window |-> Window]
      <4>1. job'.seq = processed_jobs
        <5>1. 1 \in 1 .. Len(releases) /\ processed_jobs + 1 - 1 = processed_jobs
          BY <3>1, <3>2
        <5>2. releases[1].seq = processed_jobs + 1 - 1
          BY <3>3, <5>1
        <5> QED BY <3>2, <5>1, <5>2
      <4> QED BY <3>2, <4>1
    <3>5. \A k \in DOMAIN releases' : releases'[k].seq = processed_jobs + InWork' + k - 1
      <4> SUFFICES ASSUME NEW k \in DOMAIN releases'
                   PROVE  releases'[k].seq = processed_jobs + InWork' + k - 1
        OBVIOUS
      <4>0. /\ processed_jobs \in Nat /\ InWork' = 1 /\ Len(releases) \in Nat
            /\ DOMAIN releases' = 1 .. Len(releases) - 1
        BY <3>1, <3>2
      <4>1. /\ k \in 1 .. Len(releases) - 1 /\ k + 1 \in 1 .. Len(releases)
            /\ processed_jobs + InWork' + k - 1 = processed_jobs + (k + 1) - 1
        BY <4>0
      <4>2. releases'[k] = releases[k + 1]
        BY <3>2, <4>1
      <4>3. releases[k + 1].seq = processed_jobs + (k + 1) - 1
        BY <3>3, <4>1
      <4> QED BY <4>1, <4>2, <4>3
    <3>6. processed_jobs + InWork' + Len(releases') = timer_count
      BY <3>1, <3>2
    <3> QED BY <1>1, <1>2, <2>2, <3>1, <3>2, <3>4, <3>5, <3>6 DEF ReleasesCounted
  <2> QED BY <2>1, <2>2
<1>6. LoadFollows' /\ BioFollows' /\ PassedIsOver' /\ ReportIsTrue'
  BY <1>1, <1>2, SameLoad, SameBio, SameReport DEF loadVars, bioVars
<1> QED BY <1>4, <1>5, <1>6

LEMMA VictimFinishesInv == ASSUME IInv, VictimFinishes PROVE IInv'
<1> USE DEF IInv
<1>1. /\ vt = "works" /\ vt' = "waits"
      /\ samples' = [samples EXCEPT ![job.seq] = job.window]
      /\ processed_jobs' = processed_jobs + 1
      /\ UNCHANGED <<contractVars, release_timer, timer_count, releases, dropped, job, loadVars,
                     bioVars, bio_error, shellVars, historyVars, disturbed>>
  BY DEF VictimFinishes
<1>2. UNCHANGED <<phase, bt, bio_request, bio_ret, bio_done, lt, load_request, load_timer, suite,
                  run, cell, pc, halted>>
  BY <1>1 DEF contractVars, bioVars, loadVars, shellVars
<1>3. halted \/ InCell
  BY <1>1 DEF BetweenCells
<1>4. BetweenCells' /\ FailuresKept'
  BY <1>1, <1>2, <1>3 DEF BetweenCells, FailuresKept, Failing, InCell
<1>5. ReleasesCounted'
  <2>1. CASE ~InCell
    BY <1>1, <1>2, <2>1 DEF ReleasesCounted, InCell
  <2>2. CASE InCell
    <3>1. /\ InCell' /\ processed_jobs \in Nat /\ InWork = 1 /\ InWork' = 0
          /\ job = [seq |-> processed_jobs, window |-> Window]
          /\ Window' = Window /\ DOMAIN samples = 0 .. JOBS - 1
      BY <1>1, <1>2, <2>2, SameCell DEF ReleasesCounted, InCell, InWork
    <3>2. \A j \in DOMAIN samples : j < processed_jobs' => samples'[j] = Window
      BY <1>1, <2>2, <3>1, SchedulingAssumption DEF ReleasesCounted
    <3>3. processed_jobs' \in Nat /\ processed_jobs' + InWork' = processed_jobs + InWork
          /\ DOMAIN samples' = DOMAIN samples
      BY <1>1, <3>1
    <3> QED BY <1>1, <1>2, <2>2, <3>1, <3>2, <3>3 DEF ReleasesCounted
  <2> QED BY <2>1, <2>2
<1>6. LoadFollows' /\ BioFollows' /\ PassedIsOver' /\ ReportIsTrue'
  BY <1>1, <1>2, SameLoad, SameBio, SameReport DEF loadVars, bioVars
<1> QED BY <1>4, <1>5, <1>6

LEMMA LoadInv == ASSUME IInv, LoadBegins \/ LoadTakes \/ LoadLooks PROVE IInv'
<1> USE DEF IInv
<1>1. UNCHANGED <<contractVars, victimVars, load_timer, load_running, bioVars, bio_error, shellVars,
                  historyVars, disturbed>>
  BY DEF LoadBegins, LoadTakes, LoadLooks
<1>2. UNCHANGED <<phase, bt, bio_request, bio_ret, bio_done, suite, run, cell, pc, halted, vt,
                  releases>>
  BY <1>1 DEF contractVars, bioVars, victimVars, shellVars
<1>3. ~(lt = "waits" /\ load_request = 0)
  BY DEF LoadBegins, LoadTakes, LoadLooks
<1>4. BetweenCells' /\ FailuresKept'
  BY <1>1, <1>2, <1>3 DEF BetweenCells, FailuresKept, Failing, InCell, Parked
<1>5. LoadFollows'
  <2>1. load' = load
    BY <1>2, SameCell
  <2>2. CASE LoadBegins
    BY <1>1, <1>2, <1>3, <2>1, <2>2 DEF LoadFollows, InCell, LoadBegins
  <2>3. CASE LoadTakes \/ LoadLooks
    BY <1>1, <1>2, <1>3, <2>1, <2>3 DEF LoadFollows, InCell, LoadTakes, LoadLooks
  <2> QED BY <2>2, <2>3
<1>6. ReleasesCounted' /\ BioFollows' /\ PassedIsOver' /\ ReportIsTrue'
  BY <1>1, <1>2, SameReleases, SameBio, SameReport
<1> QED BY <1>4, <1>5, <1>6
-----------------------------------------------------------------------------
(* The biometric thread: at work it has been asked, so that the cell is not over; and *)
(* it signals only on its way back.                                                   *)
LEMMA BioStep ==
    ASSUME IInv, Bio
    PROVE  /\ UNCHANGED <<victimVars, loadVars, shellVars, bio_running, historyVars>>
           /\ ~(bt = "waits" /\ bio_request = 0)
           /\ bt' = "waits" \/ bio_request' = 0
           /\ bio_done' = 1 => bio_done = 1 \/ (bt' = "waits" /\ bio_request' = 0)
           /\ bio_error' = bio_error \/ (bt = "ended" /\ bio_ret # 0)
           /\ phase' # "idle" => phase # "idle" \/ bt' = "terminal"
           /\ bio_request' # 1 \/ bio_request = 1
<1> USE DEF IInv
<1>1. bt = "waits" \/ bio_request = 0
  BY DEF BioFollows
<1>2. CASE BioBegins \/ BioStarts \/ BioStops \/ BioClears
  BY <1>1, <1>2 DEF BioBegins, BioStarts, BioStops, BioClears, bioCounters,
                     contractVars
<1>3. CASE BioMatch \/ BioTerminal
  BY <1>1, <1>3 DEF BioMatch, BioTerminal, BioEnds, bioCounters, contractVars
<1>4. CASE BioRequests \/ BioIdle
  BY <1>1, <1>4 DEF BioRequests, BioIdle, BioEnds, bioCounters, contractVars, Contract!SetCallback
<1>5. CASE BioEnded
  BY <1>1, <1>5 DEF BioEnded, contractVars
<1> QED BY <1>2, <1>3, <1>4, <1>5 DEF Bio

(* A failed match, and one that is given up, is going to be in bio_error. *)
LEMMA BioFails == ASSUME IInv, Bio, InCell PROVE FailuresKept'
<1> USE DEF IInv
<1>1. InCell'
  BY BioStep DEF shellVars, InCell
<1>2. /\ phase # "idle" => bt \in {"terminal", "idle"} \/ Failing
      /\ disturbed => Failing
  BY DEF FailuresKept
<1>3. CASE BioBegins \/ BioStarts \/ BioStops \/ BioClears
  BY <1>1, <1>2, <1>3 DEF FailuresKept, Failing, BioBegins, BioStarts, BioStops, BioClears,
                          bioCounters, contractVars
<1>4. CASE BioMatch
  BY <1>1, <1>2, <1>4 DEF FailuresKept, Failing, BioMatch, BioEnds, contractVars
<1>5. CASE BioRequests
  BY <1>1, <1>2, <1>5 DEF FailuresKept, Failing, BioRequests, BioEnds, contractVars
<1>6. CASE BioTerminal
  BY <1>1, <1>2, <1>6 DEF FailuresKept, Failing, BioTerminal, BioEnds, contractVars
<1>7. CASE BioIdle
  BY <1>1, <1>2, <1>7 DEF FailuresKept, Failing, BioIdle, BioEnds, Contract!SetCallback
<1>8. CASE BioEnded
  BY <1>1, <1>2, <1>8 DEF FailuresKept, Failing, BioEnded, contractVars
<1> QED BY <1>3, <1>4, <1>5, <1>6, <1>7, <1>8 DEF Bio

LEMMA BioInv == ASSUME IInv, Bio PROVE IInv'
<1> USE DEF IInv
<1>1. /\ UNCHANGED <<victimVars, loadVars, shellVars, historyVars>>
      /\ ~(bt = "waits" /\ bio_request = 0)
  BY BioStep
<1>2. InCell \/ halted
  BY <1>1 DEF BetweenCells, Parked
<1>3. BetweenCells'
  BY <1>1, <1>2 DEF BetweenCells, InCell, shellVars
<1>4. BioFollows'
  <2>1. current_mode' = current_mode
    BY <1>1, SameCell DEF shellVars
  <2> QED BY <1>1, <2>1, BioStep DEF BioFollows, InCell, shellVars
<1>5. FailuresKept'
  <2>1. CASE ~InCell
    BY <1>1, <2>1 DEF FailuresKept, InCell, shellVars
  <2> QED BY <2>1, BioFails
<1>6. ReleasesCounted' /\ LoadFollows'
  BY <1>1, SameReleases, SameLoad DEF loadVars
<1>7. PassedIsOver' /\ ReportIsTrue'
  <2>1. CASE InCell
    BY <1>1, <2>1, SameReport
  <2>2. CASE halted
    BY <1>1, <2>2, SameCell DEF PassedIsOver, ReportIsTrue, InCell, shellVars, historyVars
  <2> QED BY <1>2, <2>1, <2>2
<1> QED BY <1>3, <1>4, <1>5, <1>6, <1>7
-----------------------------------------------------------------------------
(* The shell. *)
LEMMA BeginInv == ASSUME IInv, Begin PROVE IInv'
<1> USE DEF IInv
<1>1. /\ pc = "shell" /\ ~halted /\ pc' = "clear" /\ published' = NoRecords
      /\ UNCHANGED <<victimVars, loadVars, bioVars, bio_error, halted, passed, disturbed>>
  BY DEF Begin
<1>2. phase' = phase
  BY DEF Begin, contractVars, Contract!SetCallback
<1>3. UNCHANGED <<lt, load_request, load_timer, bt, bio_request, vt, releases, release_timer,
                  samples>>
  BY <1>1 DEF loadVars, bioVars, victimVars
<1>4. BetweenCells'
  BY <1>1, <1>2, <1>3 DEF BetweenCells, InCell, Parked
<1>5. ReleasesCounted'
  BY <1>1, <1>3 DEF ReleasesCounted, InCell
<1>6. LoadFollows' /\ BioFollows' /\ FailuresKept'
  BY <1>1, <1>3 DEF LoadFollows, BioFollows, FailuresKept, InCell
<1>7. PassedIsOver' /\ ReportIsTrue'
  BY <1>1 DEF PassedIsOver, ReportIsTrue, InCell
<1> QED BY <1>4, <1>5, <1>6, <1>7

LEMMA CellClearsInv == ASSUME IInv, CellClears PROVE IInv'
<1> USE DEF IInv
<1>1. /\ pc = "clear" /\ pc' \in {"enter", "open"} /\ ~halted /\ ~halted'
      /\ timer_count' = 0 /\ dropped' = 0 /\ processed_jobs' = 0
      /\ load_done' = 0 /\ bio_done' = 0 /\ disturbed' = FALSE /\ passed' = FALSE
      /\ published' = NoRecords
      /\ UNCHANGED <<contractVars, release_timer, releases, vt, job, samples, load_timer, lt,
                     load_request, bt>>
  BY DEF CellClears, PassedIsOver, InCell
<1>2. /\ Parked /\ phase = "idle" /\ vt = "waits" /\ releases = <<>>
      /\ release_timer = "off" /\ load_timer = "off"
  BY <1>1 DEF BetweenCells, ReleasesCounted, InCell
<1>3. BetweenCells'
  BY <1>1 DEF BetweenCells, InCell
<1>4. ReleasesCounted'
  <2>1. releases' = <<>> /\ Len(releases') = 0 /\ DOMAIN releases' = {} /\ InWork' = 0
        /\ vt' = "waits" /\ release_timer' = "off" /\ load_timer' = "off"
    BY <1>1, <1>2 DEF InWork
  <2>2. releases' \in Seq([seq : Nat, window : {Window'}])
    BY <2>1
  <2>3. InCell'
    BY <1>1 DEF InCell
  <2> QED BY <1>1, <1>2, <2>1, <2>2, <2>3, SchedulingAssumption DEF ReleasesCounted
<1>5. LoadFollows'
  BY <1>1, <1>2 DEF LoadFollows, Parked
<1>6. BioFollows'
  <2>1. current_mode' = Mode(cell + 1)
    BY DEF CellClears, current_mode, Mode
  <2>2. bt' = "waits" /\ (Mode(cell + 1) = "idle" => bio_request' = 0)
    BY <1>1, <1>2 DEF CellClears, Parked
  <2> QED BY <1>1, <2>1, <2>2 DEF BioFollows
<1>7. FailuresKept'
  BY <1>1, <1>2 DEF FailuresKept, contractVars
<1>8. PassedIsOver' /\ ReportIsTrue'
  BY <1>1 DEF PassedIsOver, ReportIsTrue
<1> QED BY <1>3, <1>4, <1>5, <1>6, <1>7, <1>8

(* A command that fails: nothing is said of the threads any more. *)
LEMMA FailInv ==
    ASSUME IInv, InCell, Fail, ReportIsTrue', UNCHANGED <<samples, vt, lt, load_request, bt>>,
           bio_request' = bio_request
    PROVE  IInv'
<1> USE DEF IInv
<1>1. halted' /\ pc' = "shell" /\ ~passed'
  BY DEF Fail
<1>2. ReleasesCounted'
  BY <1>1 DEF ReleasesCounted, InCell
<1>3. LoadFollows' /\ BioFollows'
  BY <1>1 DEF LoadFollows, BioFollows, InCell
<1> QED BY <1>1, <1>2, <1>3 DEF BetweenCells, FailuresKept, PassedIsOver, InCell

(* A step within the cell, which leaves matches and records alone. *)
LEMMA StaysInCell ==
    ASSUME IInv, InCell, InCell', halted' = halted,
           UNCHANGED <<suite, run, cell, phase, bt, bio_ret, bio_error, disturbed, historyVars>>,
           ReleasesCounted', LoadFollows', BioFollows'
    PROVE  IInv'
<1> USE DEF IInv
<1>1. UNCHANGED <<published, passed>>
  BY DEF historyVars
<1>2. BetweenCells' /\ FailuresKept' /\ PassedIsOver'
  BY <1>1 DEF BetweenCells, FailuresKept, Failing, PassedIsOver, InCell
<1>3. ReportIsTrue'
  BY <1>1 DEF ReportIsTrue, PassedIsOver
<1> QED BY <1>2, <1>3

LEMMA SameReleasesInCell ==
    ASSUME ReleasesCounted, InCell, InCell', ~halted, UNCHANGED <<suite, run, cell>>,
           UNCHANGED <<timer_count, releases, dropped, vt, job, samples, processed_jobs>>,
           pc' \in {"jobs", "close"} \/ (release_timer' = "off" /\ load_timer' = "off"),
           pc' \in {"enter", "open"} => pc \in {"enter", "open"},
           release_timer' = "on" => release_timer = "on" \/ timer_count = 0
    PROVE  ReleasesCounted'
  BY SameCell, SchedulingAssumption DEF ReleasesCounted, InWork, InCell

LEMMA BioEnteredInv == ASSUME IInv, BioEntered PROVE IInv'
<1> USE DEF IInv
<1>1. /\ pc = "enter" /\ InCell /\ ~halted /\ published = NoRecords
      /\ UNCHANGED <<contractVars, otherVictimVars, otherLoadVars, bt, bio_request, bio_done,
                     bio_ret, bio_error, published, disturbed>>
  BY DEF BioEntered, InCell, PassedIsOver
<1>2. UNCHANGED <<phase, timer_count, releases, dropped, vt, job, samples, processed_jobs, lt,
                  load_request, load_done>>
  BY <1>1 DEF contractVars, otherVictimVars, otherLoadVars
<1>3. CASE Fail
  <2>1. ReportIsTrue'
    BY <1>1, <1>3 DEF Fail, ReportIsTrue, PassedIsOver
  <2> QED BY <1>1, <1>2, <1>3, <2>1, FailInv
<1>4. CASE Goto("open") /\ UNCHANGED failVars
  <2>1. /\ pc' = "open" /\ InCell'
        /\ UNCHANGED <<suite, run, cell, halted, release_timer, load_timer, historyVars,
                       load_running>>
    BY <1>1, <1>4 DEF Goto, failVars, InCell, historyVars
  <2>2. release_timer = "off" /\ load_timer = "off"
    BY <1>1 DEF ReleasesCounted
  <2>3. ReleasesCounted'
    BY <1>1, <1>2, <2>1, <2>2, SameReleasesInCell
  <2>4. LoadFollows' /\ BioFollows'
    BY <1>1, <1>2, <2>1, SameCell DEF LoadFollows, BioFollows
  <2> QED BY <1>1, <1>2, <2>1, <2>3, <2>4, StaysInCell
<1> QED BY <1>3, <1>4 DEF BioEntered

LEMMA WindowOpensInv == ASSUME IInv, WindowOpens PROVE IInv'
<1> USE DEF IInv
<1>1. /\ pc = "open" /\ InCell /\ ~halted /\ pc' = "jobs" /\ InCell'
      /\ UNCHANGED <<suite, run, cell, halted, historyVars, phase, disturbed, bio_error>>
      /\ UNCHANGED <<timer_count, releases, dropped, vt, job, samples, processed_jobs, lt,
                     load_done, bt, bio_request, bio_done, bio_ret>>
  BY DEF WindowOpens, Goto, InCell, PassedIsOver, contractVars, otherVictimVars, bioVars
<1>2. ReleasesCounted'
  <2>1. timer_count = 0
    BY <1>1 DEF ReleasesCounted
  <2> QED BY <1>1, <2>1, SameReleasesInCell
<1>3. LoadFollows'
  <2>1. lt = "waits" /\ load_request = 0 /\ load_done = 0 /\ load' = load
    BY <1>1, SameCell DEF LoadFollows
  <2> QED BY <1>1, <2>1 DEF LoadFollows, WindowOpens
<1>4. BioFollows'
  BY <1>1, SameCell DEF BioFollows
<1> QED BY <1>1, <1>2, <1>3, <1>4, StaysInCell

LEMMA JobsDoneInv == ASSUME IInv, JobsDone PROVE IInv'
<1> USE DEF IInv
<1>1. /\ pc = "jobs" /\ InCell /\ ~halted /\ pc' = "close" /\ InCell'
      /\ UNCHANGED <<suite, run, cell, halted, historyVars, phase, disturbed, bio_error>>
      /\ UNCHANGED <<timer_count, releases, dropped, vt, job, samples, processed_jobs,
                     release_timer, load_timer, lt, load_request, load_done, load_running>>
      /\ UNCHANGED <<bt, bio_request, bio_done, bio_ret>>
  BY DEF JobsDone, InCell, PassedIsOver, contractVars, loadVars, bioVars
<1>2. ReleasesCounted'
  BY <1>1, SameReleasesInCell
<1>3. LoadFollows' /\ BioFollows'
  BY <1>1, SameCell DEF LoadFollows, BioFollows
<1> QED BY <1>1, <1>2, <1>3, StaysInCell

LEMMA WindowClosesInv == ASSUME IInv, WindowCloses PROVE IInv'
<1> USE DEF IInv
<1>1. /\ pc = "close" /\ InCell /\ ~halted /\ InCell'
      /\ pc' = IF load THEN "drain_load" ELSE "drain_bio"
      /\ release_timer' = "off" /\ load_timer' = "off"
      /\ UNCHANGED <<suite, run, cell, halted, historyVars, phase, disturbed, bio_error>>
      /\ UNCHANGED <<timer_count, releases, dropped, vt, job, samples, processed_jobs, lt,
                     load_request, load_done, bt, bio_request, bio_done, bio_ret>>
  BY DEF WindowCloses, Goto, InCell, PassedIsOver, contractVars, otherVictimVars, otherBioVars
<1>2. ReleasesCounted'
  BY <1>1, SameReleasesInCell
<1>3. LoadFollows' /\ BioFollows'
  BY <1>1, SameCell DEF LoadFollows, BioFollows
<1> QED BY <1>1, <1>2, <1>3, StaysInCell

LEMMA DrainLoadInv == ASSUME IInv, DrainLoad PROVE IInv'
<1> USE DEF IInv
<1>1. /\ pc = "drain_load" /\ InCell /\ ~halted /\ published = NoRecords
      /\ UNCHANGED <<phase, disturbed, bio_error, published>>
      /\ UNCHANGED <<timer_count, releases, dropped, vt, job, samples, processed_jobs, lt,
                     load_request, bt, bio_request, bio_done, bio_ret>>
  BY DEF DrainLoad, InCell, PassedIsOver, contractVars, otherVictimVars, otherBioVars
<1>2. CASE Fail
  <2>1. ReportIsTrue'
    BY <1>1, <1>2 DEF Fail, ReportIsTrue, PassedIsOver
  <2> QED BY <1>1, <1>2, <2>1, FailInv
<1>3. CASE load_done = 1 /\ Goto("drain_bio") /\ UNCHANGED failVars
  <2>1. /\ pc' = "drain_bio" /\ InCell'
        /\ UNCHANGED <<suite, run, cell, halted, release_timer, load_timer, historyVars>>
    BY <1>1, <1>3 DEF Goto, failVars, InCell, historyVars
  <2>2. release_timer = "off" /\ load_timer = "off"
    BY <1>1 DEF ReleasesCounted
  <2>3. ReleasesCounted'
    BY <1>1, <2>1, <2>2, SameReleasesInCell
  <2>4. lt = "waits" /\ load_request = 0
    BY <1>1, <1>3 DEF LoadFollows
  <2>5. LoadFollows' /\ BioFollows'
    BY <1>1, <2>1, <2>4, SameCell DEF LoadFollows, BioFollows
  <2> QED BY <1>1, <2>1, <2>3, <2>5, StaysInCell
<1> QED BY <1>2, <1>3 DEF DrainLoad

LEMMA DrainBioInv == ASSUME IInv, DrainBio PROVE IInv'
<1> USE DEF IInv
<1>1. /\ pc = "drain_bio" /\ InCell /\ ~halted /\ published = NoRecords
      /\ UNCHANGED <<phase, disturbed, bio_error, published>>
      /\ UNCHANGED <<timer_count, releases, dropped, vt, job, samples, processed_jobs, lt,
                     load_request, load_done, bt, bio_request, bio_ret>>
  BY DEF DrainBio, InCell, PassedIsOver, contractVars, otherVictimVars, otherLoadVars
<1>2. CASE Fail
  <2>1. ReportIsTrue'
    BY <1>1, <1>2 DEF Fail, ReportIsTrue, PassedIsOver
  <2> QED BY <1>1, <1>2, <2>1, FailInv
<1>3. CASE (current_mode = "idle" \/ bio_done = 1) /\ Goto("judge") /\ UNCHANGED failVars
  <2>1. /\ pc' = "judge" /\ InCell'
        /\ UNCHANGED <<suite, run, cell, halted, release_timer, load_timer, historyVars>>
    BY <1>1, <1>3 DEF Goto, failVars, InCell, historyVars
  <2>2. release_timer = "off" /\ load_timer = "off"
    BY <1>1 DEF ReleasesCounted
  <2>3. ReleasesCounted'
    BY <1>1, <2>1, <2>2, SameReleasesInCell
  <2>4. bt = "waits" /\ bio_request = 0
    BY <1>1, <1>3 DEF BioFollows
  <2>5. LoadFollows' /\ BioFollows'
    BY <1>1, <2>1, <2>4, SameCell DEF LoadFollows, BioFollows
  <2> QED BY <1>1, <2>1, <2>3, <2>5, StaysInCell
<1> QED BY <1>2, <1>3 DEF DrainBio

(* A cell that ended well has used up its releases, each for a record of its own, and *)
(* none of its matches failed.                                                        *)
LEMMA JudgeInv == ASSUME IInv, Judge PROVE IInv'
<1> USE DEF IInv
<1>1. /\ pc = "judge" /\ InCell /\ ~halted /\ published = NoRecords
      /\ published' = IF Complete THEN samples ELSE published
      /\ UNCHANGED <<phase, disturbed, bio_error, bt, bio_request, bio_done, bio_ret>>
      /\ UNCHANGED <<timer_count, releases, dropped, vt, job, samples, processed_jobs, lt,
                     load_request, load_done>>
  BY DEF Judge, InCell, PassedIsOver, contractVars, otherVictimVars, otherLoadVars, otherBioVars
<1>2. Parked /\ release_timer = "off" /\ load_timer = "off"
  BY <1>1 DEF LoadFollows, BioFollows, ReleasesCounted, Parked
<1>3. ASSUME UNCHANGED <<suite, run, cell>>
      PROVE  published' # NoRecords => \A i \in DOMAIN published' : published'[i] = Window'
  <2>1. CASE Complete
    <3>1. /\ processed_jobs = JOBS /\ DOMAIN samples = 0 .. JOBS - 1
          /\ \A j \in DOMAIN samples : j < processed_jobs => samples[j] = Window
      BY <1>1, <2>1 DEF Complete, ReleasesCounted
    <3> QED BY <1>1, <1>3, <2>1, <3>1, SameCell, SchedulingAssumption
  <2>2. CASE ~Complete
    BY <1>1, <2>2
  <2> QED BY <2>1, <2>2
<1>4. CASE ~(Complete /\ Undisturbed)
  <2>1. Fail
    BY <1>4 DEF Judge
  <2>2. ReportIsTrue'
    BY <1>3, <2>1 DEF Fail, ReportIsTrue
  <2> QED BY <1>1, <2>1, <2>2, FailInv
<1>5. CASE Complete /\ Undisturbed
  <2>1. /\ pc' \in {"shell", "clear"} /\ ~InCell' /\ passed'
        /\ UNCHANGED <<suite, run, cell, halted, release_timer, load_timer>>
    BY <1>5 DEF Judge, InCell
  <2>2. bio_error = 0 /\ ~Failing
    BY <1>2, <1>5 DEF Undisturbed, Failing, Parked
  <2>3. phase = "idle" /\ ~disturbed
    BY <1>1, <1>2, <2>2 DEF FailuresKept, Parked
  <2>4. vt = "waits" /\ releases = <<>>
    <3>1. /\ timer_count = JOBS /\ processed_jobs = JOBS /\ vt \in {"waits", "works"}
          /\ processed_jobs + InWork + Len(releases) = timer_count
          /\ releases \in Seq([seq : Nat, window : {Window}])
      BY <1>1, <1>5 DEF Complete, ReleasesCounted
    <3>2. Len(releases) \in Nat
      BY <3>1, LenProperties
    <3>3. InWork = 0 /\ Len(releases) = 0
      BY <3>1, <3>2, SchedulingAssumption DEF InWork
    <3> QED BY <3>1, <3>3, EmptySeq DEF InWork
  <2>5. BetweenCells'
    BY <1>1, <1>2, <2>3, <2>4 DEF BetweenCells, Parked
  <2>6. ReleasesCounted'
    BY <1>1, <1>2, <2>1 DEF ReleasesCounted
  <2>7. LoadFollows' /\ BioFollows' /\ FailuresKept'
    BY <1>1, <1>2, <2>1 DEF LoadFollows, BioFollows, FailuresKept, Parked
  <2>8. PassedIsOver' /\ ReportIsTrue'
    BY <1>1, <1>3, <2>1, <2>3 DEF PassedIsOver, ReportIsTrue
  <2> QED BY <2>5, <2>6, <2>7, <2>8
<1> QED BY <1>4, <1>5
-----------------------------------------------------------------------------
LEMMA InitInv == Init => IInv
<1> SUFFICES ASSUME Init PROVE IInv
  OBVIOUS
<1>1. /\ pc = "shell" /\ ~InCell /\ ~halted /\ ~passed /\ published = NoRecords
      /\ vt = "waits" /\ lt = "waits" /\ bt = "waits" /\ load_request = 0 /\ bio_request = 0
      /\ releases = <<>> /\ release_timer = "off" /\ load_timer = "off" /\ phase = "idle"
      /\ samples = NoRecords
  BY DEF Init, InCell, Contract!Init
<1>2. DOMAIN samples = 0 .. JOBS - 1
  BY <1>1 DEF NoRecords
<1> QED BY <1>1, <1>2 DEF IInv, BetweenCells, ReleasesCounted, LoadFollows, BioFollows,
                          FailuresKept, PassedIsOver, ReportIsTrue, Parked

LEMMA StepInv == IInv /\ [Next]_vars => IInv'
<1> SUFFICES ASSUME IInv, [Next]_vars PROVE IInv'
  OBVIOUS
<1>1. CASE Begin
  BY <1>1, BeginInv
<1>2. CASE Shell
  BY <1>2, CellClearsInv, BioEnteredInv, WindowOpensInv, JobsDoneInv, WindowClosesInv,
     DrainLoadInv, DrainBioInv, JudgeInv DEF Shell
<1>3. CASE Helpers
  BY <1>3, VictimTakesInv, VictimFinishesInv, LoadInv DEF Helpers
<1>4. CASE Bio
  BY <1>4, BioInv
<1>5. CASE Device
  BY <1>5, DeviceInv
<1>6. CASE ReleaseExpiry \/ LoadExpiry
  BY <1>6, ReleaseExpiryInv, LoadExpiryInv
<1>7. CASE UNCHANGED vars
  <2>1. /\ UNCHANGED <<contractVars, victimVars, loadVars, bioVars, bio_error, shellVars,
                       historyVars, disturbed>>
    BY <1>7 DEF vars
  <2>2. BetweenCells' /\ FailuresKept'
    BY <2>1 DEF IInv, BetweenCells, FailuresKept, Failing, InCell, Parked, contractVars, bioVars,
                loadVars, shellVars, victimVars
  <2>3. ReleasesCounted' /\ LoadFollows' /\ BioFollows' /\ PassedIsOver' /\ ReportIsTrue'
    BY <2>1, SameReleases, SameLoad, SameBio, SameReport DEF IInv, loadVars, bioVars
  <2> QED BY <2>2, <2>3 DEF IInv
<1> QED BY <1>1, <1>2, <1>3, <1>4, <1>5, <1>6, <1>7 DEF Next

(* Every reachable state satisfies the inductive invariant. *)
THEOREM Invariance == Spec => []IInv
  BY InitInv, StepInv, PTL DEF Spec

(* The counters of the workers are judged only while these wait, and a cell begins    *)
(* with nothing left of the one before, whatever the timing of timers, threads and    *)
(* device.                                                                            *)
THEOREM Drained == Spec => []WorkersDrained
<1>1. IInv => WorkersDrained
  BY DEF IInv, BetweenCells, ReleasesCounted, LoadFollows, BioFollows, PassedIsOver, InCell, Parked,
         WorkersDrained
<1> QED BY <1>1, Invariance, PTL

(* Records that are printed are all of the cell, and a cell that passed met nobody and *)
(* no failure.                                                                         *)
THEOREM TrueReport == Spec => []ReportIsTrue
<1>1. IInv => ReportIsTrue
  BY DEF IInv
<1> QED BY <1>1, Invariance, PTL

(* The queue of the releases never overflows: a window makes no more than fit in it,  *)
(* and it is empty when a window opens.  The counter of drops stays 0.                *)
THEOREM NoneDropped == Spec => [](InCell => dropped = 0)
<1>1. IInv => (InCell => dropped = 0)
  BY DEF IInv, ReleasesCounted
<1> QED BY <1>1, Invariance, PTL
-----------------------------------------------------------------------------
(***************************************************************************)
(* LifecycleTests: tests 2A and 2B.  First the inductive invariants; then  *)
(* the scripts, which are put together of fragments, so that what is said  *)
(* of one fragment holds of the whole by FitsConcat; then the invariants   *)
(* in the order in which they rest on each other: LifecycleIInv,           *)
(* Test2Kept, NothingFails.                                                *)
(***************************************************************************)

(***************************************************************************)
(* The inductive invariant.  Of the scripts it uses marks: a mark is set   *)
(* by the steps of Begins and removed by those of Ends.                    *)
(***************************************************************************)

StepNames == {"snapshot", "unchanged", "purge", "start", "hold", "refused", "busy", "register",
              "unregister", "quiet", "stop", "entered", "stopped", "probe", "probed", "gate",
              "window", "release", "terminal", "idle", "markers"}

Parameters == {"ENROLL", "IDENTIFY", "REGISTER", "LIST", "STOP", "OK", "EALREADY",
               "ENROLL_TIMEOUT", "ONCE_NO_SAMPLE", "CANCEL_ENROLL", "CANCEL_IDENTIFY"}

Steps == {<<n>> : n \in StepNames} \cup (StepNames \X Parameters)
Named(names) == {<<n>> : n \in names} \cup (names \X Parameters)

Begins == [stop |-> Named({"stop"}),                \* a stop is not answered
           probe |-> Named({"probe"}),              \* a probe is not answered
           request |-> Named({"start", "hold"}),    \* a request is not known to be over
           unstopped |-> Named({"start", "hold"}),  \* no stop was asked for since
           uncompared |-> Named({"start", "hold"}), \* the library was not looked at since
           timed |-> {"start", "hold"} \X {"ENROLL_TIMEOUT", "ONCE_NO_SAMPLE"},
           held |-> Named({"hold"}),                \* the order of the returns is not judged
           closed |-> Named({"hold"}),              \* the gate is not to be opened
           ungated |-> Named({"hold"}),             \* the callback is not known to be held
           gated |-> Named({"gate"}),               \* it is, and not let go
           registered |-> Named({"register"}),
           unregistered |-> Named({"unregister"}),
           silent |-> Named({"purge"})]             \* no request since

Ends == [stop |-> Named({"stopped"}), probe |-> Named({"probed"}), request |-> Named({"idle"}),
         unstopped |-> Named({"stop"}), uncompared |-> Named({"unchanged"}),
         timed |-> Named({"gate", "idle"}),
         held |-> Named({"markers"}), closed |-> Named({"release"}), ungated |-> Named({"gate"}),
         gated |-> Named({"release"}),
         registered |-> Named({"unregister"}), unregistered |-> Named({"register"}),
         silent |-> Named({"start", "hold"})]

Marks == DOMAIN Begins

(* Mark m is set before step i of s, when those of p are set before its first. *)
Open(s, p, i, m) ==
    \/ m \in p /\ \A k \in 1 .. i - 1 : s[k] \notin Ends[m]
    \/ \E j \in 1 .. i - 1 : s[j] \in Begins[m] /\ \A k \in j + 1 .. i - 1 : s[k] \notin Ends[m]

Opened(s, p, i) == {m \in Marks : Open(s, p, i, m)}

opened == IF at > 0 THEN Opened(script, {}, at) ELSE {}

(* A test that passed is over and may be run again; one that failed is not. *)
AtStep == /\ at \in 0 .. Len(script) /\ test \in {"t2", "t2b"}
          /\ test_halted => at = 0
          /\ verdict = "PASS" => at = 0 /\ ~test_halted
          /\ verdict = "FAIL" => test_halted

(* A callback runs from the report of an event to its return, thus for a request. *)
CallbackRuns == /\ cb = "none" <=> event = Contract!NoEvent
                /\ phase = "idle" => cb = "none"
                /\ delivered \in Seq(EventValues) /\ outcome \in Contract!Errnos

(* A helper works on the request it took last, gives its done token as the last thing, *)
(* and is not asked again before the token was taken.                                  *)
HelpersFollow ==
    /\ asked \in [stop : Nat, probe : Nat]
    /\ st \in {"waits", "calls", "stopping", "returned"}
    /\ st # "waits" \/ stop_done = 1 => stop_request = 0 /\ stop_for = asked.stop
    /\ stop_done = 1 => st = "waits"
    /\ ~test_halted => ("stop" \in opened <=> st # "waits" \/ stop_request = 1 \/ stop_done = 1)
    /\ pr \in {"waits", "calls", "stopping", "returned"}
    /\ pr # "waits" \/ probe_done = 1 => probe_request = 0 /\ probe_for = asked.probe
    /\ probe_done = 1 => pr = "waits"
    /\ ~test_halted => ("probe" \in opened <=> pr # "waits" \/ probe_request = 1 \/ probe_done = 1)
    /\ stop_request \in {0, 1} /\ stop_done \in {0, 1}
    /\ probe_request \in {0, 1} /\ probe_done \in {0, 1}

(* Where the script does not expect a request the device is idle. *)
RequestsEnd == ~test_halted /\ "request" \notin opened => phase = "idle"

LifecycleIInv == AtStep /\ CallbackRuns /\ HelpersFollow /\ RequestsEnd

(* The gate, whatever the driver does: only the callback of a hold comes to it, once. *)
OrderKept ==
    /\ order_counter \in Nat /\ primary_return_order \in 0 .. order_counter
    /\ callback_before_return_order \in 0 .. order_counter
    /\ dropped_events \in Nat
    /\ cb \in {"held", "released"} => gate_arm = 0

GateKept ==
    ~test_halted =>
        /\ gate_arm = 1 /\ "request" \in opened => "held" \in opened
                                                /\ callback_before_return_order = 0
        /\ cb = "held" => "held" \in opened /\ callback_before_return_order = 0

(* A flaw that was seen: the shell has not come to the check that fails for it. *)
ProbeFailed == "probe" \in opened /\ (pr = "returned" \/ probe_done = 1) /\ probe_result # "EBUSY"

StopFailed ==
    /\ "held" \in opened /\ "unstopped" \notin opened
    /\ \/ gate_expired = 1
       \/ st = "returned" /\ Held
       \/ /\ st = "waits" /\ stop_request = 0 /\ primary_return_order > 0
          /\ \/ callback_before_return_order = 0
             \/ callback_before_return_order > primary_return_order

TraceFailed == /\ "request" \in opened
               /\ dropped_events > 0 \/ (phase = "idle" /\ ~LegalTrace(events))

FlawsAreSeen ==
    ~test_halted =>
        /\ "request" \in opened => ProbeFailed \/ dropped_events > 0 \/ events = delivered
        /\ broken => ProbeFailed \/ StopFailed \/ TraceFailed
        /\ added => "uncompared" \in opened

Test2Kept == OrderKept /\ GateKept /\ FlawsAreSeen

(* A driver without a flaw, and nothing that excuses a failure so far. *)
Clean == flaw = "good" /\ ~excused

Uncalled == stop_request = 1 \/ st = "calls"

(* Requests that end without a stop. *)
SelfEnding == {"ENROLL_TIMEOUT", "ONCE_NO_SAMPLE"}

StopAnswers ==
    /\ st = "stopping" => "request" \in opened
    /\ "request" \in opened /\ Uncalled =>
        phase # "idle" /\ (expected \in SelfEnding => cb = "held" /\ gate_release = 0)
    /\ st = "returned" \/ stop_done = 1 =>
        IF "request" \in opened THEN stop_result = "OK" /\ phase = "idle"
        ELSE stop_result = "EALREADY"

(* Only calls that must be refused are probed, and while the callback is held. *)
ProbeAnswers ==
    /\ pr # "stopping"
    /\ "probe" \in opened /\ probe_command = "STOP" => "stop" \in opened
    /\ pr \in {"calls", "returned"} \/ probe_done = 1 => probe_active_before
    /\ probe_done = 1 => probe_active_after
    /\ pr = "returned" \/ probe_done = 1 => probe_result = "EBUSY"

GateWorks ==
    /\ gate_expired = 0
    /\ "closed" \in opened => gate_release = 0 /\ (gate_entered = 1 => cb = "held")
    /\ "gated" \in opened => cb = "held"
    /\ cb = "held" => gate_active = 1 /\ phase = "stopped"
    /\ "held" \in opened =>
        /\ cb \notin {"held", "released"} => gate_active = 0
        /\ "ungated" \notin opened =>
            /\ cb \in {"held", "released"} \/ callback_before_return_order > 0
            /\ phase \in {"stopped", "idle"}
        /\ "unstopped" \notin opened =>
            IF "stop" \in opened /\ stop_done = 0 THEN primary_returned = 0
            ELSE primary_return_order > callback_before_return_order /\ phase = "idle"

(* A request that is to be cancelled goes on until a stop was called; no other one is *)
(* stopped before it has ended.                                                       *)
EndsAsAsked ==
    /\ expected \in SelfEnding \cup {"CANCEL_ENROLL", "CANCEL_IDENTIFY"}
    /\ "timed" \in opened => expected \in SelfEnding
    /\ expected \in SelfEnding =>
        "timed" \in opened \/ ("held" \in opened /\ "ungated" \notin opened)
    /\ "unstopped" \in opened \/ Uncalled => cancel = 0
    /\ expected \notin SelfEnding /\ cancel = 0 => phase = "active"
    /\ expected \in SelfEnding /\ phase \in {"active", "settled", "failed"} => cancel = 0

NoMatch == Contract!Event("NO_MATCH", "ETIMEDOUT")
OnlyNoMatches == \A i \in DOMAIN events : events[i] = NoMatch

WhileActive ==
    /\ outcome = "OK" /\ continuous = (expected = "CANCEL_IDENTIFY")
    /\ operation = IF expected \in {"ENROLL_TIMEOUT", "CANCEL_ENROLL"}
                   THEN "ENROLLING" ELSE "IDENTIFY"
    /\ expected = "CANCEL_IDENTIFY" => OnlyNoMatches
    /\ expected = "ONCE_NO_SAMPLE" =>
        events = IF event = Contract!NoEvent THEN <<>> ELSE <<NoMatch>>
    /\ operation = "ENROLLING" => events = <<>> /\ event = Contract!NoEvent

OnceSettled ==
    /\ expected = "CANCEL_IDENTIFY" => outcome = "ECANCELED" /\ cancel = 1 /\ OnlyNoMatches
    /\ expected = "CANCEL_ENROLL" => outcome = "ECANCELED" /\ cancel = 1 /\ events = <<>>
    /\ expected = "ONCE_NO_SAMPLE" => outcome = "OK" /\ events = <<NoMatch>>
    /\ expected = "ENROLL_TIMEOUT" => outcome = "ETIMEDOUT" /\ events = <<>>

OnceFailed == /\ expected = "ENROLL_TIMEOUT" /\ outcome = "ETIMEDOUT"
              /\ events = <<Contract!Event("ERROR", "ETIMEDOUT")>>

(* The trace so far is the one that is expected. *)
TraceSoFar ==
    /\ events = delivered /\ callback_count = Len(events)
    /\ phase = "active" => WhileActive
    /\ phase = "settled" => OnceSettled
    /\ phase = "failed" => OnceFailed
    /\ phase \in {"stopped", "idle"} => t2_evaluate(events, expected)

RequestGoes == "request" \in opened => EndsAsAsked /\ TraceSoFar

LibraryKept ==
    /\ ~added /\ dropped_events = 0
    /\ phase = "idle" => outcome = "OK"
    /\ "registered" \in opened => callback = OnEvent
    /\ "unregistered" \in opened => callback = NoCallback
    /\ "silent" \in opened => events = <<>> /\ callback_count = 0

NothingFails == Clean => /\ ~test_halted
                         /\ StopAnswers /\ ProbeAnswers /\ GateWorks /\ RequestGoes
                         /\ LibraryKept
-----------------------------------------------------------------------------
(***************************************************************************)
(* What the scripts are made of.                                           *)
(***************************************************************************)

(* The marks after step a, when those of o are set before it. *)
After(o, a) == {m \in Marks : a \in Begins[m] \/ (m \in o /\ a \notin Ends[m])}

(* What the scripts keep to: the steps that come while the marks of o are set, *)
Allowed(a, o) ==
    /\ a \in Steps
    /\ a[1] = "probed" <=> "probe" \in o
    /\ "stop" \in o => a[1] \notin {"stop", "start", "hold", "idle", "purge", "register",
            "unregister", "refused", "quiet", "busy", "snapshot", "unchanged", "markers",
            "terminal"}
    /\ "request" \in o => a[1] \notin {"start", "hold", "purge", "register", "unregister",
            "refused", "quiet", "snapshot", "unchanged", "markers"}
    /\ a[1] = "idle" => "request" \in o
    /\ a[1] = "probe" => "gated" \in o /\ (a[2] = "STOP" => "stop" \in o)
    /\ a[1] = "stop" => /\ "held" \in o \/ "request" \in o => "unstopped" \in o
                        /\ "held" \in o => "request" \in o /\ ("ungated" \notin o => "gated" \in o)
                        /\ "timed" \notin o
    /\ a[1] = "stopped" => /\ "stop" \in o /\ "closed" \notin o
                           /\ a[2] = IF "request" \in o THEN "OK" ELSE "EALREADY"
    /\ a[1] \in {"start", "hold"} =>
           /\ "registered" \in o /\ "held" \notin o
           /\ a \in StepNames \X {"ENROLL_TIMEOUT", "ONCE_NO_SAMPLE", "CANCEL_ENROLL",
                               "CANCEL_IDENTIFY"}
    /\ a[1] = "busy" => /\ {"request", "unstopped"} \subseteq o /\ "timed" \notin o
                        /\ "held" \notin o /\ a[2] # "STOP"
    /\ a[1] = "purge" => "held" \notin o
    /\ a[1] = "refused" => "unregistered" \in o
    /\ a[1] = "quiet" => "silent" \in o
    /\ a[1] = "gate" => {"held", "closed", "ungated", "request"} \subseteq o
    /\ a[1] = "window" => {"gated", "stop"} \subseteq o
    /\ a[1] = "release" => {"gated", "stop"} \subseteq o
    /\ a[1] \in {"terminal", "idle"} => "closed" \notin o
    /\ a[1] = "markers" => /\ {"held"} \subseteq o /\ "closed" \notin o
                           /\ "ungated" \notin o /\ "unstopped" \notin o

(* and how the marks belong together. *)
Coherent(o) ==
    /\ o \subseteq Marks
    /\ "unstopped" \in o => "stop" \notin o
    /\ "request" \in o => "uncompared" \in o
    /\ "timed" \in o => {"request", "unstopped"} \subseteq o
    /\ "gated" \in o => {"request", "held", "closed"} \subseteq o /\ "ungated" \notin o
    /\ "closed" \in o => {"request", "held"} \subseteq o
    /\ "ungated" \in o => "closed" \in o
    /\ "probe" \in o => "gated" \in o
    /\ {"stop", "held"} \subseteq o => "request" \in o
    /\ "request" \in o => "registered" \in o /\ "silent" \notin o

(* Step a leads from the marks p to the marks q. *)
Goes(a, p, q) == Coherent(p) /\ Allowed(a, p) /\ q = After(p, a)

(* The fragment s of a script keeps to this from the marks p, and leaves those of q. *)
Fits(s, p, q) ==
    /\ s \in Seq(Steps) /\ p \subseteq Marks
    /\ \A i \in 1 .. Len(s) : /\ Coherent(Opened(s, p, i))
                              /\ Allowed(s[i], Opened(s, p, i))
    /\ Opened(s, p, Len(s) + 1) = q

(* One step sets and removes marks. *)
LEMMA OpenNext ==
    ASSUME NEW s, NEW p, NEW i \in Nat \ {0}, NEW mark \in Marks
    PROVE  Open(s, p, i + 1, mark) <=> \/ s[i] \in Begins[mark]
                                       \/ Open(s, p, i, mark) /\ s[i] \notin Ends[mark]
<1>2. ASSUME s[i] \in Begins[mark] PROVE Open(s, p, i + 1, mark)
  BY <1>2 DEF Open
<1>3. ASSUME Open(s, p, i, mark), s[i] \notin Ends[mark] PROVE Open(s, p, i + 1, mark)
  <2>1. CASE mark \in p /\ \A m \in 1 .. i - 1 : s[m] \notin Ends[mark]
    BY <1>3, <2>1 DEF Open
  <2>2. CASE \E j \in 1 .. i - 1 : /\ s[j] \in Begins[mark]
                                  /\ \A m \in j + 1 .. i - 1 : s[m] \notin Ends[mark]
    BY <1>3, <2>2 DEF Open
  <2> QED BY <1>3, <2>1, <2>2 DEF Open
<1>4. ASSUME Open(s, p, i + 1, mark), s[i] \notin Begins[mark]
      PROVE  Open(s, p, i, mark) /\ s[i] \notin Ends[mark]
  <2>1. CASE mark \in p /\ \A m \in 1 .. i : s[m] \notin Ends[mark]
    BY <1>4, <2>1 DEF Open
  <2>2. CASE \E j \in 1 .. i : /\ s[j] \in Begins[mark]
                              /\ \A m \in j + 1 .. i : s[m] \notin Ends[mark]
    BY <1>4, <2>2 DEF Open
  <2> QED BY <1>4, <2>1, <2>2 DEF Open
<1> QED BY <1>2, <1>3, <1>4

LEMMA OpenedNext ==
    ASSUME NEW s, NEW p, NEW i \in Nat \ {0}
    PROVE  Opened(s, p, i + 1) = After(Opened(s, p, i), s[i])
  BY OpenNext DEF Opened, After

LEMMA OpenedFirst ==
    ASSUME NEW s, NEW p, p \subseteq Marks
    PROVE  Opened(s, p, 1) = p
  BY DEF Opened, Open

LEMMA FitsOne ==
    ASSUME NEW a, NEW p, NEW q, Goes(a, p, q)
    PROVE  Fits(<<a>>, p, q)
<1> DEFINE s == <<a>>
<1>0. a \in Steps /\ p \subseteq Marks /\ Coherent(p)
  BY DEF Goes, Allowed, Coherent
<1>1. s \in Seq(Steps) /\ Len(s) = 1 /\ s[1] = a
  BY <1>0
<1> HIDE DEF s
<1>2. Opened(s, p, 1) = p
  BY <1>0, OpenedFirst
<1>3. Opened(s, p, 1 + 1) = q
  BY <1>1, <1>2, OpenedNext DEF Goes
<1>4. Fits(s, p, q)
  BY <1>0, <1>1, <1>2, <1>3 DEF Fits, Goes
<1> QED BY <1>4 DEF s

(* Within a concatenation marks are set as in its parts. *)
LEMMA OpenPrefix ==
    ASSUME NEW s, NEW u, NEW n \in Nat, \A i \in 1 .. n : u[i] = s[i], NEW p, NEW mark \in Marks
    PROVE  \A i \in 1 .. n + 1 : Open(u, p, i, mark) <=> Open(s, p, i, mark)
<1> SUFFICES ASSUME NEW i \in 1 .. n + 1
             PROVE  Open(u, p, i, mark) <=> Open(s, p, i, mark)
  OBVIOUS
<1>1. \A m \in 1 .. i - 1 : u[m] = s[m]
  OBVIOUS
<1>2. \A j \in 1 .. i - 1 : j + 1 .. i - 1 \subseteq 1 .. i - 1
  OBVIOUS
<1>3. \A j \in 1 .. i - 1 : (\A m \in j + 1 .. i - 1 : u[m] \notin Ends[mark])
                           <=> (\A m \in j + 1 .. i - 1 : s[m] \notin Ends[mark])
  BY <1>1, <1>2
<1> QED BY <1>1, <1>3 DEF Open

LEMMA OpenSuffix ==
    ASSUME NEW t, NEW u, NEW n \in Nat, NEW len \in Nat, \A i \in 1 .. len : u[n + i] = t[i],
           NEW p, NEW q, NEW mark \in Marks, Open(u, p, n + 1, mark) <=> mark \in q
    PROVE  \A i \in 1 .. len + 1 : Open(u, p, n + i, mark) <=> Open(t, q, i, mark)
<1> SUFFICES ASSUME NEW i \in 1 .. len + 1
             PROVE  Open(u, p, n + i, mark) <=> Open(t, q, i, mark)
  OBVIOUS
<1> DEFINE Quiet(a, b) == \A m \in a .. b : u[m] \notin Ends[mark]
           QuietT(a, b) == \A m \in a .. b : t[m] \notin Ends[mark]
<1>0. (n + 1) - 1 = n /\ (n + i) - 1 = n + i - 1
  OBVIOUS
<1>1. \A j \in 1 .. len + 1 : Quiet(n + j, n + i - 1) <=> QuietT(j, i - 1)
  <2> SUFFICES ASSUME NEW j \in 1 .. len + 1
               PROVE  Quiet(n + j, n + i - 1) <=> QuietT(j, i - 1)
    OBVIOUS
  <2>1. ASSUME Quiet(n + j, n + i - 1), NEW m \in j .. i - 1 PROVE t[m] \notin Ends[mark]
    <3>1. n + m \in n + j .. n + i - 1 /\ m \in 1 .. len
      OBVIOUS
    <3> QED BY <2>1, <3>1
  <2>2. ASSUME QuietT(j, i - 1), NEW m \in n + j .. n + i - 1 PROVE u[m] \notin Ends[mark]
    <3>1. m - n \in j .. i - 1 /\ m - n \in 1 .. len /\ m = n + (m - n)
      OBVIOUS
    <3> QED BY <2>2, <3>1
  <2> QED BY <2>1, <2>2
<1>2. Open(u, p, n + i, mark) <=>
          \/ Open(u, p, n + 1, mark) /\ Quiet(n + 1, n + i - 1)
          \/ \E j \in n + 1 .. n + i - 1 : u[j] \in Begins[mark] /\ Quiet(j + 1, n + i - 1)
  <2>1. ASSUME Open(u, p, n + i, mark)
        PROVE  \/ Open(u, p, n + 1, mark) /\ Quiet(n + 1, n + i - 1)
               \/ \E j \in n + 1 .. n + i - 1 : u[j] \in Begins[mark] /\ Quiet(j + 1, n + i - 1)
    <3>1. CASE mark \in p /\ Quiet(1, n + i - 1)
      BY <3>1 DEF Open
    <3>2. ASSUME NEW j \in 1 .. n + i - 1, u[j] \in Begins[mark], Quiet(j + 1, n + i - 1)
          PROVE  \/ Open(u, p, n + 1, mark) /\ Quiet(n + 1, n + i - 1)
                 \/ \E k \in n + 1 .. n + i - 1 : /\ u[k] \in Begins[mark]
                                                  /\ Quiet(k + 1, n + i - 1)
      <4>1. CASE j \in 1 .. n
        <5>1. Quiet(j + 1, n) /\ Quiet(n + 1, n + i - 1)
          BY <3>2, <4>1
        <5> QED BY <1>0, <3>2, <4>1, <5>1 DEF Open
      <4>2. CASE j \in n + 1 .. n + i - 1
        BY <3>2, <4>2
      <4> QED BY <4>1, <4>2
    <3>3. \/ mark \in p /\ Quiet(1, n + i - 1)
          \/ \E j \in 1 .. n + i - 1 : u[j] \in Begins[mark] /\ Quiet(j + 1, n + i - 1)
      BY <1>0, <2>1 DEF Open
    <3> HIDE DEF Quiet
    <3> QED BY <3>1, <3>2, <3>3
  <2>2. ASSUME Open(u, p, n + 1, mark), Quiet(n + 1, n + i - 1)
        PROVE  Open(u, p, n + i, mark)
    <3>1. CASE mark \in p /\ Quiet(1, n)
      BY <2>2, <3>1 DEF Open
    <3>2. ASSUME NEW j \in 1 .. n, u[j] \in Begins[mark], Quiet(j + 1, n)
          PROVE  Open(u, p, n + i, mark)
      <4>1. j \in 1 .. n + i - 1 /\ Quiet(j + 1, n + i - 1)
        BY <2>2, <3>2
      <4> QED BY <1>0, <3>2, <4>1 DEF Open
    <3> QED BY <2>2, <3>1, <3>2 DEF Open
  <2>3. ASSUME NEW j \in n + 1 .. n + i - 1, u[j] \in Begins[mark], Quiet(j + 1, n + i - 1)
        PROVE  Open(u, p, n + i, mark)
    <3>1. j \in 1 .. n + i - 1
      OBVIOUS
    <3> QED BY <1>0, <2>3, <3>1 DEF Open
  <2> QED BY <2>1, <2>2, <2>3
<1>3. (\E j \in n + 1 .. n + i - 1 : u[j] \in Begins[mark] /\ Quiet(j + 1, n + i - 1)) <=>
      (\E j \in 1 .. i - 1 : t[j] \in Begins[mark] /\ QuietT(j + 1, i - 1))
  <2>1. ASSUME NEW j \in n + 1 .. n + i - 1, u[j] \in Begins[mark], Quiet(j + 1, n + i - 1)
        PROVE  \E k \in 1 .. i - 1 : t[k] \in Begins[mark] /\ QuietT(k + 1, i - 1)
    <3>1. /\ j - n \in 1 .. i - 1 /\ j - n \in 1 .. len /\ n + (j - n) = j
          /\ j - n + 1 \in 1 .. len + 1 /\ n + (j - n + 1) = j + 1
      OBVIOUS
    <3>2. t[j - n] \in Begins[mark] /\ QuietT(j - n + 1, i - 1)
      BY <1>1, <2>1, <3>1
    <3> QED BY <3>1, <3>2
  <2>2. ASSUME NEW j \in 1 .. i - 1, t[j] \in Begins[mark], QuietT(j + 1, i - 1)
        PROVE  \E k \in n + 1 .. n + i - 1 : u[k] \in Begins[mark] /\ Quiet(k + 1, n + i - 1)
    <3>1. /\ n + j \in n + 1 .. n + i - 1 /\ j \in 1 .. len /\ j + 1 \in 1 .. len + 1
          /\ n + (j + 1) = n + j + 1
      OBVIOUS
    <3>2. u[n + j] \in Begins[mark] /\ Quiet(n + j + 1, n + i - 1)
      BY <1>1, <2>2, <3>1
    <3> QED BY <3>1, <3>2
  <2> QED BY <2>1, <2>2
<1>4. 1 \in 1 .. len + 1
  OBVIOUS
<1> QED BY <1>1, <1>2, <1>3, <1>4 DEF Open

LEMMA FitsConcat ==
    ASSUME NEW s, NEW t, NEW p, NEW q, NEW r, Fits(s, p, q), Fits(t, q, r)
    PROVE  Fits(s \o t, p, r)
<1> DEFINE u == s \o t
           n == Len(s)
<1>1. /\ s \in Seq(Steps) /\ t \in Seq(Steps) /\ n \in Nat /\ Len(t) \in Nat
      /\ u \in Seq(Steps) /\ Len(u) = n + Len(t)
      /\ \A i \in 1 .. n : u[i] = s[i]
      /\ \A i \in 1 .. Len(t) : u[n + i] = t[i]
  BY ConcatProperties, LenProperties DEF Fits
<1>2. /\ p \subseteq Marks /\ Opened(s, p, n + 1) = q /\ Opened(t, q, Len(t) + 1) = r
      /\ \A i \in 1 .. n : Coherent(Opened(s, p, i)) /\ Allowed(s[i], Opened(s, p, i))
      /\ \A i \in 1 .. Len(t) : Coherent(Opened(t, q, i)) /\ Allowed(t[i], Opened(t, q, i))
  BY DEF Fits
<1> HIDE DEF u, n
<1>3. \A i \in 1 .. n + 1 : Opened(u, p, i) = Opened(s, p, i)
  BY <1>1, OpenPrefix DEF Opened
<1>4. \A i \in 1 .. Len(t) + 1 : Opened(u, p, n + i) = Opened(t, q, i)
  <2>1. Opened(u, p, n + 1) = q
    BY <1>1, <1>2, <1>3
  <2>2. \A mark \in Marks : Open(u, p, n + 1, mark) <=> mark \in q
    BY <2>1 DEF Opened
  <2> QED BY <1>1, <2>2, OpenSuffix DEF Opened
<1>5. ASSUME NEW i \in 1 .. n + Len(t)
      PROVE  Coherent(Opened(u, p, i)) /\ Allowed(u[i], Opened(u, p, i))
  <2>1. CASE i \in 1 .. n
    <3>1. Opened(u, p, i) = Opened(s, p, i) /\ u[i] = s[i]
      BY <1>1, <1>3, <2>1
    <3> QED BY <1>2, <2>1, <3>1
  <2>2. CASE i \in n + 1 .. n + Len(t)
    <3>1. i - n \in 1 .. Len(t) /\ n + (i - n) = i /\ i - n \in 1 .. Len(t) + 1
      BY <1>1, <2>2
    <3>2. Opened(u, p, i) = Opened(t, q, i - n) /\ u[i] = t[i - n]
      BY <1>1, <1>4, <3>1
    <3> QED BY <1>2, <3>1, <3>2
  <2> QED BY <1>1, <2>1, <2>2
<1>6. Opened(u, p, n + Len(t) + 1) = r
  <2>1. Len(t) + 1 \in 1 .. Len(t) + 1 /\ n + (Len(t) + 1) = n + Len(t) + 1
    BY <1>1
  <2> QED BY <1>2, <1>4, <2>1
<1>7. Fits(u, p, r)
  BY <1>1, <1>2, <1>5, <1>6 DEF Fits
<1> QED BY <1>7 DEF u

LEMMA Snoc ==
    ASSUME NEW S, NEW t \in Seq(S), NEW e \in S, NEW u \in Seq(S), Len(u) = Len(t) + 1,
           \A i \in 1 .. Len(t) : u[i] = t[i], u[Len(t) + 1] = e
    PROVE  u = t \o <<e>>
<1>1. <<e>> \in Seq(S) /\ Len(<<e>>) = 1 /\ <<e>>[1] = e /\ Len(t) \in Nat
  OBVIOUS
<1>2. /\ t \o <<e>> \in Seq(S) /\ Len(t \o <<e>>) = Len(t) + 1
      /\ \A i \in 1 .. Len(t) : (t \o <<e>>)[i] = t[i]
      /\ (t \o <<e>>)[Len(t) + 1] = e
  BY <1>1, ConcatProperties
<1> DEFINE v == t \o <<e>>
<1>3. v \in Seq(S) /\ Len(u) = Len(v) /\ \A i \in 1 .. Len(u) : u[i] = v[i]
  BY <1>1, <1>2
<1> HIDE DEF v
<1>4. u = v
  BY <1>3, SeqEqual
<1> QED BY <1>4 DEF v

LEMMA Tuples ==
    ASSUME NEW S, NEW a \in S, NEW b \in S, NEW c \in S, NEW d \in S
    PROVE  /\ <<a, b>> = <<a>> \o <<b>>
           /\ <<a, b, c>> = <<a, b>> \o <<c>>
           /\ <<a, b, c, d>> = <<a, b, c>> \o <<d>>
<1>1. <<a, b>> = <<a>> \o <<b>>
  <2> DEFINE t == <<a>>
             u == <<a, b>>
  <2>1. t \in Seq(S) /\ u \in Seq(S) /\ Len(t) = 1 /\ Len(u) = 2 /\ t[1] = a /\ u[1] = a /\ u[2] = b
    OBVIOUS
  <2> HIDE DEF t, u
  <2>2. Len(u) = Len(t) + 1 /\ (\A i \in 1 .. Len(t) : u[i] = t[i]) /\ u[Len(t) + 1] = b
    BY <2>1
  <2>3. u = t \o <<b>>
    BY <2>1, <2>2, Snoc
  <2> QED BY <2>3 DEF t, u
<1>2. <<a, b, c>> = <<a, b>> \o <<c>>
  <2> DEFINE t == <<a, b>>
             u == <<a, b, c>>
  <2>1. /\ t \in Seq(S) /\ u \in Seq(S) /\ Len(t) = 2 /\ Len(u) = 3
        /\ t[1] = a /\ t[2] = b /\ u[1] = a /\ u[2] = b /\ u[3] = c
    OBVIOUS
  <2> HIDE DEF t, u
  <2>2. Len(u) = Len(t) + 1 /\ (\A i \in 1 .. Len(t) : u[i] = t[i]) /\ u[Len(t) + 1] = c
    BY <2>1
  <2>3. u = t \o <<c>>
    BY <2>1, <2>2, Snoc
  <2> QED BY <2>3 DEF t, u
<1>3. <<a, b, c, d>> = <<a, b, c>> \o <<d>>
  <2> DEFINE t == <<a, b, c>>
             u == <<a, b, c, d>>
  <2>1. /\ t \in Seq(S) /\ u \in Seq(S) /\ Len(t) = 3 /\ Len(u) = 4
        /\ t[1] = a /\ t[2] = b /\ t[3] = c /\ u[1] = a /\ u[2] = b /\ u[3] = c /\ u[4] = d
    OBVIOUS
  <2> HIDE DEF t, u
  <2>2. Len(u) = Len(t) + 1 /\ (\A i \in 1 .. Len(t) : u[i] = t[i]) /\ u[Len(t) + 1] = d
    BY <2>1
  <2>3. u = t \o <<d>>
    BY <2>1, <2>2, Snoc
  <2> QED BY <2>3 DEF t, u
<1> QED BY <1>1, <1>2, <1>3


LEMMA FitsPair ==
    ASSUME NEW a \in Steps, NEW b \in Steps, NEW p, NEW q, NEW r,
           Fits(<<a>>, p, q), Fits(<<b>>, q, r)
    PROVE  Fits(<<a, b>>, p, r)
<1>1. <<a, b>> = <<a>> \o <<b>>
  BY Tuples
<1> QED BY <1>1, FitsConcat

LEMMA FitsTriple ==
    ASSUME NEW a \in Steps, NEW b \in Steps, NEW c \in Steps, NEW p, NEW q, NEW r,
           Fits(<<a, b>>, p, q), Fits(<<c>>, q, r)
    PROVE  Fits(<<a, b, c>>, p, r)
<1>1. <<a, b, c>> = <<a, b>> \o <<c>>
  BY Tuples
<1> QED BY <1>1, FitsConcat

LEMMA FitsQuadruple ==
    ASSUME NEW a \in Steps, NEW b \in Steps, NEW c \in Steps, NEW d \in Steps,
           NEW p, NEW q, NEW r, Fits(<<a, b, c>>, p, q), Fits(<<d>>, q, r)
    PROVE  Fits(<<a, b, c, d>>, p, r)
<1>1. <<a, b, c, d>> = <<a, b, c>> \o <<d>>
  BY Tuples
<1> QED BY <1>1, FitsConcat

LEMMA FitsEmpty == ASSUME NEW p, p \subseteq Marks PROVE Fits(<<>>, p, p)
  BY OpenedFirst DEF Fits

(* Where a script may be, as the marks that are set there. *)
PurgedMarks == {"silent"}
PurgedStopMarks == {"silent", "stop"}
UnregisteredMarks == {"unregistered", "silent"}
ReregisteredMarks == {"registered", "silent"}
ReadyMarks == {"registered"}
ReadyStopMarks == {"registered", "stop"}
TimedMarks == {"registered", "request", "unstopped", "uncompared", "timed"}
AskedMarks == {"registered", "request", "unstopped", "uncompared"}
StoppingMarks == {"registered", "request", "uncompared", "stop"}
AnsweredMarks == {"registered", "request", "uncompared"}
OverMarks == {"registered", "unstopped", "uncompared"}
UncomparedMarks == {"registered", "uncompared"}
HeldTimedMarks == {"registered", "request", "unstopped", "uncompared", "timed",
                   "held", "closed", "ungated"}
HeldAskedMarks == {"registered", "request", "unstopped", "uncompared", "held", "closed", "ungated"}
HeldStopMarks == {"registered", "request", "uncompared", "held", "closed", "ungated", "stop"}
AtGateMarks == {"registered", "request", "unstopped", "uncompared", "held", "closed", "gated"}
AtGateProbeMarks == {"registered", "request", "unstopped", "uncompared", "held",
                     "closed", "gated", "probe"}
WindowMarks == {"registered", "request", "uncompared", "held", "closed", "gated", "stop"}
WindowProbeMarks == {"registered", "request", "uncompared", "held", "closed",
                     "gated", "stop", "probe"}
ReleasedMarks == {"registered", "request", "uncompared", "held", "stop"}
ReleasedAnsweredMarks == {"registered", "request", "uncompared", "held"}
UnjudgedMarks == {"registered", "uncompared", "held"}

LEMMA FitsSnapshot == Fits(<< <<"snapshot">> >>, {}, {})
<1> DEFINE a == <<"snapshot">>
<1>1. Goes(a, {}, {})
  BY DEF Goes, Coherent, Allowed, After, Marks, Begins, Ends, Named, Steps, StepNames,
         Parameters
<1>2. a \in Steps
  BY <1>1 DEF Goes, Allowed
<1>3. /\ Fits(<<a>>, {}, {})
  BY <1>1, FitsOne
<1> HIDE DEF a
<1> QED BY <1>3 DEF a

LEMMA FitsPurge == Fits(<< <<"purge">> >>, {}, PurgedMarks)
<1> DEFINE a == <<"purge">>
<1>1. Goes(a, {}, PurgedMarks)
  BY DEF Goes, Coherent, Allowed, After, Marks, Begins, Ends, Named, Steps, StepNames,
         Parameters, PurgedMarks
<1>2. a \in Steps
  BY <1>1 DEF Goes, Allowed
<1>3. /\ Fits(<<a>>, {}, PurgedMarks)
  BY <1>1, FitsOne
<1> HIDE DEF a
<1> QED BY <1>3 DEF a

LEMMA FitsRefused ==
    Fits(<< <<"unregister">>, <<"refused">>, <<"register">>, <<"quiet">> >>,
         PurgedMarks, ReregisteredMarks)
<1> DEFINE a == <<"unregister">>
           b == <<"refused">>
           c == <<"register">>
           d == <<"quiet">>
<1>1. Goes(a, PurgedMarks, UnregisteredMarks)
  BY DEF Goes, Coherent, Allowed, After, Marks, Begins, Ends, Named, Steps, StepNames,
         Parameters, PurgedMarks, UnregisteredMarks
<1>2. Goes(b, UnregisteredMarks, UnregisteredMarks)
  BY DEF Goes, Coherent, Allowed, After, Marks, Begins, Ends, Named, Steps, StepNames,
         Parameters, UnregisteredMarks
<1>3. Goes(c, UnregisteredMarks, ReregisteredMarks)
  BY DEF Goes, Coherent, Allowed, After, Marks, Begins, Ends, Named, Steps, StepNames,
         Parameters, UnregisteredMarks, ReregisteredMarks
<1>4. Goes(d, ReregisteredMarks, ReregisteredMarks)
  BY DEF Goes, Coherent, Allowed, After, Marks, Begins, Ends, Named, Steps, StepNames,
         Parameters, ReregisteredMarks
<1>5. a \in Steps /\ b \in Steps /\ c \in Steps /\ d \in Steps
  BY <1>1, <1>2, <1>3, <1>4 DEF Goes, Allowed
<1>6. /\ Fits(<<a>>, PurgedMarks, UnregisteredMarks)
      /\ Fits(<<b>>, UnregisteredMarks, UnregisteredMarks)
      /\ Fits(<<c>>, UnregisteredMarks, ReregisteredMarks)
      /\ Fits(<<d>>, ReregisteredMarks, ReregisteredMarks)
  BY <1>1, <1>2, <1>3, <1>4, FitsOne
<1> HIDE DEF a, b, c, d
<1>7. Fits(<<a, b>>, PurgedMarks, UnregisteredMarks)
  BY <1>5, <1>6, FitsPair
<1>8. Fits(<<a, b, c>>, PurgedMarks, ReregisteredMarks)
  BY <1>5, <1>6, <1>7, FitsTriple
<1>9. Fits(<<a, b, c, d>>, PurgedMarks, ReregisteredMarks)
  BY <1>5, <1>6, <1>8, FitsQuadruple
<1> QED BY <1>9 DEF a, b, c, d

LEMMA FitsStop2A == Fits(Stop2A("OK"), AskedMarks, AnsweredMarks)
<1> DEFINE a == <<"stop">>
           b == <<"stopped", "OK">>
<1>1. Goes(a, AskedMarks, StoppingMarks)
  BY DEF Goes, Coherent, Allowed, After, Marks, Begins, Ends, Named, Steps, StepNames,
         Parameters, AskedMarks, StoppingMarks
<1>2. Goes(b, StoppingMarks, AnsweredMarks)
  BY DEF Goes, Coherent, Allowed, After, Marks, Begins, Ends, Named, Steps, StepNames,
         Parameters, StoppingMarks, AnsweredMarks
<1>3. a \in Steps /\ b \in Steps
  BY <1>1, <1>2 DEF Goes, Allowed
<1>4. /\ Fits(<<a>>, AskedMarks, StoppingMarks)
      /\ Fits(<<b>>, StoppingMarks, AnsweredMarks)
  BY <1>1, <1>2, FitsOne
<1> HIDE DEF a, b
<1>5. Fits(<<a, b>>, AskedMarks, AnsweredMarks)
  BY <1>3, <1>4, FitsPair
<1> QED BY <1>5 DEF a, b, Stop2A

LEMMA FitsIdle2A ==
    /\ Fits(Stop2A("EALREADY"), PurgedMarks, PurgedMarks)
    /\ Fits(Stop2A("EALREADY"), ReadyMarks, ReadyMarks)
<1> DEFINE a == <<"stop">>
           b == <<"stopped", "EALREADY">>
<1>1. Goes(a, PurgedMarks, PurgedStopMarks)
  BY DEF Goes, Coherent, Allowed, After, Marks, Begins, Ends, Named, Steps, StepNames,
         Parameters, PurgedMarks, PurgedStopMarks
<1>2. Goes(b, PurgedStopMarks, PurgedMarks)
  BY DEF Goes, Coherent, Allowed, After, Marks, Begins, Ends, Named, Steps, StepNames,
         Parameters, PurgedMarks, PurgedStopMarks
<1>3. Goes(a, ReadyMarks, ReadyStopMarks)
  BY DEF Goes, Coherent, Allowed, After, Marks, Begins, Ends, Named, Steps, StepNames,
         Parameters, ReadyMarks, ReadyStopMarks
<1>4. Goes(b, ReadyStopMarks, ReadyMarks)
  BY DEF Goes, Coherent, Allowed, After, Marks, Begins, Ends, Named, Steps, StepNames,
         Parameters, ReadyMarks, ReadyStopMarks
<1>5. a \in Steps /\ b \in Steps
  BY <1>1, <1>2, <1>3, <1>4 DEF Goes, Allowed
<1>6. /\ Fits(<<a>>, PurgedMarks, PurgedStopMarks)
      /\ Fits(<<b>>, PurgedStopMarks, PurgedMarks)
      /\ Fits(<<a>>, ReadyMarks, ReadyStopMarks)
      /\ Fits(<<b>>, ReadyStopMarks, ReadyMarks)
  BY <1>1, <1>2, <1>3, <1>4, FitsOne
<1> HIDE DEF a, b
<1>7. /\ Fits(<<a, b>>, PurgedMarks, PurgedMarks)
      /\ Fits(<<a, b>>, ReadyMarks, ReadyMarks)
  BY <1>5, <1>6, FitsPair
<1> QED BY <1>7 DEF a, b, Stop2A

LEMMA FitsAsk ==
    /\ Fits(Ask, AskedMarks, StoppingMarks)
    /\ Fits(Ask, ReadyMarks, ReadyStopMarks)
    /\ Fits(Ask, AtGateMarks, WindowMarks)
    /\ Fits(Ask, HeldAskedMarks, HeldStopMarks)
<1> DEFINE a == <<"stop">>
           b == <<"entered">>
<1>1. Goes(a, AskedMarks, StoppingMarks)
  BY DEF Goes, Coherent, Allowed, After, Marks, Begins, Ends, Named, Steps, StepNames,
         Parameters, AskedMarks, StoppingMarks
<1>2. Goes(b, StoppingMarks, StoppingMarks)
  BY DEF Goes, Coherent, Allowed, After, Marks, Begins, Ends, Named, Steps, StepNames,
         Parameters, StoppingMarks
<1>3. Goes(a, ReadyMarks, ReadyStopMarks)
  BY DEF Goes, Coherent, Allowed, After, Marks, Begins, Ends, Named, Steps, StepNames,
         Parameters, ReadyMarks, ReadyStopMarks
<1>4. Goes(b, ReadyStopMarks, ReadyStopMarks)
  BY DEF Goes, Coherent, Allowed, After, Marks, Begins, Ends, Named, Steps, StepNames,
         Parameters, ReadyStopMarks
<1>5. Goes(a, AtGateMarks, WindowMarks)
  BY DEF Goes, Coherent, Allowed, After, Marks, Begins, Ends, Named, Steps, StepNames,
         Parameters, AtGateMarks, WindowMarks
<1>6. Goes(b, WindowMarks, WindowMarks)
  BY DEF Goes, Coherent, Allowed, After, Marks, Begins, Ends, Named, Steps, StepNames,
         Parameters, WindowMarks
<1>7. Goes(a, HeldAskedMarks, HeldStopMarks)
  BY DEF Goes, Coherent, Allowed, After, Marks, Begins, Ends, Named, Steps, StepNames,
         Parameters, AskedMarks, HeldAskedMarks, HeldStopMarks
<1>8. Goes(b, HeldStopMarks, HeldStopMarks)
  BY DEF Goes, Coherent, Allowed, After, Marks, Begins, Ends, Named, Steps, StepNames,
         Parameters, HeldStopMarks
<1>9. a \in Steps /\ b \in Steps
  BY <1>1, <1>2, <1>3, <1>4, <1>5, <1>6, <1>7, <1>8 DEF Goes, Allowed
<1>10. /\ Fits(<<a>>, AskedMarks, StoppingMarks)
      /\ Fits(<<b>>, StoppingMarks, StoppingMarks)
      /\ Fits(<<a>>, ReadyMarks, ReadyStopMarks)
      /\ Fits(<<b>>, ReadyStopMarks, ReadyStopMarks)
      /\ Fits(<<a>>, AtGateMarks, WindowMarks)
      /\ Fits(<<b>>, WindowMarks, WindowMarks)
      /\ Fits(<<a>>, HeldAskedMarks, HeldStopMarks)
      /\ Fits(<<b>>, HeldStopMarks, HeldStopMarks)
  BY <1>1, <1>2, <1>3, <1>4, <1>5, <1>6, <1>7, <1>8, FitsOne
<1> HIDE DEF a, b
<1>11. /\ Fits(<<a, b>>, AskedMarks, StoppingMarks)
      /\ Fits(<<a, b>>, ReadyMarks, ReadyStopMarks)
      /\ Fits(<<a, b>>, AtGateMarks, WindowMarks)
      /\ Fits(<<a, b>>, HeldAskedMarks, HeldStopMarks)
  BY <1>9, <1>10, FitsPair
<1> QED BY <1>11 DEF a, b, Ask

LEMMA FitsStopped == Fits(<< <<"stopped", "OK">> >>, StoppingMarks, AnsweredMarks)
<1> DEFINE a == <<"stopped", "OK">>
<1>1. Goes(a, StoppingMarks, AnsweredMarks)
  BY DEF Goes, Coherent, Allowed, After, Marks, Begins, Ends, Named, Steps, StepNames,
         Parameters, StoppingMarks, AnsweredMarks
<1>2. a \in Steps
  BY <1>1 DEF Goes, Allowed
<1>3. /\ Fits(<<a>>, StoppingMarks, AnsweredMarks)
  BY <1>1, FitsOne
<1> HIDE DEF a
<1> QED BY <1>3 DEF a

LEMMA FitsFoundIdle == Fits(<< <<"stopped", "EALREADY">> >>, ReadyStopMarks, ReadyMarks)
<1> DEFINE a == <<"stopped", "EALREADY">>
<1>1. Goes(a, ReadyStopMarks, ReadyMarks)
  BY DEF Goes, Coherent, Allowed, After, Marks, Begins, Ends, Named, Steps, StepNames,
         Parameters, ReadyStopMarks, ReadyMarks
<1>2. a \in Steps
  BY <1>1 DEF Goes, Allowed
<1>3. /\ Fits(<<a>>, ReadyStopMarks, ReadyMarks)
  BY <1>1, FitsOne
<1> HIDE DEF a
<1> QED BY <1>3 DEF a

LEMMA FitsFinish ==
    /\ Fits(Finish, TimedMarks, OverMarks)
    /\ Fits(Finish, AnsweredMarks, UncomparedMarks)
    /\ Fits(Finish, ReleasedAnsweredMarks, UnjudgedMarks)
<1> DEFINE a == <<"terminal">>
           b == <<"idle">>
<1>1. Goes(a, TimedMarks, TimedMarks)
  BY DEF Goes, Coherent, Allowed, After, Marks, Begins, Ends, Named, Steps, StepNames,
         Parameters, TimedMarks
<1>2. Goes(b, TimedMarks, OverMarks)
  BY DEF Goes, Coherent, Allowed, After, Marks, Begins, Ends, Named, Steps, StepNames,
         Parameters, TimedMarks, OverMarks
<1>3. Goes(a, AnsweredMarks, AnsweredMarks)
  BY DEF Goes, Coherent, Allowed, After, Marks, Begins, Ends, Named, Steps, StepNames,
         Parameters, AnsweredMarks
<1>4. Goes(b, AnsweredMarks, UncomparedMarks)
  BY DEF Goes, Coherent, Allowed, After, Marks, Begins, Ends, Named, Steps, StepNames,
         Parameters, AnsweredMarks, UncomparedMarks
<1>5. Goes(a, ReleasedAnsweredMarks, ReleasedAnsweredMarks)
  BY DEF Goes, Coherent, Allowed, After, Marks, Begins, Ends, Named, Steps, StepNames,
         Parameters, AnsweredMarks, ReleasedAnsweredMarks
<1>6. Goes(b, ReleasedAnsweredMarks, UnjudgedMarks)
  BY DEF Goes, Coherent, Allowed, After, Marks, Begins, Ends, Named, Steps, StepNames,
         Parameters, AnsweredMarks, ReleasedAnsweredMarks, UnjudgedMarks
<1>7. a \in Steps /\ b \in Steps
  BY <1>1, <1>2, <1>3, <1>4, <1>5, <1>6 DEF Goes, Allowed
<1>8. /\ Fits(<<a>>, TimedMarks, TimedMarks)
      /\ Fits(<<b>>, TimedMarks, OverMarks)
      /\ Fits(<<a>>, AnsweredMarks, AnsweredMarks)
      /\ Fits(<<b>>, AnsweredMarks, UncomparedMarks)
      /\ Fits(<<a>>, ReleasedAnsweredMarks, ReleasedAnsweredMarks)
      /\ Fits(<<b>>, ReleasedAnsweredMarks, UnjudgedMarks)
  BY <1>1, <1>2, <1>3, <1>4, <1>5, <1>6, FitsOne
<1> HIDE DEF a, b
<1>9. /\ Fits(<<a, b>>, TimedMarks, OverMarks)
      /\ Fits(<<a, b>>, AnsweredMarks, UncomparedMarks)
      /\ Fits(<<a, b>>, ReleasedAnsweredMarks, UnjudgedMarks)
  BY <1>7, <1>8, FitsPair
<1> QED BY <1>9 DEF a, b, Finish

LEMMA FitsTimed == Fits(<< <<"start", "ENROLL_TIMEOUT">> >>, ReregisteredMarks, TimedMarks)
<1> DEFINE a == <<"start", "ENROLL_TIMEOUT">>
<1>1. Goes(a, ReregisteredMarks, TimedMarks)
  BY DEF Goes, Coherent, Allowed, After, Marks, Begins, Ends, Named, Steps, StepNames,
         Parameters, ReregisteredMarks, TimedMarks
<1>2. a \in Steps
  BY <1>1 DEF Goes, Allowed
<1>3. /\ Fits(<<a>>, ReregisteredMarks, TimedMarks)
  BY <1>1, FitsOne
<1> HIDE DEF a
<1> QED BY <1>3 DEF a

LEMMA FitsOnce == Fits(<< <<"start", "ONCE_NO_SAMPLE">> >>, ReadyMarks, TimedMarks)
<1> DEFINE a == <<"start", "ONCE_NO_SAMPLE">>
<1>1. Goes(a, ReadyMarks, TimedMarks)
  BY DEF Goes, Coherent, Allowed, After, Marks, Begins, Ends, Named, Steps, StepNames,
         Parameters, ReadyMarks, TimedMarks
<1>2. a \in Steps
  BY <1>1 DEF Goes, Allowed
<1>3. /\ Fits(<<a>>, ReadyMarks, TimedMarks)
  BY <1>1, FitsOne
<1> HIDE DEF a
<1> QED BY <1>3 DEF a

LEMMA FitsEnroll == Fits(<< <<"start", "CANCEL_ENROLL">> >>, ReadyMarks, AskedMarks)
<1> DEFINE a == <<"start", "CANCEL_ENROLL">>
<1>1. Goes(a, ReadyMarks, AskedMarks)
  BY DEF Goes, Coherent, Allowed, After, Marks, Begins, Ends, Named, Steps, StepNames,
         Parameters, ReadyMarks, AskedMarks
<1>2. a \in Steps
  BY <1>1 DEF Goes, Allowed
<1>3. /\ Fits(<<a>>, ReadyMarks, AskedMarks)
  BY <1>1, FitsOne
<1> HIDE DEF a
<1> QED BY <1>3 DEF a

LEMMA FitsIdentify ==
    /\ Fits(<< <<"start", "CANCEL_IDENTIFY">> >>, ReadyMarks, AskedMarks)
    /\ Fits(<< <<"start", "CANCEL_IDENTIFY">> >>, OverMarks, AskedMarks)
    /\ Fits(<< <<"start", "CANCEL_IDENTIFY">> >>, UncomparedMarks, AskedMarks)
<1> DEFINE a == <<"start", "CANCEL_IDENTIFY">>
<1>1. Goes(a, ReadyMarks, AskedMarks)
  BY DEF Goes, Coherent, Allowed, After, Marks, Begins, Ends, Named, Steps, StepNames,
         Parameters, ReadyMarks, AskedMarks
<1>2. Goes(a, OverMarks, AskedMarks)
  BY DEF Goes, Coherent, Allowed, After, Marks, Begins, Ends, Named, Steps, StepNames,
         Parameters, AskedMarks, OverMarks
<1>3. Goes(a, UncomparedMarks, AskedMarks)
  BY DEF Goes, Coherent, Allowed, After, Marks, Begins, Ends, Named, Steps, StepNames,
         Parameters, AskedMarks, UncomparedMarks
<1>4. a \in Steps
  BY <1>1, <1>2, <1>3 DEF Goes, Allowed
<1>5. /\ Fits(<<a>>, ReadyMarks, AskedMarks)
      /\ Fits(<<a>>, OverMarks, AskedMarks)
      /\ Fits(<<a>>, UncomparedMarks, AskedMarks)
  BY <1>1, <1>2, <1>3, FitsOne
<1> HIDE DEF a
<1> QED BY <1>5 DEF a

LEMMA FitsUnchanged == Fits(<< <<"unchanged">> >>, UncomparedMarks, ReadyMarks)
<1> DEFINE a == <<"unchanged">>
<1>1. Goes(a, UncomparedMarks, ReadyMarks)
  BY DEF Goes, Coherent, Allowed, After, Marks, Begins, Ends, Named, Steps, StepNames,
         Parameters, UncomparedMarks, ReadyMarks
<1>2. a \in Steps
  BY <1>1 DEF Goes, Allowed
<1>3. /\ Fits(<<a>>, UncomparedMarks, ReadyMarks)
  BY <1>1, FitsOne
<1> HIDE DEF a
<1> QED BY <1>3 DEF a

LEMMA FitsBusy == Fits(Busy2A, AskedMarks, AskedMarks)
<1> DEFINE a == <<"busy", "ENROLL">>
           b == <<"busy", "IDENTIFY">>
           c == <<"busy", "REGISTER">>
           d == <<"busy", "LIST">>
<1>1. Goes(a, AskedMarks, AskedMarks)
  BY DEF Goes, Coherent, Allowed, After, Marks, Begins, Ends, Named, Steps, StepNames,
         Parameters, AskedMarks
<1>2. Goes(b, AskedMarks, AskedMarks)
  BY DEF Goes, Coherent, Allowed, After, Marks, Begins, Ends, Named, Steps, StepNames,
         Parameters, AskedMarks
<1>3. Goes(c, AskedMarks, AskedMarks)
  BY DEF Goes, Coherent, Allowed, After, Marks, Begins, Ends, Named, Steps, StepNames,
         Parameters, AskedMarks
<1>4. Goes(d, AskedMarks, AskedMarks)
  BY DEF Goes, Coherent, Allowed, After, Marks, Begins, Ends, Named, Steps, StepNames,
         Parameters, AskedMarks
<1>5. a \in Steps /\ b \in Steps /\ c \in Steps /\ d \in Steps
  BY <1>1, <1>2, <1>3, <1>4 DEF Goes, Allowed
<1>6. /\ Fits(<<a>>, AskedMarks, AskedMarks)
      /\ Fits(<<b>>, AskedMarks, AskedMarks)
      /\ Fits(<<c>>, AskedMarks, AskedMarks)
      /\ Fits(<<d>>, AskedMarks, AskedMarks)
  BY <1>1, <1>2, <1>3, <1>4, FitsOne
<1> HIDE DEF a, b, c, d
<1>7. Fits(<<a, b>>, AskedMarks, AskedMarks)
  BY <1>5, <1>6, FitsPair
<1>8. Fits(<<a, b, c>>, AskedMarks, AskedMarks)
  BY <1>5, <1>6, <1>7, FitsTriple
<1>9. Fits(<<a, b, c, d>>, AskedMarks, AskedMarks)
  BY <1>5, <1>6, <1>8, FitsQuadruple
<1> QED BY <1>9 DEF a, b, c, d, Busy2A

LEMMA FitsEnrollProbe ==
    /\ Fits(Probe("ENROLL"), AtGateMarks, AtGateMarks)
    /\ Fits(Probe("ENROLL"), WindowMarks, WindowMarks)
<1> DEFINE a == <<"probe", "ENROLL">>
           b == <<"probed">>
<1>1. Goes(a, AtGateMarks, AtGateProbeMarks)
  BY DEF Goes, Coherent, Allowed, After, Marks, Begins, Ends, Named, Steps, StepNames,
         Parameters, AtGateMarks, AtGateProbeMarks
<1>2. Goes(b, AtGateProbeMarks, AtGateMarks)
  BY DEF Goes, Coherent, Allowed, After, Marks, Begins, Ends, Named, Steps, StepNames,
         Parameters, AtGateMarks, AtGateProbeMarks
<1>3. Goes(a, WindowMarks, WindowProbeMarks)
  BY DEF Goes, Coherent, Allowed, After, Marks, Begins, Ends, Named, Steps, StepNames,
         Parameters, WindowMarks, WindowProbeMarks
<1>4. Goes(b, WindowProbeMarks, WindowMarks)
  BY DEF Goes, Coherent, Allowed, After, Marks, Begins, Ends, Named, Steps, StepNames,
         Parameters, WindowMarks, WindowProbeMarks
<1>5. a \in Steps /\ b \in Steps
  BY <1>1, <1>2, <1>3, <1>4 DEF Goes, Allowed
<1>6. /\ Fits(<<a>>, AtGateMarks, AtGateProbeMarks)
      /\ Fits(<<b>>, AtGateProbeMarks, AtGateMarks)
      /\ Fits(<<a>>, WindowMarks, WindowProbeMarks)
      /\ Fits(<<b>>, WindowProbeMarks, WindowMarks)
  BY <1>1, <1>2, <1>3, <1>4, FitsOne
<1> HIDE DEF a, b
<1>7. /\ Fits(<<a, b>>, AtGateMarks, AtGateMarks)
      /\ Fits(<<a, b>>, WindowMarks, WindowMarks)
  BY <1>5, <1>6, FitsPair
<1> QED BY <1>7 DEF a, b, Probe

LEMMA FitsIdentifyProbe ==
    /\ Fits(Probe("IDENTIFY"), AtGateMarks, AtGateMarks)
    /\ Fits(Probe("IDENTIFY"), WindowMarks, WindowMarks)
<1> DEFINE a == <<"probe", "IDENTIFY">>
           b == <<"probed">>
<1>1. Goes(a, AtGateMarks, AtGateProbeMarks)
  BY DEF Goes, Coherent, Allowed, After, Marks, Begins, Ends, Named, Steps, StepNames,
         Parameters, AtGateMarks, AtGateProbeMarks
<1>2. Goes(b, AtGateProbeMarks, AtGateMarks)
  BY DEF Goes, Coherent, Allowed, After, Marks, Begins, Ends, Named, Steps, StepNames,
         Parameters, AtGateMarks, AtGateProbeMarks
<1>3. Goes(a, WindowMarks, WindowProbeMarks)
  BY DEF Goes, Coherent, Allowed, After, Marks, Begins, Ends, Named, Steps, StepNames,
         Parameters, WindowMarks, WindowProbeMarks
<1>4. Goes(b, WindowProbeMarks, WindowMarks)
  BY DEF Goes, Coherent, Allowed, After, Marks, Begins, Ends, Named, Steps, StepNames,
         Parameters, WindowMarks, WindowProbeMarks
<1>5. a \in Steps /\ b \in Steps
  BY <1>1, <1>2, <1>3, <1>4 DEF Goes, Allowed
<1>6. /\ Fits(<<a>>, AtGateMarks, AtGateProbeMarks)
      /\ Fits(<<b>>, AtGateProbeMarks, AtGateMarks)
      /\ Fits(<<a>>, WindowMarks, WindowProbeMarks)
      /\ Fits(<<b>>, WindowProbeMarks, WindowMarks)
  BY <1>1, <1>2, <1>3, <1>4, FitsOne
<1> HIDE DEF a, b
<1>7. /\ Fits(<<a, b>>, AtGateMarks, AtGateMarks)
      /\ Fits(<<a, b>>, WindowMarks, WindowMarks)
  BY <1>5, <1>6, FitsPair
<1> QED BY <1>7 DEF a, b, Probe

LEMMA FitsRegisterProbe ==
    /\ Fits(Probe("REGISTER"), AtGateMarks, AtGateMarks)
    /\ Fits(Probe("REGISTER"), WindowMarks, WindowMarks)
<1> DEFINE a == <<"probe", "REGISTER">>
           b == <<"probed">>
<1>1. Goes(a, AtGateMarks, AtGateProbeMarks)
  BY DEF Goes, Coherent, Allowed, After, Marks, Begins, Ends, Named, Steps, StepNames,
         Parameters, AtGateMarks, AtGateProbeMarks
<1>2. Goes(b, AtGateProbeMarks, AtGateMarks)
  BY DEF Goes, Coherent, Allowed, After, Marks, Begins, Ends, Named, Steps, StepNames,
         Parameters, AtGateMarks, AtGateProbeMarks
<1>3. Goes(a, WindowMarks, WindowProbeMarks)
  BY DEF Goes, Coherent, Allowed, After, Marks, Begins, Ends, Named, Steps, StepNames,
         Parameters, WindowMarks, WindowProbeMarks
<1>4. Goes(b, WindowProbeMarks, WindowMarks)
  BY DEF Goes, Coherent, Allowed, After, Marks, Begins, Ends, Named, Steps, StepNames,
         Parameters, WindowMarks, WindowProbeMarks
<1>5. a \in Steps /\ b \in Steps
  BY <1>1, <1>2, <1>3, <1>4 DEF Goes, Allowed
<1>6. /\ Fits(<<a>>, AtGateMarks, AtGateProbeMarks)
      /\ Fits(<<b>>, AtGateProbeMarks, AtGateMarks)
      /\ Fits(<<a>>, WindowMarks, WindowProbeMarks)
      /\ Fits(<<b>>, WindowProbeMarks, WindowMarks)
  BY <1>1, <1>2, <1>3, <1>4, FitsOne
<1> HIDE DEF a, b
<1>7. /\ Fits(<<a, b>>, AtGateMarks, AtGateMarks)
      /\ Fits(<<a, b>>, WindowMarks, WindowMarks)
  BY <1>5, <1>6, FitsPair
<1> QED BY <1>7 DEF a, b, Probe

LEMMA FitsListProbe ==
    /\ Fits(Probe("LIST"), AtGateMarks, AtGateMarks)
    /\ Fits(Probe("LIST"), WindowMarks, WindowMarks)
<1> DEFINE a == <<"probe", "LIST">>
           b == <<"probed">>
<1>1. Goes(a, AtGateMarks, AtGateProbeMarks)
  BY DEF Goes, Coherent, Allowed, After, Marks, Begins, Ends, Named, Steps, StepNames,
         Parameters, AtGateMarks, AtGateProbeMarks
<1>2. Goes(b, AtGateProbeMarks, AtGateMarks)
  BY DEF Goes, Coherent, Allowed, After, Marks, Begins, Ends, Named, Steps, StepNames,
         Parameters, AtGateMarks, AtGateProbeMarks
<1>3. Goes(a, WindowMarks, WindowProbeMarks)
  BY DEF Goes, Coherent, Allowed, After, Marks, Begins, Ends, Named, Steps, StepNames,
         Parameters, WindowMarks, WindowProbeMarks
<1>4. Goes(b, WindowProbeMarks, WindowMarks)
  BY DEF Goes, Coherent, Allowed, After, Marks, Begins, Ends, Named, Steps, StepNames,
         Parameters, WindowMarks, WindowProbeMarks
<1>5. a \in Steps /\ b \in Steps
  BY <1>1, <1>2, <1>3, <1>4 DEF Goes, Allowed
<1>6. /\ Fits(<<a>>, AtGateMarks, AtGateProbeMarks)
      /\ Fits(<<b>>, AtGateProbeMarks, AtGateMarks)
      /\ Fits(<<a>>, WindowMarks, WindowProbeMarks)
      /\ Fits(<<b>>, WindowProbeMarks, WindowMarks)
  BY <1>1, <1>2, <1>3, <1>4, FitsOne
<1> HIDE DEF a, b
<1>7. /\ Fits(<<a, b>>, AtGateMarks, AtGateMarks)
      /\ Fits(<<a, b>>, WindowMarks, WindowMarks)
  BY <1>5, <1>6, FitsPair
<1> QED BY <1>7 DEF a, b, Probe

LEMMA FitsStopProbe == Fits(Probe("STOP"), WindowMarks, WindowMarks)
<1> DEFINE a == <<"probe", "STOP">>
           b == <<"probed">>
<1>1. Goes(a, WindowMarks, WindowProbeMarks)
  BY DEF Goes, Coherent, Allowed, After, Marks, Begins, Ends, Named, Steps, StepNames,
         Parameters, WindowMarks, WindowProbeMarks
<1>2. Goes(b, WindowProbeMarks, WindowMarks)
  BY DEF Goes, Coherent, Allowed, After, Marks, Begins, Ends, Named, Steps, StepNames,
         Parameters, WindowMarks, WindowProbeMarks
<1>3. a \in Steps /\ b \in Steps
  BY <1>1, <1>2 DEF Goes, Allowed
<1>4. /\ Fits(<<a>>, WindowMarks, WindowProbeMarks)
      /\ Fits(<<b>>, WindowProbeMarks, WindowMarks)
  BY <1>1, <1>2, FitsOne
<1> HIDE DEF a, b
<1>5. Fits(<<a, b>>, WindowMarks, WindowMarks)
  BY <1>3, <1>4, FitsPair
<1> QED BY <1>5 DEF a, b, Probe

LEMMA FitsRegister == Fits(<< <<"snapshot">>, <<"register">> >>, {}, ReadyMarks)
<1> DEFINE a == <<"snapshot">>
           b == <<"register">>
<1>1. Goes(a, {}, {})
  BY DEF Goes, Coherent, Allowed, After, Marks, Begins, Ends, Named, Steps, StepNames,
         Parameters
<1>2. Goes(b, {}, ReadyMarks)
  BY DEF Goes, Coherent, Allowed, After, Marks, Begins, Ends, Named, Steps, StepNames,
         Parameters, ReadyMarks
<1>3. a \in Steps /\ b \in Steps
  BY <1>1, <1>2 DEF Goes, Allowed
<1>4. /\ Fits(<<a>>, {}, {})
      /\ Fits(<<b>>, {}, ReadyMarks)
  BY <1>1, <1>2, FitsOne
<1> HIDE DEF a, b
<1>5. Fits(<<a, b>>, {}, ReadyMarks)
  BY <1>3, <1>4, FitsPair
<1> QED BY <1>5 DEF a, b

LEMMA FitsNatural == Fits(<< <<"hold", "ENROLL_TIMEOUT">>, <<"gate">> >>, ReadyMarks, AtGateMarks)
<1> DEFINE a == <<"hold", "ENROLL_TIMEOUT">>
           b == <<"gate">>
<1>1. Goes(a, ReadyMarks, HeldTimedMarks)
  BY DEF Goes, Coherent, Allowed, After, Marks, Begins, Ends, Named, Steps, StepNames,
         Parameters, ReadyMarks, HeldTimedMarks
<1>2. Goes(b, HeldTimedMarks, AtGateMarks)
  BY DEF Goes, Coherent, Allowed, After, Marks, Begins, Ends, Named, Steps, StepNames,
         Parameters, HeldTimedMarks, AtGateMarks
<1>3. a \in Steps /\ b \in Steps
  BY <1>1, <1>2 DEF Goes, Allowed
<1>4. /\ Fits(<<a>>, ReadyMarks, HeldTimedMarks)
      /\ Fits(<<b>>, HeldTimedMarks, AtGateMarks)
  BY <1>1, <1>2, FitsOne
<1> HIDE DEF a, b
<1>5. Fits(<<a, b>>, ReadyMarks, AtGateMarks)
  BY <1>3, <1>4, FitsPair
<1> QED BY <1>5 DEF a, b

LEMMA FitsHold == Fits(<< <<"hold", "CANCEL_IDENTIFY">> >>, ReadyMarks, HeldAskedMarks)
<1> DEFINE a == <<"hold", "CANCEL_IDENTIFY">>
<1>1. Goes(a, ReadyMarks, HeldAskedMarks)
  BY DEF Goes, Coherent, Allowed, After, Marks, Begins, Ends, Named, Steps, StepNames,
         Parameters, ReadyMarks, HeldAskedMarks
<1>2. a \in Steps
  BY <1>1 DEF Goes, Allowed
<1>3. /\ Fits(<<a>>, ReadyMarks, HeldAskedMarks)
  BY <1>1, FitsOne
<1> HIDE DEF a
<1> QED BY <1>3 DEF a

LEMMA FitsGate == Fits(<< <<"gate">> >>, HeldStopMarks, WindowMarks)
<1> DEFINE a == <<"gate">>
<1>1. Goes(a, HeldStopMarks, WindowMarks)
  BY DEF Goes, Coherent, Allowed, After, Marks, Begins, Ends, Named, Steps, StepNames,
         Parameters, HeldStopMarks, WindowMarks
<1>2. a \in Steps
  BY <1>1 DEF Goes, Allowed
<1>3. /\ Fits(<<a>>, HeldStopMarks, WindowMarks)
  BY <1>1, FitsOne
<1> HIDE DEF a
<1> QED BY <1>3 DEF a

LEMMA FitsRelease ==
    Fits(<< <<"window">>, <<"release">>, <<"stopped", "OK">> >>, WindowMarks, ReleasedAnsweredMarks)
<1> DEFINE a == <<"window">>
           b == <<"release">>
           c == <<"stopped", "OK">>
<1>1. Goes(a, WindowMarks, WindowMarks)
  BY DEF Goes, Coherent, Allowed, After, Marks, Begins, Ends, Named, Steps, StepNames,
         Parameters, WindowMarks
<1>2. Goes(b, WindowMarks, ReleasedMarks)
  BY DEF Goes, Coherent, Allowed, After, Marks, Begins, Ends, Named, Steps, StepNames,
         Parameters, WindowMarks, ReleasedMarks
<1>3. Goes(c, ReleasedMarks, ReleasedAnsweredMarks)
  BY DEF Goes, Coherent, Allowed, After, Marks, Begins, Ends, Named, Steps, StepNames,
         Parameters, ReleasedMarks, ReleasedAnsweredMarks
<1>4. a \in Steps /\ b \in Steps /\ c \in Steps
  BY <1>1, <1>2, <1>3 DEF Goes, Allowed
<1>5. /\ Fits(<<a>>, WindowMarks, WindowMarks)
      /\ Fits(<<b>>, WindowMarks, ReleasedMarks)
      /\ Fits(<<c>>, ReleasedMarks, ReleasedAnsweredMarks)
  BY <1>1, <1>2, <1>3, FitsOne
<1> HIDE DEF a, b, c
<1>6. Fits(<<a, b>>, WindowMarks, ReleasedMarks)
  BY <1>4, <1>5, FitsPair
<1>7. Fits(<<a, b, c>>, WindowMarks, ReleasedAnsweredMarks)
  BY <1>4, <1>5, <1>6, FitsTriple
<1> QED BY <1>7 DEF a, b, c

LEMMA FitsMarkers == Fits(<< <<"markers">> >>, UnjudgedMarks, UncomparedMarks)
<1> DEFINE a == <<"markers">>
<1>1. Goes(a, UnjudgedMarks, UncomparedMarks)
  BY DEF Goes, Coherent, Allowed, After, Marks, Begins, Ends, Named, Steps, StepNames,
         Parameters, UnjudgedMarks, UncomparedMarks
<1>2. a \in Steps
  BY <1>1 DEF Goes, Allowed
<1>3. /\ Fits(<<a>>, UnjudgedMarks, UncomparedMarks)
  BY <1>1, FitsOne
<1> HIDE DEF a
<1> QED BY <1>3 DEF a

LEMMA FitsProbes == Fits(Probes, AtGateMarks, AtGateMarks) /\ Fits(Probes, WindowMarks, WindowMarks)
  BY FitsEnrollProbe, FitsIdentifyProbe, FitsRegisterProbe, FitsListProbe, FitsConcat DEF Probes

LEMMA FitsRecovery ==
    ASSUME NEW stops, NEW finds_idle, NEW p, Fits(stops, AskedMarks, AnsweredMarks),
           Fits(finds_idle, ReadyMarks, ReadyMarks),
           Fits(<< <<"start", "CANCEL_IDENTIFY">> >>, p, AskedMarks)
    PROVE  Fits(Recovery(stops, finds_idle), p, ReadyMarks)
<1> DEFINE a == << <<"start", "CANCEL_IDENTIFY">> >>
           b == << <<"unchanged">> >>
<1>1. Fits(a, p, AskedMarks) /\ Fits(b, UncomparedMarks, ReadyMarks)
  BY FitsUnchanged
<1>2. Recovery(stops, finds_idle) = a \o stops \o Finish \o b \o finds_idle
  BY DEF Recovery
<1> HIDE DEF a, b
<1>3. Fits(a \o stops, p, AnsweredMarks)
  BY <1>1, FitsConcat
<1>4. Fits(a \o stops \o Finish, p, UncomparedMarks)
  BY <1>3, FitsFinish, FitsConcat
<1>5. Fits(a \o stops \o Finish \o b, p, ReadyMarks)
  BY <1>1, <1>4, FitsConcat
<1> QED BY <1>2, <1>5, FitsConcat

LEMMA FitsRejections == Fits(rejections, {}, ReregisteredMarks)
<1> DEFINE a == << <<"purge">> >>
           b == << <<"unregister">>, <<"refused">>, <<"register">>, <<"quiet">> >>
<1>1. Fits(a, {}, PurgedMarks) /\ Fits(b, PurgedMarks, ReregisteredMarks)
  BY FitsPurge, FitsRefused
<1>2. rejections = a \o Stop2A("EALREADY") \o b
  BY DEF rejections
<1> HIDE DEF a, b
<1>3. Fits(a \o Stop2A("EALREADY"), {}, PurgedMarks)
  BY <1>1, FitsIdle2A, FitsConcat
<1> QED BY <1>1, <1>2, <1>3, FitsConcat

LEMMA FitsRunCase ==
    ASSUME NEW expect, NEW asks, NEW p, NEW q, NEW r, NEW t,
           Fits(<< <<"start", expect>> >>, p, q), Fits(asks, q, r), Fits(Finish, r, t),
           t \in {OverMarks, UncomparedMarks}
    PROVE  Fits(run_case(expect, asks), p, ReadyMarks)
<1> DEFINE a == << <<"start", expect>> >>
           b == Recovery(Stop2A("OK"), Stop2A("EALREADY"))
<1>1. run_case(expect, asks) = a \o asks \o Finish \o b /\ Fits(a, p, q)
  BY DEF run_case
<1>2. Fits(b, t, ReadyMarks)
  BY FitsRecovery, FitsStop2A, FitsIdle2A, FitsIdentify
<1> HIDE DEF a, b
<1>3. Fits(a \o asks, p, r)
  BY <1>1, FitsConcat
<1>4. Fits(a \o asks \o Finish, p, t)
  BY <1>3, FitsConcat
<1> QED BY <1>1, <1>2, <1>4, FitsConcat

LEMMA FitsT2 == Fits(T2, {}, ReadyMarks)
<1> DEFINE a == << <<"snapshot">> >>
           b == run_case("ENROLL_TIMEOUT", <<>>)
           c == run_case("ONCE_NO_SAMPLE", <<>>)
           d == run_case("CANCEL_ENROLL", Stop2A("OK"))
           e == run_case("CANCEL_IDENTIFY", Busy2A \o Stop2A("OK"))
<1>1. T2 = a \o rejections \o b \o c \o d \o e
  BY DEF T2
<1>2. Fits(a, {}, {})
  BY FitsSnapshot
<1>3. Fits(<<>>, TimedMarks, TimedMarks)
  BY FitsEmpty DEF TimedMarks, Marks, Begins
<1>4. Fits(b, ReregisteredMarks, ReadyMarks) /\ Fits(c, ReadyMarks, ReadyMarks)
  BY <1>3, FitsRunCase, FitsTimed, FitsOnce, FitsFinish
<1>5. Fits(d, ReadyMarks, ReadyMarks)
  BY FitsRunCase, FitsEnroll, FitsStop2A, FitsFinish
<1>6. Fits(Busy2A \o Stop2A("OK"), AskedMarks, AnsweredMarks)
  BY FitsBusy, FitsStop2A, FitsConcat
<1>7. Fits(e, ReadyMarks, ReadyMarks)
  BY <1>6, FitsRunCase, FitsIdentify, FitsFinish
<1> HIDE DEF a, b, c, d, e
<1>8. Fits(a \o rejections, {}, ReregisteredMarks)
  BY <1>2, FitsRejections, FitsConcat
<1>9. Fits(a \o rejections \o b, {}, ReadyMarks)
  BY <1>4, <1>8, FitsConcat
<1>10. Fits(a \o rejections \o b \o c, {}, ReadyMarks)
  BY <1>4, <1>9, FitsConcat
<1>11. Fits(a \o rejections \o b \o c \o d, {}, ReadyMarks)
  BY <1>5, <1>10, FitsConcat
<1> QED BY <1>1, <1>7, <1>11, FitsConcat

LEMMA FitsHeld == Fits(held_callback, WindowMarks, ReadyMarks)
<1> DEFINE a == << <<"window">>, <<"release">>, <<"stopped", "OK">> >>
           b == << <<"markers">> >>
           c == Recovery(Stop2B("OK"), Stop2B("EALREADY"))
<1>1. held_callback = Probe("STOP") \o a \o Finish \o b \o c
  BY DEF held_callback
<1>2. Fits(a, WindowMarks, ReleasedAnsweredMarks) /\ Fits(b, UnjudgedMarks, UncomparedMarks)
  BY FitsRelease, FitsMarkers
<1>3. /\ Fits(Stop2B("OK"), AskedMarks, AnsweredMarks)
      /\ Fits(Stop2B("EALREADY"), ReadyMarks, ReadyMarks)
  BY FitsAsk, FitsStopped, FitsFoundIdle, FitsConcat DEF Stop2B
<1>4. Fits(c, UncomparedMarks, ReadyMarks)
  BY <1>3, FitsRecovery, FitsIdentify
<1> HIDE DEF a, b, c
<1>5. Fits(Probe("STOP") \o a, WindowMarks, ReleasedAnsweredMarks)
  BY <1>2, FitsStopProbe, FitsConcat
<1>6. Fits(Probe("STOP") \o a \o Finish, WindowMarks, UnjudgedMarks)
  BY <1>5, FitsFinish, FitsConcat
<1>7. Fits(Probe("STOP") \o a \o Finish \o b, WindowMarks, UncomparedMarks)
  BY <1>2, <1>6, FitsConcat
<1> QED BY <1>1, <1>4, <1>7, FitsConcat

LEMMA FitsT2B == Fits(T2B, {}, ReadyMarks)
<1> DEFINE a == << <<"snapshot">>, <<"register">> >>
           b == << <<"hold", "ENROLL_TIMEOUT">>, <<"gate">> >>
           c == << <<"hold", "CANCEL_IDENTIFY">> >>
           d == << <<"gate">> >>
<1>1. /\ T2B = a \o natural_terminal \o cancel_terminal
      /\ natural_terminal = b \o Probes \o Ask \o held_callback
      /\ cancel_terminal = c \o Ask \o d \o Probes \o held_callback
  BY DEF T2B, natural_terminal, cancel_terminal
<1>2. /\ Fits(a, {}, ReadyMarks) /\ Fits(b, ReadyMarks, AtGateMarks)
      /\ Fits(c, ReadyMarks, HeldAskedMarks) /\ Fits(d, HeldStopMarks, WindowMarks)
  BY FitsRegister, FitsNatural, FitsHold, FitsGate
<1> HIDE DEF a, b, c, d
<1>3. Fits(natural_terminal, ReadyMarks, ReadyMarks)
  <2>1. Fits(b \o Probes, ReadyMarks, AtGateMarks)
    BY <1>2, FitsProbes, FitsConcat
  <2>2. Fits(b \o Probes \o Ask, ReadyMarks, WindowMarks)
    BY <2>1, FitsAsk, FitsConcat
  <2> QED BY <1>1, <2>2, FitsHeld, FitsConcat
<1>4. Fits(cancel_terminal, ReadyMarks, ReadyMarks)
  <2>1. Fits(c \o Ask, ReadyMarks, HeldStopMarks)
    BY <1>2, FitsAsk, FitsConcat
  <2>2. Fits(c \o Ask \o d, ReadyMarks, WindowMarks)
    BY <1>2, <2>1, FitsConcat
  <2>3. Fits(c \o Ask \o d \o Probes, ReadyMarks, WindowMarks)
    BY <2>2, FitsProbes, FitsConcat
  <2> QED BY <1>1, <2>3, FitsHeld, FitsConcat
<1>5. Fits(a \o natural_terminal, {}, ReadyMarks)
  BY <1>2, <1>3, FitsConcat
<1> QED BY <1>1, <1>4, <1>5, FitsConcat

(* Both scripts fit, and are not empty: with no mark before their first step they *)
(* leave one.                                                                     *)
LEMMA FitsScript ==
    ASSUME test \in {"t2", "t2b"}
    PROVE  Fits(script, {}, ReadyMarks) /\ Len(script) \in Nat \ {0}
<1>1. script = T2 \/ script = T2B
  BY DEF script, Script
<1>2. Fits(script, {}, ReadyMarks)
  BY <1>1, FitsT2, FitsT2B
<1>3. script \in Seq(Steps) /\ Len(script) \in Nat
  BY <1>2, LenProperties DEF Fits
<1>4. ASSUME Len(script) = 0 PROVE FALSE
  <2>1. Opened(script, {}, 1) = ReadyMarks
    BY <1>2, <1>4 DEF Fits
  <2>2. Opened(script, {}, 1) = {}
    BY OpenedFirst
  <2> QED BY <2>1, <2>2 DEF ReadyMarks
<1> QED BY <1>2, <1>3, <1>4
-----------------------------------------------------------------------------
(***************************************************************************)
(* The steps of the shell thread, as the scripts order them.               *)
(***************************************************************************)

LEMMA NamedSteps ==
    ASSUME NEW a \in Steps, NEW names
    PROVE  a \in Named(names) <=> a[1] \in names
<1>1. \/ \E n \in StepNames : a = <<n>>
      \/ \E n \in StepNames, x \in Parameters : a = <<n, x>>
  BY DEF Steps
<1>2. CASE \E n \in StepNames : a = <<n>>
  BY <1>2 DEF Named
<1>3. CASE \E n \in StepNames, x \in Parameters : a = <<n, x>>
  BY <1>3 DEF Named
<1> QED BY <1>1, <1>2, <1>3

LEMMA AfterMarks ==
    ASSUME NEW a \in Steps, NEW o, NEW q, q = After(o, a)
    PROVE  /\ "stop" \in q <=> a[1] = "stop" \/ ("stop" \in o /\ a[1] # "stopped")
           /\ "probe" \in q <=> a[1] = "probe" \/ ("probe" \in o /\ a[1] # "probed")
           /\ "request" \in q <=> a[1] \in {"start", "hold"} \/ ("request" \in o /\ a[1] # "idle")
           /\ "unstopped" \in q <=> \/ a[1] \in {"start", "hold"}
                                    \/ "unstopped" \in o /\ a[1] # "stop"
           /\ "uncompared" \in q <=> \/ a[1] \in {"start", "hold"}
                                     \/ "uncompared" \in o /\ a[1] # "unchanged"
           /\ "timed" \in q <=>
                  \/ /\ a[1] \in {"start", "hold"}
                     /\ a \in StepNames \X {"ENROLL_TIMEOUT", "ONCE_NO_SAMPLE"}
                  \/ "timed" \in o /\ a[1] \notin {"gate", "idle"}
           /\ "held" \in q <=> a[1] = "hold" \/ ("held" \in o /\ a[1] # "markers")
           /\ "closed" \in q <=> a[1] = "hold" \/ ("closed" \in o /\ a[1] # "release")
           /\ "ungated" \in q <=> a[1] = "hold" \/ ("ungated" \in o /\ a[1] # "gate")
           /\ "gated" \in q <=> a[1] = "gate" \/ ("gated" \in o /\ a[1] # "release")
           /\ "registered" \in q <=> \/ a[1] = "register"
                                     \/ "registered" \in o /\ a[1] # "unregister"
           /\ "unregistered" \in q <=> \/ a[1] = "unregister"
                                       \/ "unregistered" \in o /\ a[1] # "register"
           /\ "silent" \in q <=> \/ a[1] = "purge"
                                 \/ "silent" \in o /\ a[1] \notin {"start", "hold"}
<1>1. \A m \in Marks : m \in q <=> a \in Begins[m] \/ (m \in o /\ a \notin Ends[m])
  BY DEF After
<1>2. a \in {"start", "hold"} \X {"ENROLL_TIMEOUT", "ONCE_NO_SAMPLE"} <=>
          a[1] \in {"start", "hold"} /\ a \in StepNames \X {"ENROLL_TIMEOUT", "ONCE_NO_SAMPLE"}
  BY DEF StepNames
<1>3. \A names : a \in Named(names) <=> a[1] \in names
  BY NamedSteps
<1> QED BY <1>1, <1>2, <1>3 DEF Marks, Begins, Ends

(* What the script says of the step that comes next. *)
LEMMA NextStep ==
    ASSUME AtStep, at > 0
    PROVE  ~test_halted /\ Coherent(opened) /\ Allowed(script[at], opened) /\ script[at] \in Steps
<1>1. Fits(script, {}, ReadyMarks) /\ at \in 1 .. Len(script) /\ ~test_halted
  BY FitsScript DEF AtStep
<1>2. Coherent(opened) /\ Allowed(script[at], opened)
  BY <1>1 DEF Fits, opened
<1> QED BY <1>1, <1>2 DEF Allowed

LEMMA MarksCohere == ASSUME AtStep PROVE Coherent(opened)
<1>1. CASE at > 0
  BY <1>1, NextStep
<1>2. CASE at = 0
  BY <1>2 DEF opened, Coherent
<1>3. Len(script) \in Nat
  BY FitsScript DEF AtStep
<1> QED BY <1>1, <1>2, <1>3 DEF AtStep

(* A step that succeeds sets and removes marks; after the last one none is set. *)
LEMMA Advance ==
    ASSUME AtStep, at > 0, Continue, UNCHANGED test
    PROVE  /\ AtStep' /\ ~test_halted'
           /\ "registered" \in opened' => "registered" \in After(opened, script[at])
           /\ \A m \in Marks \ {"registered"} : m \in opened' <=> m \in After(opened, script[at])
<1>1. /\ Fits(script, {}, ReadyMarks) /\ Len(script) \in Nat /\ at \in 1 .. Len(script)
      /\ test \in {"t2", "t2b"} /\ script' = script /\ ~test_halted
  BY FitsScript DEF AtStep, script
<1>2. AtStep' /\ ~test_halted'
  BY <1>1 DEF AtStep, Continue
<1>3. Opened(script, {}, at + 1) = After(opened, script[at])
  BY <1>1, OpenedNext DEF opened
<1>4. CASE at < Len(script)
  <2>1. at' = at + 1 /\ opened' = Opened(script, {}, at + 1)
    BY <1>1, <1>4 DEF Continue, opened
  <2> QED BY <1>2, <1>3, <2>1
<1>5. CASE at = Len(script)
  <2>1. at' = 0 /\ opened' = {}
    BY <1>1, <1>5 DEF Continue, opened
  <2>2. After(opened, script[at]) = {"registered"}
    BY <1>1, <1>3, <1>5 DEF Fits, ReadyMarks
  <2> QED BY <1>2, <2>1, <2>2
<1> QED BY <1>1, <1>4, <1>5

LEMMA Stays ==
    ASSUME UNCHANGED <<at, test, test_halted, verdict>>
    PROVE  (AtStep' <=> AtStep) /\ opened' = opened
  BY DEF AtStep, opened, script

LEMMA Halts ==
    ASSUME AtStep, HaltTest, UNCHANGED test
    PROVE  AtStep' /\ test_halted' /\ opened' = {}
<1>1. Len(script) \in Nat
  BY FitsScript DEF AtStep
<1> QED BY <1>1 DEF AtStep, HaltTest, script, opened

(* The same, mark by mark. *)
LEMMA MarksNext ==
    ASSUME AtStep, at > 0, Continue, UNCHANGED test
    PROVE  LET a == script[at] IN
           /\ AtStep' /\ ~test_halted'
           /\ "stop" \in opened' <=> a[1] = "stop" \/ ("stop" \in opened /\ a[1] # "stopped")
           /\ "probe" \in opened' <=> a[1] = "probe" \/ ("probe" \in opened /\ a[1] # "probed")
           /\ "request" \in opened' <=> \/ a[1] \in {"start", "hold"}
                                        \/ "request" \in opened /\ a[1] # "idle"
           /\ "unstopped" \in opened' <=> \/ a[1] \in {"start", "hold"}
                                          \/ "unstopped" \in opened /\ a[1] # "stop"
           /\ "uncompared" \in opened' <=> \/ a[1] \in {"start", "hold"}
                                           \/ "uncompared" \in opened /\ a[1] # "unchanged"
           /\ "timed" \in opened' <=>
                  \/ /\ a[1] \in {"start", "hold"}
                     /\ a \in StepNames \X {"ENROLL_TIMEOUT", "ONCE_NO_SAMPLE"}
                  \/ "timed" \in opened /\ a[1] \notin {"gate", "idle"}
           /\ "held" \in opened' <=> a[1] = "hold" \/ ("held" \in opened /\ a[1] # "markers")
           /\ "closed" \in opened' <=> a[1] = "hold" \/ ("closed" \in opened /\ a[1] # "release")
           /\ "ungated" \in opened' <=> a[1] = "hold" \/ ("ungated" \in opened /\ a[1] # "gate")
           /\ "gated" \in opened' <=> a[1] = "gate" \/ ("gated" \in opened /\ a[1] # "release")
           /\ "registered" \in opened' => \/ a[1] = "register"
                                          \/ "registered" \in opened /\ a[1] # "unregister"
           /\ "unregistered" \in opened' <=> \/ a[1] = "unregister"
                                             \/ "unregistered" \in opened /\ a[1] # "register"
           /\ "silent" \in opened' <=> \/ a[1] = "purge"
                                       \/ "silent" \in opened /\ a[1] \notin {"start", "hold"}
<1> DEFINE a == script[at]
           q == After(opened, a)
<1>1. a \in Steps
  BY NextStep
<1>2. /\ AtStep' /\ ~test_halted'
      /\ "registered" \in opened' => "registered" \in q
      /\ \A m \in Marks \ {"registered"} : m \in opened' <=> m \in q
  BY Advance
<1> HIDE DEF a, q
<1>3. /\ "stop" \in opened' <=> "stop" \in q
      /\ "probe" \in opened' <=> "probe" \in q
      /\ "request" \in opened' <=> "request" \in q
      /\ "unstopped" \in opened' <=> "unstopped" \in q
      /\ "uncompared" \in opened' <=> "uncompared" \in q
      /\ "timed" \in opened' <=> "timed" \in q
      /\ "held" \in opened' <=> "held" \in q
      /\ "closed" \in opened' <=> "closed" \in q
      /\ "ungated" \in opened' <=> "ungated" \in q
      /\ "gated" \in opened' <=> "gated" \in q
      /\ "unregistered" \in opened' <=> "unregistered" \in q
      /\ "silent" \in opened' <=> "silent" \in q
  BY <1>2 DEF Marks, Begins
<1>4. q = After(opened, a)
  BY DEF q
<1> QED BY <1>1, <1>2, <1>3, <1>4, AfterMarks DEF a

helperVars == <<st, stop_request, stop_done, stop_for,
                pr, probe_request, probe_done, probe_for, asked>>
LEMMA TraceTyped ==
    ASSUME delivered \in Seq(EventValues), delivered' \in {delivered, <<>>}
    PROVE  delivered' \in Seq(EventValues)
<1>1. <<>> \in Seq(EventValues)
  BY EmptySeq
<1> QED BY <1>1

(* Most steps of the script: they set and remove no mark that matters here, or they fail. *)
LEMMA OtherSteps ==
    ASSUME LifecycleIInv, at > 0, UNCHANGED <<test, cb, event, outcome, helperVars>>,
           NEW ok \in BOOLEAN, Check(ok),
           phase' = phase \/ (phase' = "active" /\ ~ok),
           delivered' \in {delivered, <<>>},
           ok => script[at][1] \notin {"stop", "stopped", "probe", "probed", "start", "hold",
                                        "idle"}
    PROVE  LifecycleIInv'
<1>0. delivered' \in Seq(EventValues) /\ (phase' = "idle" => phase = "idle")
  BY TraceTyped DEF LifecycleIInv, CallbackRuns
<1>1. CASE ok
  <2>1. Continue /\ phase' = phase
    BY <1>1 DEF Check
  <2>2. /\ AtStep' /\ ~test_halted'
        /\ "stop" \in opened' <=> "stop" \in opened
        /\ "probe" \in opened' <=> "probe" \in opened
        /\ "request" \in opened' <=> "request" \in opened
    BY <1>1, <2>1, MarksNext DEF LifecycleIInv
  <2>3. ~test_halted
    BY NextStep DEF LifecycleIInv
  <2>4. CallbackRuns'
    BY <2>1, <1>0 DEF LifecycleIInv, CallbackRuns
  <2>5. HelpersFollow'
    BY <2>2, <2>3 DEF LifecycleIInv, HelpersFollow, helperVars
  <2>6. RequestsEnd'
    BY <2>1, <2>2, <2>3 DEF LifecycleIInv, RequestsEnd
  <2> QED BY <2>2, <2>4, <2>5, <2>6 DEF LifecycleIInv
<1>2. CASE ~ok
  <2>1. AtStep' /\ test_halted'
    BY <1>2, Halts DEF Check, LifecycleIInv
  <2>2. CallbackRuns'
    BY <1>0 DEF LifecycleIInv, CallbackRuns
  <2>3. HelpersFollow'
    BY <2>1 DEF LifecycleIInv, HelpersFollow, helperVars
  <2>4. RequestsEnd'
    BY <2>1 DEF RequestsEnd
  <2> QED BY <2>1, <2>2, <2>3, <2>4 DEF LifecycleIInv
<1> QED BY <1>1, <1>2

LEMMA ShellKeeps ==
    ASSUME LifecycleIInv, \/ Purge \/ Refused \/ Registers \/ StaysQuiet \/ Lists \/ StopEntered
                          \/ GateEntered \/ GateWindow \/ release_gate \/ TerminalSeen
                          \/ Markers \/ WatchdogFires
    PROVE  LifecycleIInv'
<1> USE DEF contractVars, driverVars, stopVars, probeVars, runVars, helperVars
<1>1. CASE Purge
  <2>1. /\ at > 0 /\ UNCHANGED <<test, cb, event, outcome, helperVars>>
        /\ delivered' \in {delivered, <<>>}
        /\ Check(TRUE)
        /\ phase' = phase /\ script[at][1] = "purge"
    BY <1>1 DEF Purge, Step, Check
  <2> QED BY <2>1, OtherSteps
<1>2. CASE Refused
  <2>1. /\ at > 0 /\ UNCHANGED <<test, cb, event, outcome, helperVars>>
        /\ delivered' \in {delivered, <<>>}
        /\ script[at][1] \in {"refused", "busy"}
        /\ \E ok \in BOOLEAN : Check(ok) /\ (phase' = phase \/ (phase' = "active" /\ ~ok))
    <3>1. PICK r \in Results :
              IF Step("busy") THEN Call(Parameter, r) /\ Verify(r = "EBUSY")
              ELSE (Call("ENROLL", r) \/ Call("IDENTIFY", r)) /\ Verify(r = "EINVAL")
      BY <1>2 DEF Refused
    <3>2. /\ UNCHANGED <<event, outcome>> /\ delivered' \in {delivered, <<>>}
          /\ phase' = phase \/ (phase' = "active" /\ r = "OK")
      BY <3>1 DEF Call, Request, Register, List, Contract!Accept, Contract!SetCallback
    <3>3. Check(r = "EBUSY") \/ Check(r = "EINVAL")
      BY <3>1 DEF Verify
    <3>4. \E ok \in BOOLEAN : Check(ok) /\ (phase' = phase \/ (phase' = "active" /\ ~ok))
      BY <3>2, <3>3
    <3> QED BY <1>2, <3>2, <3>4 DEF Refused, Step
  <2> QED BY <2>1, OtherSteps
<1>3. CASE Registers
  <2>1. /\ at > 0 /\ UNCHANGED <<test, cb, event, outcome, helperVars>>
        /\ delivered' \in {delivered, <<>>}
        /\ phase' = phase
        /\ script[at][1] \in {"register", "unregister"} /\ \E ok \in BOOLEAN : Check(ok)
    BY <1>3 DEF Registers, Step, Register, Contract!SetCallback, Verify
  <2> QED BY <2>1, OtherSteps
<1>4. CASE StaysQuiet
  <2>1. /\ at > 0 /\ UNCHANGED <<test, cb, event, outcome, helperVars>>
        /\ delivered' \in {delivered, <<>>}
        /\ phase' = phase
        /\ script[at][1] = "quiet" /\ \E ok \in BOOLEAN : Check(ok)
    BY <1>4 DEF StaysQuiet, Step, Verify
  <2> QED BY <2>1, OtherSteps
<1>5. CASE Lists
  <2>1. /\ at > 0 /\ UNCHANGED <<test, cb, event, outcome, helperVars>>
        /\ delivered' \in {delivered, <<>>}
        /\ phase' = phase
        /\ script[at][1] \in {"snapshot", "unchanged"} /\ \E ok \in BOOLEAN : Check(ok)
    BY <1>5 DEF Lists, List, Step, Verify
  <2> QED BY <2>1, OtherSteps
<1>6. CASE StopEntered
  <2>1. /\ at > 0 /\ UNCHANGED <<test, cb, event, outcome, helperVars>>
        /\ delivered' \in {delivered, <<>>}
        /\ phase' = phase
        /\ script[at][1] = "entered" /\ Check(TRUE)
    BY <1>6 DEF StopEntered, Step, Check
  <2> QED BY <2>1, OtherSteps
<1>7. CASE GateEntered
  <2>1. /\ at > 0 /\ UNCHANGED <<test, cb, event, outcome, helperVars>>
        /\ delivered' \in {delivered, <<>>}
        /\ phase' = phase
        /\ script[at][1] = "gate" /\ \E ok \in BOOLEAN : Check(ok)
    BY <1>7 DEF GateEntered, Step
  <2> QED BY <2>1, OtherSteps
<1>8. CASE GateWindow
  <2>1. /\ at > 0 /\ UNCHANGED <<test, cb, event, outcome, helperVars>>
        /\ delivered' \in {delivered, <<>>}
        /\ phase' = phase
        /\ script[at][1] = "window" /\ \E ok \in BOOLEAN : Check(ok)
    BY <1>8 DEF GateWindow, Step, Verify
  <2> QED BY <2>1, OtherSteps
<1>9. CASE release_gate
  <2>1. /\ at > 0 /\ UNCHANGED <<test, cb, event, outcome, helperVars>>
        /\ delivered' \in {delivered, <<>>}
        /\ phase' = phase
        /\ script[at][1] = "release" /\ Check(TRUE)
    BY <1>9 DEF release_gate, Step, Check
  <2> QED BY <2>1, OtherSteps
<1>10. CASE TerminalSeen
  <2>1. /\ at > 0 /\ UNCHANGED <<test, cb, event, outcome, helperVars>>
        /\ delivered' \in {delivered, <<>>}
        /\ phase' = phase
        /\ script[at][1] = "terminal" /\ Check(TRUE)
    BY <1>10 DEF TerminalSeen, Step, Check
  <2> QED BY <2>1, OtherSteps
<1>11. CASE Markers
  <2>1. /\ at > 0 /\ UNCHANGED <<test, cb, event, outcome, helperVars>>
        /\ delivered' \in {delivered, <<>>}
        /\ phase' = phase
        /\ script[at][1] = "markers" /\ \E ok \in BOOLEAN : Check(ok)
    BY <1>11 DEF Markers, Step, Verify
  <2> QED BY <2>1, OtherSteps
<1>12. CASE WatchdogFires
  <2>1. /\ at > 0 /\ UNCHANGED <<test, cb, event, outcome, helperVars>>
        /\ delivered' \in {delivered, <<>>}
        /\ phase' = phase /\ Check(FALSE)
    BY <1>12 DEF WatchdogFires, Step, Verify
  <2> QED BY <2>1, OtherSteps
<1> QED BY <1>1, <1>2, <1>3, <1>4, <1>5, <1>6, <1>7, <1>8, <1>9, <1>10, <1>11, <1>12

LEMMA StopKeeps == ASSUME LifecycleIInv, Stop PROVE LifecycleIInv'
<1>1. /\ AtStep /\ at > 0 /\ script[at][1] = "stop" /\ Continue
      /\ UNCHANGED <<test, phase, cb, event, outcome, delivered>>
  BY DEF Stop, Step, LifecycleIInv, runVars, driverVars, contractVars
<1>2. ~test_halted /\ "stop" \notin opened
  BY <1>1, NextStep DEF Allowed
<1>3. /\ AtStep' /\ ~test_halted' /\ "stop" \in opened'
      /\ "probe" \in opened' <=> "probe" \in opened
      /\ "request" \in opened' <=> "request" \in opened
  BY <1>1, MarksNext
<1>4. CallbackRuns' /\ RequestsEnd'
  BY <1>1, <1>2, <1>3 DEF LifecycleIInv, CallbackRuns, RequestsEnd
<1>5. st = "waits" /\ UNCHANGED <<st, pr, probe_request, probe_done, probe_for>> /\ stop_done' = 0
  BY <1>2 DEF LifecycleIInv, HelpersFollow, Stop, probeVars
<1>6. asked' \in [stop : Nat, probe : Nat] /\ asked'.probe = asked.probe
  BY DEF LifecycleIInv, HelpersFollow, Stop
<1>7. HelpersFollow'
  BY <1>2, <1>3, <1>5, <1>6 DEF LifecycleIInv, HelpersFollow, Stop
<1> QED BY <1>3, <1>4, <1>7 DEF LifecycleIInv

LEMMA ProbeAsksKeeps == ASSUME LifecycleIInv, ProbeAsks PROVE LifecycleIInv'
<1>1. /\ AtStep /\ at > 0 /\ script[at][1] = "probe" /\ Continue
      /\ UNCHANGED <<test, phase, cb, event, outcome, delivered>>
  BY DEF ProbeAsks, Step, LifecycleIInv, runVars, driverVars, contractVars
<1>2. ~test_halted /\ "probe" \notin opened
  BY <1>1, NextStep DEF Allowed
<1>3. /\ AtStep' /\ ~test_halted' /\ "probe" \in opened'
      /\ "stop" \in opened' <=> "stop" \in opened
      /\ "request" \in opened' <=> "request" \in opened
  BY <1>1, MarksNext
<1>4. CallbackRuns' /\ RequestsEnd'
  BY <1>1, <1>2, <1>3 DEF LifecycleIInv, CallbackRuns, RequestsEnd
<1>5. pr = "waits" /\ UNCHANGED <<pr, st, stop_request, stop_done, stop_for>> /\ probe_done' = 0
  BY <1>2 DEF LifecycleIInv, HelpersFollow, ProbeAsks, stopVars
<1>6. asked' \in [stop : Nat, probe : Nat] /\ asked'.stop = asked.stop
  BY DEF LifecycleIInv, HelpersFollow, ProbeAsks
<1>7. HelpersFollow'
  BY <1>2, <1>3, <1>5, <1>6 DEF LifecycleIInv, HelpersFollow, ProbeAsks
<1> QED BY <1>3, <1>4, <1>7 DEF LifecycleIInv

(* A step that takes a done token, starts a request or sees the device idle. *)
LEMMA MarkKeeps ==
    ASSUME LifecycleIInv, Stopped \/ Probed \/ start_operation \/ Quiescent
    PROVE  LifecycleIInv'
<1>1. AtStep /\ at > 0 /\ UNCHANGED <<test, cb, asked>> /\ ~test_halted
  <2>1. AtStep /\ at > 0 /\ UNCHANGED <<test, cb, asked>>
    BY DEF Stopped, Probed, start_operation, Quiescent, Step, LifecycleIInv, runVars
  <2> QED BY <2>1, NextStep
<1>2. ASSUME HaltTest, UNCHANGED <<event, outcome>>, delivered' \in {delivered, <<>>},
             phase' = phase \/ phase' = "active",
             UNCHANGED <<st, stop_request, stop_for, pr, probe_request, probe_for>>,
             stop_done' \in {0, stop_done}, probe_done' \in {0, probe_done}
      PROVE  LifecycleIInv'
  <2>1. AtStep' /\ test_halted'
    BY <1>1, <1>2, Halts
  <2>2. CallbackRuns'
    BY <1>1, <1>2, TraceTyped DEF LifecycleIInv, CallbackRuns
  <2>3. HelpersFollow'
    BY <1>1, <1>2, <2>1 DEF LifecycleIInv, HelpersFollow
  <2> QED BY <2>1, <2>2, <2>3 DEF LifecycleIInv, RequestsEnd
<1>3. CASE Stopped
  <2>1. /\ script[at][1] = "stopped" /\ stop_done = 1 /\ stop_done' = 0
        /\ UNCHANGED <<phase, event, outcome, delivered, st, stop_request, stop_for,
                       pr, probe_request, probe_done, probe_for>>
        /\ Continue \/ HaltTest
    BY <1>3 DEF Stopped, Step, Verify, Check, driverVars, contractVars, probeVars
  <2>2. CASE HaltTest
    BY <1>2, <2>1, <2>2
  <2>3. CASE Continue
    <3>1. /\ AtStep' /\ ~test_halted' /\ "stop" \notin opened'
          /\ "probe" \in opened' <=> "probe" \in opened
          /\ "request" \in opened' <=> "request" \in opened
      BY <1>1, <2>1, <2>3, MarksNext
    <3>2. CallbackRuns' /\ RequestsEnd'
      BY <1>1, <2>1, <3>1, TraceTyped DEF LifecycleIInv, CallbackRuns, RequestsEnd
    <3>3. HelpersFollow'
      BY <1>1, <2>1, <3>1 DEF LifecycleIInv, HelpersFollow
    <3> QED BY <3>1, <3>2, <3>3 DEF LifecycleIInv
  <2> QED BY <2>1, <2>2, <2>3
<1>4. CASE Probed
  <2>1. /\ script[at][1] = "probed" /\ probe_done = 1 /\ probe_done' = 0
        /\ UNCHANGED <<phase, event, outcome, delivered, st, stop_request, stop_done, stop_for,
                       pr, probe_request, probe_for>>
        /\ Continue \/ HaltTest
    BY <1>4 DEF Probed, Step, Verify, Check, driverVars, contractVars, stopVars
  <2>2. CASE HaltTest
    BY <1>2, <2>1, <2>2
  <2>3. CASE Continue
    <3>1. /\ AtStep' /\ ~test_halted' /\ "probe" \notin opened'
          /\ "stop" \in opened' <=> "stop" \in opened
          /\ "request" \in opened' <=> "request" \in opened
      BY <1>1, <2>1, <2>3, MarksNext
    <3>2. CallbackRuns' /\ RequestsEnd'
      BY <1>1, <2>1, <3>1, TraceTyped DEF LifecycleIInv, CallbackRuns, RequestsEnd
    <3>3. HelpersFollow'
      BY <1>1, <2>1, <3>1 DEF LifecycleIInv, HelpersFollow
    <3> QED BY <3>1, <3>2, <3>3 DEF LifecycleIInv
  <2> QED BY <2>1, <2>2, <2>3
<1>5. CASE start_operation
  <2>1. /\ script[at][1] \in {"start", "hold"}
        /\ phase' = phase \/ phase' = "active"
        /\ outcome' = outcome /\ delivered' \in {delivered, <<>>}
        /\ UNCHANGED <<event, st, stop_request, stop_done, stop_for,
                       pr, probe_request, probe_done, probe_for>>
        /\ Continue \/ HaltTest
    BY <1>5 DEF start_operation, Step, Check, Request, Contract!Accept, contractVars, stopVars,
                probeVars
  <2>2. CASE HaltTest
    BY <1>2, <2>1, <2>2
  <2>3. CASE Continue
    <3>1. /\ AtStep' /\ ~test_halted' /\ "request" \in opened'
          /\ "stop" \in opened' <=> "stop" \in opened
          /\ "probe" \in opened' <=> "probe" \in opened
      BY <1>1, <2>1, <2>3, MarksNext
    <3>2. CallbackRuns' /\ RequestsEnd'
      BY <1>1, <2>1, <3>1, TraceTyped DEF LifecycleIInv, CallbackRuns, RequestsEnd
    <3>3. HelpersFollow'
      BY <1>1, <2>1, <3>1 DEF LifecycleIInv, HelpersFollow
    <3> QED BY <3>1, <3>2, <3>3 DEF LifecycleIInv
  <2> QED BY <2>1, <2>2, <2>3
<1>6. CASE Quiescent
  <2>1. /\ script[at][1] = "idle" /\ phase = "idle"
        /\ UNCHANGED <<phase, event, outcome, delivered, st, stop_request, stop_done, stop_for,
                       pr, probe_request, probe_done, probe_for>>
        /\ Continue \/ HaltTest
    BY <1>6 DEF Quiescent, Step, Verify, Check, Register, Busy, Contract!SetCallback, stopVars,
                probeVars
  <2>2. CASE HaltTest
    BY <1>2, <2>1, <2>2
  <2>3. CASE Continue
    <3>1. /\ AtStep' /\ ~test_halted' /\ "request" \notin opened'
          /\ "stop" \in opened' <=> "stop" \in opened
          /\ "probe" \in opened' <=> "probe" \in opened
      BY <1>1, <2>1, <2>3, MarksNext
    <3>2. CallbackRuns' /\ RequestsEnd'
      BY <1>1, <2>1, <3>1, TraceTyped DEF LifecycleIInv, CallbackRuns, RequestsEnd
    <3>3. HelpersFollow'
      BY <1>1, <2>1, <3>1 DEF LifecycleIInv, HelpersFollow
    <3> QED BY <3>1, <3>2, <3>3 DEF LifecycleIInv
  <2> QED BY <2>1, <2>2, <2>3
<1> QED BY <1>3, <1>4, <1>5, <1>6

LEMMA LifecycleStarts == LifecycleInit => LifecycleIInv
<1> SUFFICES ASSUME LifecycleInit PROVE LifecycleIInv
  OBVIOUS
<1>1. test \in {"t2", "t2b"} /\ Len(script) \in Nat
  BY LifecycleAssumption, FitsScript DEF LifecycleInit
<1>2. AtStep
  BY <1>1 DEF LifecycleInit, AtStep
<1>3. CallbackRuns
  BY EmptySeq DEF LifecycleInit, CallbackRuns, Contract!Init, Contract!Errnos
<1>4. HelpersFollow
  BY DEF LifecycleInit, HelpersFollow, opened
<1>5. RequestsEnd
  BY DEF LifecycleInit, RequestsEnd, Contract!Init
<1> QED BY <1>2, <1>3, <1>4, <1>5 DEF LifecycleIInv

LEMMA CommandKeeps == ASSUME LifecycleIInv, cmd_run PROVE LifecycleIInv'
<1>1. /\ at = 0 /\ at' = 1 /\ ~test_halted /\ test \in {"t2", "t2b"}
      /\ UNCHANGED <<test, test_halted, phase, event, outcome, cb, helperVars>>
  BY DEF cmd_run, LifecycleIInv, AtStep, contractVars, stopVars, probeVars, helperVars
<1>2. Len(script) \in Nat \ {0} /\ script' = script
  BY <1>1, FitsScript DEF script
<1>3. opened = {} /\ opened' = {}
  <2>1. Opened(script, {}, 1) = {}
    BY OpenedFirst
  <2> QED BY <1>1, <1>2, <2>1 DEF opened
<1>4. verdict' = "none" /\ verdict' # "PASS" /\ verdict' # "FAIL" /\ delivered' = delivered
  BY DEF cmd_run
<1>5. AtStep'
  BY <1>1, <1>2, <1>4 DEF AtStep
<1>6. CallbackRuns' /\ RequestsEnd'
  BY <1>1, <1>3, <1>4 DEF LifecycleIInv, CallbackRuns, RequestsEnd
<1>7. HelpersFollow'
  BY <1>1, <1>3 DEF LifecycleIInv, HelpersFollow, helperVars
<1> QED BY <1>5, <1>6, <1>7 DEF LifecycleIInv

LEMMA StopperKeeps == ASSUME LifecycleIInv, Stopper PROVE LifecycleIInv'
<1>1. /\ UNCHANGED <<at, test, test_halted, verdict, asked, event, outcome, delivered, cb, phase,
                     pr, probe_request, probe_done, probe_for>>
      /\ \/ st = "waits" /\ stop_request = 1 /\ st' = "calls" /\ stop_request' = 0
            /\ stop_for' = asked.stop /\ stop_done' = stop_done
         \/ st # "waits" /\ UNCHANGED <<stop_request, stop_for>>
            /\ \/ st' = "waits" /\ stop_done' = 1
               \/ st' \in {"stopping", "returned"} /\ stop_done' = stop_done
  <2> USE DEF contractVars, driverVars, probeVars, scriptVars, runVars
  <2>1. CASE StopperTakes
    BY <2>1 DEF StopperTakes
  <2>2. CASE StopperCalls
    BY <2>2 DEF StopperCalls, Contract!RequestStop
  <2>3. CASE StopReturns
    BY <2>3 DEF StopReturns
  <2>4. CASE StopperGives
    BY <2>4 DEF StopperGives
  <2> QED BY <2>1, <2>2, <2>3, <2>4 DEF Stopper
<1>2. /\ AtStep'
      /\ opened' = opened
  BY <1>1, Stays DEF LifecycleIInv
<1>3. CallbackRuns' /\ RequestsEnd'
  BY <1>1, <1>2 DEF LifecycleIInv, CallbackRuns, RequestsEnd
<1>4. HelpersFollow'
  BY <1>1, <1>2 DEF LifecycleIInv, HelpersFollow
<1> QED BY <1>2, <1>3, <1>4 DEF LifecycleIInv

LEMMA ProberKeeps == ASSUME LifecycleIInv, Prober PROVE LifecycleIInv'
<1>1. /\ UNCHANGED <<at, test, test_halted, verdict, asked, event, outcome, cb,
                     st, stop_request, stop_done, stop_for>>
      /\ delivered' \in {delivered, <<>>}
      /\ phase' = phase \/ (pr # "waits" /\ phase' = "active")
      /\ \/ pr = "waits" /\ probe_request = 1 /\ pr' = "calls" /\ probe_request' = 0
            /\ probe_for' = asked.probe /\ probe_done' = probe_done
         \/ pr # "waits" /\ UNCHANGED <<probe_request, probe_for>>
            /\ \/ pr' = "waits" /\ probe_done' = 1
               \/ pr' \in {"stopping", "returned"} /\ probe_done' = probe_done
  <2> USE DEF contractVars, driverVars, stopVars, scriptVars, runVars
  <2>1. CASE ProberTakes
    BY <2>1 DEF ProberTakes
  <2>2. CASE ProberCalls
    <3>1. /\ UNCHANGED <<event, outcome>> /\ delivered' \in {delivered, <<>>}
          /\ phase' = phase \/ phase' = "active"
      BY <2>2 DEF ProberCalls, Call, Request, Register, List, Contract!Accept,
                  Contract!SetCallback, Contract!RequestStop
    <3> QED BY <2>2, <3>1 DEF ProberCalls
  <2>3. CASE ProbeStopReturns
    BY <2>3 DEF ProbeStopReturns
  <2>4. CASE ProberGives
    BY <2>4 DEF ProberGives
  <2> QED BY <2>1, <2>2, <2>3, <2>4 DEF Prober
<1>2. /\ AtStep'
      /\ opened' = opened
  BY <1>1, Stays DEF LifecycleIInv
<1>3. pr # "waits" /\ ~test_halted => "request" \in opened
  <2>1. ASSUME pr # "waits", ~test_halted PROVE "probe" \in opened
    BY <2>1 DEF LifecycleIInv, HelpersFollow
  <2> QED BY <2>1, MarksCohere DEF LifecycleIInv, Coherent
<1>4. CallbackRuns' /\ RequestsEnd'
  BY <1>1, <1>2, <1>3, TraceTyped DEF LifecycleIInv, CallbackRuns, RequestsEnd
<1>5. HelpersFollow'
  BY <1>1, <1>2 DEF LifecycleIInv, HelpersFollow
<1> QED BY <1>2, <1>4, <1>5 DEF LifecycleIInv

(* Whatever is reported is one of EventValues. *)
LEMMA ReportsTyped ==
    ASSUME LifecycleIInv, DriverReports
    PROVE  event' \in EventValues /\ UNCHANGED outcome
<1>1. outcome \in Contract!Errnos
  BY DEF LifecycleIInv, CallbackRuns
<1>2. CASE Contract!Result /\ (event'.type = "NO_MATCH" => event'.status = "ETIMEDOUT")
  <2>1. /\ UNCHANGED outcome
        /\ \E r \in Contract!Results(operation) : event' = Contract!Event(r[1], r[2])
    BY <1>2 DEF Contract!Result
  <2>2. PICK r \in Contract!Results(operation) : event' = [type |-> r[1], status |-> r[2]]
    BY <2>1 DEF Contract!Event
  <2> QED BY <1>2, <2>1, <2>2 DEF EventValues, Contract!Results, Contract!Errnos
<1>3. CASE Contract!ReportError
  BY <1>1, <1>3 DEF Contract!ReportError, Contract!Event, EventValues
<1>4. CASE Contract!ReportStopped
  BY <1>1, <1>4 DEF Contract!ReportStopped, Contract!Event, EventValues
<1>5. CASE Misreports
  BY <1>5, LifecycleAssumption DEF Misreports
<1> QED BY <1>2, <1>3, <1>4, <1>5 DEF DriverReports

LEMMA WorkerKeeps ==
    ASSUME LifecycleIInv, \/ DriverReports \/ GateReleased \/ GateExpires \/ CallbackMarks
                          \/ CallbackReturns \/ Settles \/ CleanupFails \/ Stores
                          \/ SkipsStopped \/ BecomesIdle
    PROVE  LifecycleIInv'
<1>1. /\ UNCHANGED <<at, test, test_halted, verdict, helperVars>>
      /\ cb' = "none" <=> event' = Contract!NoEvent
      /\ phase' = "idle" => cb' = "none"
      /\ phase = "idle" => phase' = "idle"
      /\ delivered' \in Seq(EventValues) /\ outcome' \in Contract!Errnos
  <2> USE DEF contractVars, driverVars, stopVars, probeVars, scriptVars, runVars, helperVars,
              LifecycleIInv, CallbackRuns
  <2>1. CASE DriverReports
    <3>1. /\ event' # Contract!NoEvent /\ phase # "idle" /\ phase' # "idle"
      <4>1. CASE Contract!Result
        BY <4>1 DEF Contract!Result, Contract!Results, Contract!Event, Contract!NoEvent
      <4>2. CASE Contract!ReportError
        BY <4>2 DEF Contract!ReportError, Contract!Event, Contract!NoEvent
      <4>3. CASE Contract!ReportStopped
        BY <4>3 DEF Contract!ReportStopped, Contract!Event, Contract!NoEvent
      <4>4. CASE Misreports
        <5>1. event'.type # "NONE" /\ phase # "idle" /\ phase' = phase
          BY <4>4, LifecycleAssumption DEF Misreports, EventValues
        <5> QED BY <5>1 DEF Contract!NoEvent
      <4> QED BY <2>1, <4>1, <4>2, <4>3, <4>4 DEF DriverReports
    <3>2. cb' \in {"held", "returns"}
      BY <2>1 DEF DriverReports, CallbackStarts
    <3>3. event' \in EventValues /\ UNCHANGED outcome
      BY <2>1, ReportsTyped
    <3>4. delivered' \in Seq(EventValues)
      BY <2>1, <3>3, AppendProperties DEF DriverReports, CallbackStarts
    <3> QED BY <2>1, <3>1, <3>2, <3>3, <3>4 DEF DriverReports
  <2>2. CASE GateReleased
    BY <2>2 DEF GateReleased
  <2>3. CASE GateExpires
    BY <2>3 DEF GateExpires
  <2>4. CASE CallbackMarks
    BY <2>4 DEF CallbackMarks
  <2>5. CASE CallbackReturns
    BY <2>5 DEF CallbackReturns, Contract!ResultReturn, Contract!StoppedReturn
  <2>6. CASE Settles
    BY <2>6 DEF Settles, Contract!Settle
  <2>7. CASE CleanupFails
    BY <2>7 DEF CleanupFails, Contract!CleanupFails
  <2>8. CASE Stores
    BY <2>8 DEF Stores
  <2>9. CASE SkipsStopped
    BY <2>9 DEF SkipsStopped
  <2>10. CASE BecomesIdle
    BY <2>10 DEF BecomesIdle, Contract!BecomeIdle, Contract!Errnos
  <2> QED BY <2>1, <2>2, <2>3, <2>4, <2>5, <2>6, <2>7, <2>8, <2>9, <2>10
<1>2. /\ AtStep'
      /\ opened' = opened
  BY <1>1, Stays DEF LifecycleIInv
<1>3. CallbackRuns' /\ RequestsEnd'
  BY <1>1, <1>2 DEF LifecycleIInv, CallbackRuns, RequestsEnd
<1>4. HelpersFollow'
  BY <1>1, <1>2 DEF LifecycleIInv, HelpersFollow, helperVars
<1> QED BY <1>2, <1>3, <1>4 DEF LifecycleIInv

(* The inductive invariant of tests 2A and 2B: a helper works on what it was asked last and *)
(* only while the shell waits for it, and without a request under way the device is idle.   *)
THEOREM Test2Invariance == LifecycleSpec => []LifecycleIInv
<1>1. ASSUME LifecycleIInv, [LifecycleNext]_lifecycleVars PROVE LifecycleIInv'
  <2>1. CASE cmd_run
    BY <1>1, <2>1, CommandKeeps
  <2>2. CASE ShellThread
    BY <1>1, <2>2, ShellKeeps, StopKeeps, ProbeAsksKeeps, MarkKeeps DEF ShellThread
  <2>3. CASE Stopper
    BY <1>1, <2>3, StopperKeeps
  <2>4. CASE Prober
    BY <1>1, <2>4, ProberKeeps
  <2>5. CASE \/ DriverReports \/ GateReleased \/ GateExpires \/ CallbackMarks \/ CallbackReturns
             \/ Settles \/ CleanupFails \/ Stores \/ SkipsStopped \/ BecomesIdle
    BY <1>1, <2>5, WorkerKeeps
  <2>6. CASE UNCHANGED lifecycleVars
    <3>1. UNCHANGED <<at, test, test_halted, verdict, phase, event, outcome, delivered, cb,
                      helperVars>>
      BY <2>6 DEF lifecycleVars, driverVars, contractVars, stopVars, probeVars, scriptVars,
                  runVars, helperVars
    <3>2. /\ AtStep'
          /\ opened' = opened
      BY <1>1, <3>1, Stays DEF LifecycleIInv
    <3>3. CallbackRuns' /\ RequestsEnd'
      BY <1>1, <3>1, <3>2 DEF LifecycleIInv, CallbackRuns, RequestsEnd
    <3>4. HelpersFollow'
      BY <1>1, <3>1, <3>2 DEF LifecycleIInv, HelpersFollow, helperVars
    <3> QED BY <3>2, <3>3, <3>4 DEF LifecycleIInv
  <2> QED BY <1>1, <2>1, <2>2, <2>3, <2>4, <2>5, <2>6 DEF LifecycleNext
<1> QED BY <1>1, LifecycleStarts, PTL DEF LifecycleSpec

LEMMA OwnedHere == LifecycleIInv => SharedDataOwned
<1> SUFFICES ASSUME LifecycleIInv PROVE SharedDataOwned
  OBVIOUS
<1>1. at > 0 /\ script[at][1] \in {"purge", "start", "hold"} => cb = "none"
  BY NextStep DEF LifecycleIInv, RequestsEnd, CallbackRuns, Allowed
<1>2. stop_done = 1 => st = "waits" /\ stop_for = asked.stop
  BY DEF LifecycleIInv, HelpersFollow
<1>3. probe_done = 1 => pr = "waits" /\ probe_for = asked.probe
  BY DEF LifecycleIInv, HelpersFollow
<1> QED BY <1>1, <1>2, <1>3 DEF SharedDataOwned

(* The shell touches data that has no lock of its own only while no other thread may use it, *)
(* and the result it reads is of the call it asked for last (2B:55, 2B:176).                 *)
THEOREM Test2SharedData == LifecycleSpec => []SharedDataOwned
  BY Test2Invariance, OwnedHere, PTL

(***************************************************************************)
(* A pass is deserved.                                                     *)
(***************************************************************************)

(* What t2_evaluate() asks of every trace is what biometrics.h promises. *)
LEMMA LegalSoFar ==
    ASSUME NEW e \in EventValues, e.type \notin {"ERROR", "STOPPED"},
           e.type \in {"MATCH", "ENROLL_COMPLETE"} => e.status = "OK",
           e.type = "NO_MATCH" => e.status # "OK"
    PROVE  <<e.type, e.status>> \in Contract!Results("IDENTIFY") \cup Contract!Results("ENROLLING")
<1>1. e.type \in {"MATCH", "NO_MATCH", "ENROLL_COMPLETE"}
  BY DEF EventValues
<1>2. CASE e.type = "NO_MATCH"
  BY <1>2 DEF EventValues
<1>3. CASE e.type # "NO_MATCH"
  BY <1>1, <1>3 DEF Contract!Results
<1> QED BY <1>2, <1>3

LEMMA LegalEnd ==
    ASSUME NEW e \in EventValues, NEW type, e.type = type
    PROVE  e = Contract!Event(type, e.status)
<1>1. e = [type |-> e.type, status |-> e.status]
  BY DEF EventValues
<1> QED BY <1>1 DEF Contract!Event

LEMMA LifecycleLegal ==
    ASSUME NEW trace \in Seq(EventValues), Lifecycle(trace)
    PROVE  LegalTrace(trace)
<1> DEFINE len == Len(trace)
           errors == Of(trace, "ERROR")
           last == trace[len].status
<1>1. /\ len \in Nat /\ DOMAIN trace = 1 .. len
      /\ \A i \in 1 .. len : trace[i] \in EventValues
  OBVIOUS
<1>2. /\ Of(trace, "STOPPED") = {len}
      /\ Cardinality(errors) <= 1
      /\ \A i \in 1 .. len :
            /\ trace[i].type \in {"MATCH", "ENROLL_COMPLETE"} => trace[i].status = "OK"
            /\ trace[i].type \in {"NO_MATCH", "ERROR"} => trace[i].status # "OK"
            /\ trace[i].type \notin {"ERROR", "STOPPED"} => \A e \in errors : i < e
      /\ errors = {} => last \in {"OK", "ECANCELED"}
      /\ errors # {} => \A e \in errors : trace[e].status = last
  BY <1>1 DEF Lifecycle
<1>3. /\ len \in 1 .. len /\ trace[len].type = "STOPPED"
      /\ \A i \in 1 .. len : trace[i].type = "STOPPED" => i = len
  BY <1>1, <1>2 DEF Of
<1>4. \A i \in 1 .. len : i \in errors <=> trace[i].type = "ERROR"
  BY <1>1 DEF Of
<1>5. errors \subseteq 1 .. len
  BY <1>1 DEF Of
<1>6. trace[len] = Contract!Event("STOPPED", last)
  BY <1>1, <1>3, LegalEnd
<1> HIDE DEF len, errors, last
<1>7. CASE errors = {}
  <2>1. \A i \in 1 .. len - 1 : <<trace[i].type, trace[i].status>> \in
            Contract!Results("IDENTIFY") \cup Contract!Results("ENROLLING")
    <3> SUFFICES ASSUME NEW i \in 1 .. len - 1
                 PROVE  <<trace[i].type, trace[i].status>> \in
                            Contract!Results("IDENTIFY") \cup Contract!Results("ENROLLING")
      OBVIOUS
    <3>1. i \in 1 .. len /\ i # len /\ trace[i] \in EventValues
      BY <1>1
    <3> QED BY <1>2, <1>3, <1>4, <1>7, <3>1, LegalSoFar
  <2>2. SubSeq(trace, len - 1 + 1, len) = << Contract!Event("STOPPED", last) >>
    <3> DEFINE s == SubSeq(trace, len - 1 + 1, len)
               t == << trace[len] >>
    <3>1. len - 1 + 1 = len /\ s \in Seq(EventValues) /\ Len(s) = 1 /\ s[1] = trace[len]
      <4>1. len - 1 + 1 = len /\ len \in Int /\ len - len + 1 = 1 /\ len + 1 - 1 = len
        BY <1>1
      <4>2. \A i \in len .. len : trace[i] \in EventValues
        BY <1>1, <1>3
      <4>3. /\ s \in Seq(EventValues) /\ Len(s) = 1
            /\ \A i \in 1 .. 1 : s[i] = trace[len + i - 1]
        <5>1. s = SubSeq(trace, len, len)
          BY <4>1
        <5>2. /\ SubSeq(trace, len, len) \in Seq(EventValues) /\ Len(SubSeq(trace, len, len)) = 1
              /\ \A i \in 1 .. 1 : SubSeq(trace, len, len)[i] = trace[len + i - 1]
          BY <4>1, <4>2, SubSeqProperties
        <5> QED BY <5>1, <5>2
      <4> HIDE DEF s
      <4> QED BY <4>1, <4>3
    <3>2. t \in Seq(EventValues) /\ Len(t) = 1 /\ t[1] = trace[len]
      BY <1>1, <1>3
    <3> HIDE DEF s, t
    <3>3. s = t
      BY <3>1, <3>2, SeqEqual
    <3> QED BY <1>6, <3>3 DEF s, t
  <2>3. len - 1 \in 0 .. len
    BY <1>1, <1>3
  <2>4. last \in {"OK", "ECANCELED"}
    BY <1>2, <1>7
  <2> QED BY <2>1, <2>2, <2>3, <2>4 DEF LegalTrace, len
<1>8. CASE errors # {}
  <2>1. \E e : errors = {e}
    <3>1. IsFiniteSet(errors)
      <4>1. IsFiniteSet(1 .. len)
        BY <1>1, FS_Interval
      <4> QED BY <1>5, <4>1, FS_Subset
    <3>2. Cardinality(errors) \in Nat /\ Cardinality(errors) # 0
      BY <1>8, <3>1, FS_CardinalityType, FS_EmptySet
    <3>3. Cardinality(errors) = 1
      BY <1>2, <3>2
    <3> QED BY <3>1, <3>3, FS_Singleton
  <2>2. PICK e : errors = {e}
    BY <2>1
  <2>3. e \in 1 .. len /\ trace[e].type = "ERROR" /\ e # len /\ trace[e].status = last
    BY <1>2, <1>3, <1>4, <1>5, <2>2
  <2>4. e = len - 1
    <3>1. ASSUME e + 1 < len PROVE FALSE
      <4>1. e + 1 \in 1 .. len /\ e + 1 # e /\ e + 1 # len
        BY <1>1, <2>3, <3>1
      <4>2. trace[e + 1].type \notin {"ERROR", "STOPPED"}
        BY <1>3, <1>4, <2>2, <4>1
      <4>3. e + 1 < e
        BY <1>2, <2>2, <4>1, <4>2
      <4> QED BY <2>3, <4>3
    <3> QED BY <1>1, <2>3, <3>1
  <2>5. \A i \in 1 .. len - 2 : <<trace[i].type, trace[i].status>> \in
            Contract!Results("IDENTIFY") \cup Contract!Results("ENROLLING")
    <3> SUFFICES ASSUME NEW i \in 1 .. len - 2
                 PROVE  <<trace[i].type, trace[i].status>> \in
                            Contract!Results("IDENTIFY") \cup Contract!Results("ENROLLING")
      OBVIOUS
    <3>1. i \in 1 .. len /\ i # len /\ i # e /\ trace[i] \in EventValues
      BY <1>1, <2>4
    <3>2. trace[i].type \notin {"ERROR", "STOPPED"}
      BY <1>3, <1>4, <2>2, <3>1
    <3> QED BY <1>2, <3>1, <3>2, LegalSoFar
  <2>6. last \in Contract!Errnos \ {"OK"}
    <3>1. trace[e] \in EventValues /\ trace[e].status # "OK"
      BY <1>1, <1>2, <2>3
    <3> QED BY <2>3, <3>1 DEF EventValues
  <2>7. SubSeq(trace, len - 2 + 1, len) =
            << Contract!Event("ERROR", last), Contract!Event("STOPPED", last) >>
    <3> DEFINE s == SubSeq(trace, len - 2 + 1, len)
               t == << trace[e], trace[len] >>
    <3>1. /\ len - 2 + 1 = e /\ s \in Seq(EventValues) /\ Len(s) = 2
          /\ s[1] = trace[e] /\ s[2] = trace[len]
      <4>1. len - 2 + 1 = e /\ e \in Int /\ len \in Int /\ len - e + 1 = 2 /\ e + 2 - 1 = len
        BY <1>1, <2>3, <2>4
      <4>2. \A i \in e .. len : trace[i] \in EventValues
        BY <1>1, <2>3
      <4>3. /\ s \in Seq(EventValues) /\ Len(s) = 2
            /\ \A i \in 1 .. 2 : s[i] = trace[e + i - 1]
        BY <2>3, <4>1, <4>2, SubSeqProperties
      <4>4. s[1] = trace[e + 1 - 1] /\ s[2] = trace[e + 2 - 1] /\ e + 1 - 1 = e
        <5> HIDE DEF s
        <5> QED BY <4>1, <4>3
      <4> HIDE DEF s
      <4> QED BY <4>1, <4>3, <4>4
    <3>2. t \in Seq(EventValues) /\ Len(t) = 2 /\ t[1] = trace[e] /\ t[2] = trace[len]
      BY <1>1, <1>3, <2>3
    <3>3. trace[e] = Contract!Event("ERROR", last)
      BY <1>1, <2>3, LegalEnd
    <3> HIDE DEF s, t
    <3>4. s = t
      BY <3>1, <3>2, SeqEqual
    <3> QED BY <1>6, <3>3, <3>4 DEF s, t
  <2>8. len - 2 \in 0 .. len
    BY <1>1, <2>3, <2>4
  <2> QED BY <2>5, <2>6, <2>7, <2>8 DEF LegalTrace, len
<1> QED BY <1>7, <1>8

(* A test that failed makes no further statement. *)
LEMMA HaltedKept == ASSUME test_halted', OrderKept' PROVE Test2Kept'
  BY DEF Test2Kept, GateKept, FlawsAreSeen

keptVars == <<phase, events, delivered, dropped_events, broken, added, cb, order_counter,
              primary_return_order, callback_before_return_order, gate_expired,
              pr, probe_done, probe_result, st, stop_request>>

(* Most checks that succeed: nothing changes that a flaw is seen by. *)
LEMMA CheckedKept ==
    ASSUME LifecycleIInv, Test2Kept, at > 0, Continue, UNCHANGED <<test, keptVars>>,
           gate_arm' = gate_arm, gate_release' = gate_release \/ st # "returned",
           script[at][1] \notin {"stop", "probe", "probed", "start", "hold", "idle", "unchanged",
                                 "markers"}
    PROVE  Test2Kept'
<1>1. /\ ~test_halted'
      /\ "probe" \in opened' <=> "probe" \in opened
      /\ "request" \in opened' <=> "request" \in opened
      /\ "unstopped" \in opened' <=> "unstopped" \in opened
      /\ "uncompared" \in opened' <=> "uncompared" \in opened
      /\ "held" \in opened' <=> "held" \in opened
  BY MarksNext DEF LifecycleIInv
<1>2. ~test_halted
  BY NextStep DEF LifecycleIInv
<1>3. OrderKept' /\ GateKept'
  BY <1>1, <1>2 DEF Test2Kept, OrderKept, GateKept, keptVars
<1>4. ProbeFailed' <=> ProbeFailed
  BY <1>1 DEF ProbeFailed, keptVars
<1>5. StopFailed => StopFailed'
  BY <1>1 DEF StopFailed, Held, keptVars
<1>6. TraceFailed => TraceFailed'
  BY <1>1 DEF TraceFailed, LegalTrace, keptVars
<1>7. FlawsAreSeen'
  BY <1>1, <1>2, <1>4, <1>5, <1>6 DEF Test2Kept, FlawsAreSeen, keptVars
<1> QED BY <1>3, <1>7 DEF Test2Kept

(* The checks of most steps. *)
LEMMA VerifiedKept ==
    ASSUME LifecycleIInv, Test2Kept, at > 0, NEW ok \in BOOLEAN, Check(ok), Release(ok),
           UNCHANGED <<test, order_counter, primary_return_order, callback_before_return_order,
                       dropped_events, cb>>,
           ok => /\ UNCHANGED keptVars
                 /\ script[at][1] \notin {"stop", "probe", "probed", "start", "hold", "idle",
                                          "unchanged", "markers"}
    PROVE  Test2Kept'
<1>1. CASE ok
  BY <1>1, CheckedKept DEF Check, Release
<1>2. CASE ~ok
  <2>1. test_halted'
    BY <1>2 DEF Check, HaltTest
  <2>2. OrderKept'
    BY DEF Test2Kept, OrderKept, Release
  <2> QED BY <2>1, <2>2, HaltedKept
<1> QED BY <1>1, <1>2

LEMMA ShellVerifies ==
    ASSUME LifecycleIInv, Test2Kept,
           \/ Refused \/ Registers \/ StaysQuiet \/ (Step("snapshot") /\ Lists) \/ StopEntered
           \/ Stopped \/ GateEntered \/ GateWindow \/ release_gate \/ TerminalSeen \/ WatchdogFires
    PROVE  Test2Kept'
<1> USE DEF contractVars, driverVars, recordVars, otherGateVars, gateVars, stopVars, probeVars,
            runVars, keptVars
<1>1. CASE Refused
  <2>1. PICK r \in Results :
            /\ IF Step("busy") THEN Call(Parameter, r) /\ Verify(r = "EBUSY")
               ELSE (Call("ENROLL", r) \/ Call("IDENTIFY", r)) /\ Verify(r = "EINVAL")
            /\ excused' = (excused \/ r = "EIO")
    BY <1>1 DEF Refused
  <2>2. r # "OK" => UNCHANGED <<phase, delivered>>
    <3>1. ASSUME NEW c, Call(c, r), r # "OK" PROVE UNCHANGED <<phase, delivered>>
      BY <3>1 DEF Call, Request, Register, List
    <3> QED BY <2>1, <3>1
  <2>3. /\ at > 0 /\ script[at][1] \in {"refused", "busy"}
        /\ UNCHANGED <<test, recordVars, added, cb, stopVars, probeVars, broken>>
    BY <1>1 DEF Refused, Step
  <2>4. PICK ok \in BOOLEAN : Verify(ok) /\ (ok => r # "OK")
    BY <2>1
  <2> QED BY <2>2, <2>3, <2>4, VerifiedKept DEF Verify
<1>2. CASE Registers
  <2>1. /\ at > 0 /\ script[at][1] \in {"register", "unregister"}
        /\ UNCHANGED <<test, recordVars, added, cb, stopVars, probeVars, broken>>
        /\ \E ok \in BOOLEAN : Verify(ok)
    BY <1>2 DEF Registers, Step
  <2>2. UNCHANGED <<phase, delivered>>
    BY <1>2 DEF Registers, Register, Contract!SetCallback
  <2> QED BY <2>1, <2>2, VerifiedKept DEF Verify
<1>3. CASE StaysQuiet
  <2>1. at > 0 /\ script[at][1] = "quiet" /\ \E ok \in BOOLEAN : Verify(ok)
    BY <1>3 DEF StaysQuiet, Step
  <2> QED BY <1>3, <2>1, VerifiedKept DEF Verify, StaysQuiet
<1>4. CASE Step("snapshot") /\ Lists
  <2>1. at > 0 /\ script[at][1] = "snapshot" /\ \E ok \in BOOLEAN : Verify(ok)
    BY <1>4 DEF Lists, Step
  <2>2. UNCHANGED <<phase, delivered>>
    BY <1>4 DEF Lists, List
  <2> QED BY <1>4, <2>1, <2>2, VerifiedKept DEF Verify, Lists
<1>5. CASE StopEntered
  <2>1. at > 0 /\ script[at][1] = "entered" /\ Check(TRUE) /\ Release(TRUE)
    BY <1>5 DEF StopEntered, Step, Check, Release
  <2> QED BY <1>5, <2>1, VerifiedKept DEF StopEntered
<1>6. CASE Stopped
  <2>1. at > 0 /\ script[at][1] = "stopped" /\ \E ok \in BOOLEAN : Verify(ok)
    BY <1>6 DEF Stopped, Step
  <2> QED BY <1>6, <2>1, VerifiedKept DEF Verify, Stopped
<1>7. CASE GateEntered
  <2>1. at > 0 /\ script[at][1] = "gate" /\ \E ok \in BOOLEAN : Check(ok) /\ Release(ok)
    BY <1>7 DEF GateEntered, Step
  <2> QED BY <1>7, <2>1, VerifiedKept DEF GateEntered
<1>8. CASE GateWindow
  <2>1. at > 0 /\ script[at][1] = "window" /\ \E ok \in BOOLEAN : Verify(ok)
    BY <1>8 DEF GateWindow, Step
  <2> QED BY <1>8, <2>1, VerifiedKept DEF Verify, GateWindow
<1>9. CASE release_gate
  <2>1. at > 0 /\ script[at][1] = "release" /\ Continue /\ st # "returned"
    BY <1>9 DEF release_gate, Step, Turn, StopperReady
  <2> QED BY <1>9, <2>1, CheckedKept DEF release_gate
<1>10. CASE TerminalSeen
  <2>1. at > 0 /\ script[at][1] = "terminal" /\ Check(TRUE) /\ Release(TRUE)
    BY <1>10 DEF TerminalSeen, Step, Check, Release
  <2> QED BY <1>10, <2>1, VerifiedKept DEF TerminalSeen
<1>11. CASE WatchdogFires
  <2>1. at > 0 /\ Verify(FALSE)
    BY <1>11 DEF WatchdogFires, Step
  <2> QED BY <1>11, <2>1, VerifiedKept DEF Verify, WatchdogFires
<1> QED BY <1>1, <1>2, <1>3, <1>4, <1>5, <1>6, <1>7, <1>8, <1>9, <1>10, <1>11

LEMMA ClearedKept ==
    ASSUME LifecycleIInv, Test2Kept, Purge \/ start_operation
    PROVE  Test2Kept'
<1> USE DEF contractVars, driverVars, stopVars, probeVars, runVars
<1>1. /\ at > 0 /\ ~test_halted /\ AtStep
      /\ UNCHANGED <<test, cb, broken, added, pr, probe_done, probe_result>>
      /\ begin_trace
      /\ Continue \/ (HaltTest /\ gate_arm' = 0)
      /\ script[at][1] \in {"purge", "start", "hold"}
      /\ Continue /\ script[at][1] = "purge" => gate_arm' = 0 /\ UNCHANGED phase
      /\ Continue /\ script[at][1] = "start" =>
             gate_arm' = 0 /\ delivered' = <<>> /\ phase' = "active"
      /\ Continue /\ script[at][1] = "hold" => delivered' = <<>> /\ phase' = "active"
      /\ phase = "idle" /\ cb = "none"
  <2>1. at > 0 /\ AtStep /\ script[at][1] \in {"purge", "start", "hold"}
    BY DEF Purge, start_operation, Step, LifecycleIInv
  <2>2. ~test_halted /\ "request" \notin opened
    BY <2>1, NextStep DEF Allowed
  <2>3. phase = "idle" /\ cb = "none"
    BY <2>2 DEF LifecycleIInv, RequestsEnd, CallbackRuns
  <2>4. CASE Purge
    BY <2>1, <2>2, <2>3, <2>4 DEF Purge, Step, LifecycleIInv
  <2>5. CASE start_operation
    <3>1. PICK r \in Results :
              /\ Request(IF Parameter \in {"ENROLL_TIMEOUT", "CANCEL_ENROLL"}
                         THEN "ENROLLING" ELSE "IDENTIFY", Parameter = "CANCEL_IDENTIFY", r)
              /\ Check(r = "OK")
              /\ gate_arm' = IF r = "OK" /\ Step("hold") THEN 1 ELSE 0
      BY <2>5 DEF start_operation
    <3>2. r = "OK" => delivered' = <<>> /\ phase' = "active"
      BY <3>1 DEF Request, Contract!Accept, Busy
    <3>3. script[at][1] # "hold" => ~Step("hold")
      BY DEF Step
    <3>4. script[at][1] \in {"start", "hold"} /\ begin_trace
          /\ UNCHANGED <<test, cb, broken, added, pr, probe_done, probe_result>>
      BY <2>5 DEF start_operation, Step
    <3>5. CASE r = "OK"
      BY <2>1, <2>2, <2>3, <3>1, <3>2, <3>3, <3>4, <3>5 DEF Check
    <3>6. CASE r # "OK"
      <4>1. HaltTest /\ gate_arm' = 0
        BY <3>1, <3>6 DEF Check
      <4>2. ~Continue
        <5>1. test_halted' = TRUE
          BY <4>1 DEF HaltTest
        <5>2. Continue => test_halted' = test_halted
          BY DEF Continue
        <5> QED BY <2>2, <5>1, <5>2
      <4> QED BY <2>1, <2>2, <2>3, <3>4, <4>1, <4>2
    <3> QED BY <3>5, <3>6
  <2> QED BY <2>4, <2>5
<1>2. OrderKept'
  BY <1>1 DEF begin_trace, OrderKept
<1>3. CASE HaltTest
  BY <1>2, <1>3, HaltedKept DEF HaltTest
<1>4. CASE Continue
  <2>1. /\ "request" \notin opened /\ "held" \notin opened /\ "probe" \notin opened
    BY <1>1, NextStep DEF Allowed
  <2>2. /\ ~test_halted'
        /\ "request" \in opened' <=> script[at][1] \in {"start", "hold"}
        /\ "held" \in opened' <=> script[at][1] = "hold"
        /\ script[at][1] \in {"start", "hold"} => "uncompared" \in opened'
        /\ "uncompared" \in opened => "uncompared" \in opened'
    BY <1>1, <1>4, <2>1, MarksNext
  <2>3. GateKept'
    BY <1>1, <1>4, <2>2 DEF GateKept, begin_trace
  <2>4. ~broken
    BY <1>1, <2>1 DEF Test2Kept, FlawsAreSeen, ProbeFailed, StopFailed, TraceFailed
  <2>5. ~broken' /\ (added' => "uncompared" \in opened')
    BY <1>1, <2>2, <2>4 DEF Test2Kept, FlawsAreSeen
  <2>6. "request" \in opened' => events' = delivered'
    BY <1>1, <1>4, <2>2 DEF begin_trace
  <2>7. FlawsAreSeen'
    BY <2>5, <2>6 DEF FlawsAreSeen
  <2> QED BY <1>2, <2>3, <2>7 DEF Test2Kept
<1> QED BY <1>1, <1>3, <1>4

LEMMA ComparedKept == ASSUME LifecycleIInv, Test2Kept, Step("unchanged"), Lists PROVE Test2Kept'
<1> USE DEF contractVars, driverVars, recordVars, otherGateVars, stopVars, probeVars, runVars,
            keptVars
<1>1. PICK r \in Results : List(r) /\ Verify(r = "OK" /\ (Step("unchanged") => ~added))
  BY DEF Lists
<1>2. /\ at > 0 /\ script[at][1] = "unchanged" /\ UNCHANGED keptVars /\ AtStep
      /\ UNCHANGED <<test, gate_arm, gate_release>> \/ HaltTest
      /\ gate_arm' \in {gate_arm, 0}
      /\ Continue \/ HaltTest
      /\ Continue => ~added
  <2>1. UNCHANGED <<phase, delivered>>
    BY <1>1 DEF List
  <2>2. HaltTest /\ ~test_halted => ~Continue
    BY DEF HaltTest, Continue
  <2>3. AtStep /\ at > 0 /\ script[at][1] = "unchanged"
    BY DEF LifecycleIInv, Step
  <2>4. ~test_halted
    BY <2>3, NextStep
  <2>5. gate_arm' \in {gate_arm, 0}
    BY <1>1 DEF Verify, Release
  <2> QED BY <1>1, <2>1, <2>2, <2>3, <2>4, <2>5 DEF Verify, Check, Release, Lists
<1>3. OrderKept'
  BY <1>2 DEF Test2Kept, OrderKept
<1>4. CASE HaltTest
  BY <1>3, <1>4, HaltedKept DEF HaltTest
<1>5. CASE Continue /\ UNCHANGED <<test, gate_arm, gate_release>>
  <2>1. /\ ~test_halted'
        /\ "probe" \in opened' <=> "probe" \in opened
        /\ "request" \in opened' <=> "request" \in opened
        /\ "unstopped" \in opened' <=> "unstopped" \in opened
        /\ "held" \in opened' <=> "held" \in opened
    BY <1>2, <1>5, MarksNext
  <2>2. ~test_halted
    BY <1>2, NextStep
  <2>3. GateKept'
    BY <1>2, <1>5, <2>1, <2>2 DEF Test2Kept, GateKept
  <2>4. ProbeFailed' <=> ProbeFailed
    BY <1>2, <2>1 DEF ProbeFailed
  <2>5. StopFailed => StopFailed'
    BY <1>2, <1>5, <2>1 DEF StopFailed, Held
  <2>6. TraceFailed => TraceFailed'
    BY <1>2, <2>1 DEF TraceFailed, LegalTrace
  <2>7. FlawsAreSeen'
    BY <1>2, <1>5, <2>1, <2>2, <2>4, <2>5, <2>6 DEF Test2Kept, FlawsAreSeen
  <2> QED BY <1>3, <2>3, <2>7 DEF Test2Kept
<1> QED BY <1>2, <1>4, <1>5 DEF Continue, HaltTest

LEMMA AskedKept == ASSUME LifecycleIInv, Test2Kept, Stop \/ ProbeAsks PROVE Test2Kept'
<1> USE DEF contractVars, driverVars, recordVars, gateVars, stopVars, probeVars, runVars
<1>1. /\ at > 0 /\ AtStep /\ Continue /\ UNCHANGED test /\ ~test_halted
      /\ UNCHANGED <<phase, events, delivered, dropped_events, broken, added, cb, order_counter,
                     callback_before_return_order, gate_expired, gate_arm, gate_release, pr,
                     probe_result, st>>
      /\ script[at][1] \in {"stop", "probe"}
      /\ script[at][1] = "stop" => stop_request' = 1 /\ primary_return_order' = 0
                                   /\ UNCHANGED probe_done
      /\ script[at][1] = "probe" => UNCHANGED <<stop_request, primary_return_order>>
                                    /\ pr = "waits" /\ probe_done' = 0 /\ "probe" \notin opened
  <2>1. AtStep /\ at > 0 /\ script[at][1] \in {"stop", "probe"}
    BY DEF LifecycleIInv, Stop, ProbeAsks, Step
  <2>2. ~test_halted /\ (script[at][1] = "probe" => "probe" \notin opened)
    BY <2>1, NextStep DEF Allowed
  <2>3. script[at][1] = "probe" => pr = "waits"
    BY <2>2 DEF LifecycleIInv, HelpersFollow
  <2>4. CASE Stop
    BY <2>1, <2>2, <2>4 DEF Stop, Step
  <2>5. CASE ProbeAsks
    BY <2>1, <2>2, <2>3, <2>5 DEF ProbeAsks, Step
  <2> QED BY <2>4, <2>5
<1>2. /\ ~test_halted'
      /\ "probe" \in opened => "probe" \in opened'
      /\ "request" \in opened' <=> "request" \in opened
      /\ "unstopped" \in opened' => "unstopped" \in opened
      /\ "uncompared" \in opened' <=> "uncompared" \in opened
      /\ "held" \in opened' <=> "held" \in opened
  BY <1>1, MarksNext
<1>3. /\ OrderKept /\ GateKept /\ FlawsAreSeen
  BY DEF Test2Kept
<1>4. OrderKept'
  BY <1>1, <1>3 DEF OrderKept
<1>5. GateKept'
  BY <1>1, <1>2, <1>3 DEF GateKept
<1>6. ProbeFailed => ProbeFailed'
  BY <1>1, <1>2 DEF ProbeFailed
<1>7. StopFailed => StopFailed'
  <2>1. CASE script[at][1] = "stop"
    <3>1. ~StopFailed
      BY <1>1, <2>1, NextStep DEF Allowed, StopFailed
    <3> QED BY <3>1
  <2>2. CASE script[at][1] = "probe"
    BY <1>1, <1>2, <2>2 DEF StopFailed, Held
  <2> QED BY <1>1, <2>1, <2>2
<1>8. TraceFailed => TraceFailed'
  BY <1>1, <1>2 DEF TraceFailed, LegalTrace
<1>9. FlawsAreSeen'
  BY <1>1, <1>2, <1>3, <1>6, <1>7, <1>8 DEF FlawsAreSeen
<1> QED BY <1>4, <1>5, <1>9 DEF Test2Kept

(* Where a flaw that was seen makes the check fail. *)
LEMMA JudgedKept ==
    ASSUME LifecycleIInv, Test2Kept, Probed \/ Quiescent \/ Markers
    PROVE  Test2Kept'
<1> USE DEF contractVars, driverVars, recordVars, otherGateVars, stopVars, probeVars, runVars
<1>1. /\ at > 0 /\ AtStep /\ ~test_halted
      /\ Continue \/ HaltTest
      /\ script[at][1] \in {"probed", "idle", "markers"} /\ st # "returned"
      /\ UNCHANGED <<test, phase, dropped_events, broken, added, cb, order_counter,
                     callback_before_return_order, primary_return_order, gate_expired,
                     pr, probe_result, st, stop_request, delivered>>
      /\ gate_arm' \in {gate_arm, 0}
      /\ Continue => UNCHANGED <<gate_arm, gate_release>>
      /\ script[at][1] # "idle" => UNCHANGED events
      /\ script[at][1] # "probed" => UNCHANGED probe_done
  <2>1. AtStep /\ at > 0 /\ script[at][1] \in {"probed", "idle", "markers"}
    BY DEF LifecycleIInv, Probed, Quiescent, Markers, Step
  <2>2. ~test_halted /\ st # "returned"
    BY <2>1, NextStep DEF Probed, Quiescent, Markers, Step, Turn, StopperReady
  <2>3. HaltTest => ~Continue
    BY <2>2 DEF HaltTest, Continue
  <2>4. PICK ok \in BOOLEAN : Verify(ok)
    BY DEF Probed, Quiescent, Markers
  <2>5. /\ Continue \/ HaltTest
        /\ gate_arm' \in {gate_arm, 0}
        /\ Continue => UNCHANGED <<gate_arm, gate_release>>
        /\ UNCHANGED otherGateVars
    BY <2>3, <2>4 DEF Verify, Check, Release
  <2>6. CASE Probed
    BY <2>1, <2>2, <2>5, <2>6 DEF Probed, Step
  <2>7. CASE Markers
    BY <2>1, <2>2, <2>5, <2>7 DEF Markers, Step
  <2>8. CASE Quiescent
    <3>1. UNCHANGED <<phase, delivered>> /\ script[at][1] = "idle"
      BY <2>8 DEF Quiescent, Register, Contract!SetCallback, Step
    <3> QED BY <2>1, <2>2, <2>5, <2>8, <3>1 DEF Quiescent
  <2> QED BY <2>6, <2>7, <2>8
<1>2. OrderKept /\ GateKept /\ FlawsAreSeen
  BY DEF Test2Kept
<1>3. OrderKept'
  BY <1>1, <1>2 DEF OrderKept
<1>4. CASE HaltTest
  BY <1>3, <1>4, HaltedKept DEF HaltTest
<1>5. CASE Continue
  <2>1. /\ ~test_halted'
        /\ "probe" \in opened' <=> "probe" \in opened /\ script[at][1] # "probed"
        /\ "request" \in opened' <=> "request" \in opened /\ script[at][1] # "idle"
        /\ "unstopped" \in opened' <=> "unstopped" \in opened
        /\ "uncompared" \in opened' <=> "uncompared" \in opened
        /\ "held" \in opened' <=> "held" \in opened /\ script[at][1] # "markers"
    BY <1>1, <1>5, MarksNext
  <2>2. /\ script[at][1] = "markers" => "request" \notin opened
        /\ script[at][1] # "probed" => "probe" \notin opened
    BY <1>1, NextStep DEF Allowed
  <2>3. "request" \notin opened => cb = "none"
    BY <1>1 DEF LifecycleIInv, RequestsEnd, CallbackRuns
  <2>4. GateKept'
    BY <1>1, <1>2, <1>5, <2>1, <2>2, <2>3 DEF GateKept
  <2>5. ProbeFailed => ProbeFailed'
    <3>1. CASE script[at][1] = "probed"
      <4>1. probe_result = "EBUSY"
        BY <1>5, <3>1, <1>1 DEF Probed, Quiescent, Markers, Step, Verify, Check, Continue, HaltTest
      <4> QED BY <4>1 DEF ProbeFailed
    <3>2. CASE script[at][1] # "probed"
      BY <2>2, <3>2 DEF ProbeFailed
    <3> QED BY <3>1, <3>2
  <2>6. StopFailed => StopFailed'
    <3>1. CASE script[at][1] = "markers"
      <4>1. /\ callback_before_return_order > 0
            /\ primary_return_order > callback_before_return_order
            /\ gate_expired = 0
        BY <1>5, <3>1, <1>1 DEF Probed, Quiescent, Markers, Step, Verify, Check, Continue, HaltTest
      <4> QED BY <1>1, <1>2, <4>1 DEF StopFailed, OrderKept
    <3>2. CASE script[at][1] # "markers"
      BY <1>1, <1>5, <2>1, <3>2 DEF StopFailed, Held
    <3> QED BY <3>1, <3>2
  <2>7. TraceFailed => TraceFailed'
    <3>1. CASE script[at][1] = "idle"
      <4>1. dropped_events = 0 /\ t2_evaluate(events, expected)
        BY <1>5, <3>1, <1>1 DEF Probed, Quiescent, Markers, Step, Verify, Check, Continue, HaltTest
      <4>2. "request" \in opened => events = delivered
        BY <1>1, <1>2, <2>2, <3>1, <4>1 DEF FlawsAreSeen, ProbeFailed
      <4>3. delivered \in Seq(EventValues)
        BY DEF LifecycleIInv, CallbackRuns
      <4>4. "request" \in opened => LegalTrace(events)
        BY <4>1, <4>2, <4>3, LifecycleLegal DEF t2_evaluate
      <4> QED BY <4>1, <4>4 DEF TraceFailed
    <3>2. CASE script[at][1] # "idle"
      BY <1>1, <2>1, <3>2 DEF TraceFailed, LegalTrace
    <3> QED BY <3>1, <3>2
  <2>8. "request" \in opened' => ProbeFailed' \/ dropped_events' > 0 \/ events' = delivered'
    BY <1>1, <1>2, <2>1, <2>5 DEF FlawsAreSeen
  <2>9. FlawsAreSeen'
    BY <1>1, <1>2, <2>1, <2>5, <2>6, <2>7, <2>8 DEF FlawsAreSeen
  <2> QED BY <1>3, <2>4, <2>9 DEF Test2Kept
<1> QED BY <1>1, <1>4, <1>5

LEMMA Test2Starts == LifecycleInit => Test2Kept
<1> SUFFICES ASSUME LifecycleInit PROVE Test2Kept
  OBVIOUS
<1>1. opened = {}
  BY DEF LifecycleInit, opened
<1> QED BY <1>1 DEF LifecycleInit, Test2Kept, OrderKept, GateKept, FlawsAreSeen

LEMMA CommandKept == ASSUME LifecycleIInv, Test2Kept, cmd_run PROVE Test2Kept'
<1>1. opened = {} /\ opened' = {}
  <2>1. at = 0 /\ at' = 1 /\ UNCHANGED test
    BY DEF cmd_run
  <2>2. Opened(script, {}, 1) = {}
    BY OpenedFirst
  <2> QED BY <2>1, <2>2 DEF opened, script
<1>2. /\ ~broken' /\ ~added' /\ ~test_halted
      /\ UNCHANGED <<order_counter, primary_return_order, callback_before_return_order,
                     dropped_events, cb, gate_arm, phase>>
  BY DEF cmd_run, contractVars, recordVars, gateVars
<1>3. cb # "held"
  BY <1>1, <1>2 DEF Test2Kept, GateKept
<1> QED BY <1>1, <1>2, <1>3 DEF Test2Kept, OrderKept, GateKept, FlawsAreSeen

(* Where the helpers stand: none of them is without a request, *)
LEMMA HelpersWithin ==
    ASSUME LifecycleIInv, ~test_halted
    PROVE  /\ st # "waits" \/ stop_request = 1 => "stop" \in opened /\ "unstopped" \notin opened
           /\ pr # "waits" \/ probe_request = 1 => "probe" \in opened
           /\ phase # "idle" \/ cb # "none" => "request" \in opened /\ "uncompared" \in opened
<1>1. Coherent(opened)
  BY MarksCohere DEF LifecycleIInv
<1>2. phase # "idle" \/ cb # "none" => "request" \in opened
  BY DEF LifecycleIInv, RequestsEnd, CallbackRuns
<1> QED BY <1>1, <1>2 DEF LifecycleIInv, HelpersFollow, Coherent

LEMMA StopperKept == ASSUME LifecycleIInv, Test2Kept, Stopper PROVE Test2Kept'
<1> USE DEF contractVars, driverVars, recordVars, gateVars, probeVars, runVars, scriptVars
<1>1. /\ UNCHANGED <<at, test, test_halted, verdict, phase, events, delivered, dropped_events,
                     added, cb, gate_arm, gate_release, gate_expired,
                     callback_before_return_order, pr, probe_done, probe_result>>
      /\ \/ /\ st \in {"waits", "calls"} /\ st' # "waits"
            /\ UNCHANGED <<order_counter, primary_return_order, broken>>
            /\ st = "waits" => stop_request = 1
         \/ /\ st = "stopping" /\ st' = "returned"
            /\ UNCHANGED <<order_counter, primary_return_order, stop_request>>
            /\ broken' = (broken \/ Held)
         \/ st = "returned" /\ st' = "waits" /\ order_counter' = order_counter + 1
            /\ primary_return_order' = order_counter' /\ UNCHANGED <<broken, stop_request>>
  <2>1. CASE StopperTakes
    BY <2>1 DEF StopperTakes
  <2>2. CASE StopperCalls
    BY <2>2 DEF StopperCalls, Contract!RequestStop
  <2>3. CASE StopReturns
    BY <2>3 DEF StopReturns
  <2>4. CASE StopperGives
    BY <2>4 DEF StopperGives
  <2> QED BY <2>1, <2>2, <2>3, <2>4 DEF Stopper
<1>2. opened' = opened
  BY <1>1, Stays
<1>3. OrderKept /\ GateKept /\ FlawsAreSeen
  BY DEF Test2Kept
<1>4. OrderKept' /\ GateKept'
  <2>1. OrderKept'
    BY <1>1, <1>3 DEF OrderKept
  <2> QED BY <1>1, <1>2, <1>3, <2>1 DEF GateKept
<1>5. ProbeFailed' <=> ProbeFailed
  BY <1>1, <1>2 DEF ProbeFailed
<1>6. TraceFailed' <=> TraceFailed
  BY <1>1, <1>2 DEF TraceFailed, LegalTrace
<1>7. ASSUME ~test_halted, StopFailed \/ (broken' /\ ~broken) PROVE StopFailed'
  <2>1. "held" \in opened /\ "unstopped" \notin opened
    <3>1. CASE StopFailed
      BY <3>1 DEF StopFailed
    <3>2. CASE broken' /\ ~broken
      <4>1. st = "stopping" /\ cb = "held"
        BY <1>1, <3>2 DEF Held
      <4> QED BY <1>3, <1>7, <4>1, HelpersWithin DEF GateKept
    <3> QED BY <1>7, <3>1, <3>2
  <2>2. CASE gate_expired = 1
    BY <1>1, <1>2, <2>1, <2>2 DEF StopFailed
  <2>3. CASE gate_expired # 1 /\ st = "stopping"
    <3>1. Held /\ st' = "returned" /\ Held'
      BY <1>1, <1>7, <2>3 DEF StopFailed, Held
    <3> QED BY <1>2, <2>1, <3>1 DEF StopFailed
  <2>4. CASE gate_expired # 1 /\ st = "returned"
    <3>1. cb = "held" /\ st' = "waits" /\ primary_return_order' > 0
      BY <1>1, <1>3, <1>7, <2>4 DEF StopFailed, Held, OrderKept
    <3>2. callback_before_return_order' = 0 /\ stop_request' = 0
      <4>1. stop_request = 0
        BY <2>4 DEF LifecycleIInv, HelpersFollow
      <4> QED BY <1>1, <1>3, <1>7, <2>4, <3>1, <4>1 DEF GateKept
    <3> QED BY <1>2, <2>1, <3>1, <3>2 DEF StopFailed
  <2>5. CASE gate_expired # 1 /\ st \in {"waits", "calls"}
    BY <1>1, <1>7, <2>5 DEF StopFailed
  <2> QED BY <1>1, <2>2, <2>3, <2>4, <2>5
<1>8. FlawsAreSeen'
  BY <1>1, <1>2, <1>3, <1>5, <1>6, <1>7 DEF FlawsAreSeen
<1> QED BY <1>4, <1>8 DEF Test2Kept

LEMMA ProberKept == ASSUME LifecycleIInv, Test2Kept, Prober PROVE Test2Kept'
<1> USE DEF contractVars, driverVars, recordVars, gateVars, stopVars, runVars, scriptVars
<1>1. /\ UNCHANGED <<at, test, test_halted, verdict, events, dropped_events,
                     added, cb, gate_arm, gate_release, gate_expired, order_counter,
                     primary_return_order, callback_before_return_order, st, stop_request>>
      /\ broken' => broken \/ (Held /\ pr = "calls" /\ pr' = "returned" /\ probe_result' # "EBUSY")
      /\ \/ UNCHANGED <<phase, delivered>>
         \/ pr = "calls" /\ pr' = "returned" /\ probe_result' # "EBUSY"
      /\ \/ pr \notin {"returned"} /\ UNCHANGED probe_done
         \/ pr = "returned" /\ probe_done' = 1 /\ UNCHANGED probe_result
  <2>1. CASE ProberTakes
    BY <2>1 DEF ProberTakes
  <2>2. CASE ProberCalls
    <3>1. UNCHANGED <<phase, delivered>> \/ (pr' = "returned" /\ probe_result' = "OK")
      <4>1. CASE /\ pr' = "returned"
                 /\ \/ Call(probe_command, probe_result')
                    \/ UNCHANGED <<contractVars, delivered>>
        BY <4>1 DEF Call, Request, Register, List, Contract!SetCallback
      <4>2. CASE UNCHANGED delivered /\ (UNCHANGED contractVars \/ Contract!RequestStop)
        BY <4>2 DEF Contract!RequestStop
      <4> QED BY <2>2, <4>1, <4>2 DEF ProberCalls
    <3> QED BY <2>2, <3>1 DEF ProberCalls
  <2>3. CASE ProbeStopReturns
    BY <2>3 DEF ProbeStopReturns
  <2>4. CASE ProberGives
    BY <2>4 DEF ProberGives
  <2> QED BY <2>1, <2>2, <2>3, <2>4 DEF Prober
<1>2. opened' = opened
  BY <1>1, Stays
<1>3. OrderKept /\ GateKept /\ FlawsAreSeen
  BY DEF Test2Kept
<1>4. OrderKept' /\ GateKept'
  <2>1. OrderKept'
    BY <1>1, <1>3 DEF OrderKept
  <2> QED BY <1>1, <1>2, <1>3, <2>1 DEF GateKept
<1>5. StopFailed' <=> StopFailed
  BY <1>1, <1>2 DEF StopFailed, Held
<1>6. ~test_halted /\ pr = "calls" => "probe" \in opened
  BY HelpersWithin
<1>7. ~test_halted /\ ~(UNCHANGED <<phase, delivered>>) => ProbeFailed'
  BY <1>1, <1>2, <1>6 DEF ProbeFailed
<1>8. ~test_halted /\ broken' /\ ~broken => ProbeFailed'
  BY <1>1, <1>2, <1>6 DEF ProbeFailed
<1>9. ProbeFailed => ProbeFailed'
  <2>1. probe_done = 1 => pr = "waits"
    BY DEF LifecycleIInv, HelpersFollow
  <2>2. pr = "returned" => probe_done' = 1 /\ UNCHANGED probe_result
    BY <1>1
  <2>3. probe_done = 1 => UNCHANGED <<probe_done, probe_result>>
    BY <1>1, <2>1 DEF Prober, ProberTakes, ProberCalls, ProbeStopReturns, ProberGives
  <2> QED BY <1>2, <2>2, <2>3 DEF ProbeFailed
<1>10. UNCHANGED <<phase, delivered>> => (TraceFailed' <=> TraceFailed)
  BY <1>1, <1>2 DEF TraceFailed, LegalTrace
<1>11. FlawsAreSeen'
  BY <1>1, <1>2, <1>3, <1>5, <1>7, <1>8, <1>9, <1>10 DEF FlawsAreSeen
<1> QED BY <1>4, <1>11 DEF Test2Kept

(* What the driver's steps leave alone of the shell and its helpers. *)
shellPlace == <<at, test, test_halted, verdict, pr, probe_done, probe_result, st, stop_request>>

LEMMA ReportsKept == ASSUME LifecycleIInv, Test2Kept, DriverReports PROVE Test2Kept'
<1> USE DEF contractVars, driverVars, recordVars, gateVars, stopVars, probeVars, runVars, scriptVars
<1>1. /\ UNCHANGED shellPlace /\ UNCHANGED <<broken, order_counter, primary_return_order,
                     callback_before_return_order, gate_release, gate_expired>>
      /\ cb \in {"none", "returns"} /\ phase # "idle" /\ phase' # "idle"
      /\ delivered' = Append(delivered, event')
      /\ \/ events' = Append(events, event') /\ UNCHANGED dropped_events
         \/ dropped_events' = dropped_events + 1
      /\ \/ gate_arm = 1 /\ cb' = "held" /\ gate_arm' = 0
         \/ cb' = "returns" /\ UNCHANGED gate_arm
  <2>1. phase # "idle" /\ phase' # "idle"
    <3>1. CASE Contract!Result
      BY <3>1 DEF Contract!Result
    <3>2. CASE Contract!ReportError
      BY <3>2 DEF Contract!ReportError
    <3>3. CASE Contract!ReportStopped
      BY <3>3 DEF Contract!ReportStopped
    <3>4. CASE Misreports
      BY <3>4 DEF Misreports
    <3> QED BY <3>1, <3>2, <3>3, <3>4 DEF DriverReports
  <2> QED BY <2>1 DEF DriverReports, CallbackStarts, shellPlace
<1>2. opened' = opened
  BY <1>1, Stays DEF shellPlace
<1>3. OrderKept /\ GateKept /\ FlawsAreSeen
  BY DEF Test2Kept
<1>4. ~test_halted => "request" \in opened /\ "uncompared" \in opened
  BY <1>1, HelpersWithin
<1>5. OrderKept'
  BY <1>1, <1>3 DEF OrderKept
<1>6. GateKept'
  BY <1>1, <1>2, <1>3, <1>4 DEF GateKept, shellPlace
<1>7. ProbeFailed' <=> ProbeFailed
  BY <1>1, <1>2 DEF ProbeFailed, shellPlace
<1>8. StopFailed /\ ~test_halted => StopFailed'
  BY <1>1, <1>2, <1>3 DEF StopFailed, Held, GateKept, shellPlace
<1>9. TraceFailed => TraceFailed'
  BY <1>1, <1>2, <1>3 DEF TraceFailed, OrderKept
<1>10. dropped_events > 0 => dropped_events' > 0
  BY <1>1, <1>3 DEF OrderKept
<1>11. ~test_halted => ProbeFailed' \/ dropped_events' > 0 \/ events' = delivered'
  BY <1>1, <1>3, <1>4, <1>7, <1>10 DEF FlawsAreSeen, OrderKept
<1>12. FlawsAreSeen'
  BY <1>1, <1>2, <1>3, <1>4, <1>7, <1>8, <1>9, <1>11 DEF FlawsAreSeen, shellPlace
<1> QED BY <1>5, <1>6, <1>12 DEF Test2Kept

LEMMA GateStepsKept ==
    ASSUME LifecycleIInv, Test2Kept, GateReleased \/ GateExpires \/ CallbackMarks \/ CallbackReturns
    PROVE  Test2Kept'
<1> USE DEF contractVars, driverVars, recordVars, gateVars, stopVars, probeVars, runVars, scriptVars
<1>1. /\ UNCHANGED shellPlace
      /\ UNCHANGED <<broken, added, delivered, events, dropped_events, primary_return_order,
                     gate_arm>>
      /\ phase' = "idle" <=> phase = "idle"
      /\ \/ cb = "held" /\ cb' = "released" /\ gate_release = 1
            /\ UNCHANGED <<gate_expired, order_counter, callback_before_return_order>>
         \/ cb = "held" /\ cb' = "released" /\ gate_release = 0 /\ gate_expired' = 1
            /\ UNCHANGED <<order_counter, callback_before_return_order>>
         \/ cb = "released" /\ cb' = "returns" /\ UNCHANGED gate_expired
            /\ order_counter' = order_counter + 1 /\ callback_before_return_order' = order_counter'
         \/ cb = "returns" /\ cb' = "none"
            /\ UNCHANGED <<gate_expired, order_counter, callback_before_return_order>>
  <2>1. CASE GateReleased
    BY <2>1 DEF GateReleased, shellPlace
  <2>2. CASE GateExpires
    BY <2>2 DEF GateExpires, shellPlace
  <2>3. CASE CallbackMarks
    BY <2>3 DEF CallbackMarks, shellPlace
  <2>4. CASE CallbackReturns
    <3>1. phase' = "idle" <=> phase = "idle"
      BY <2>4 DEF CallbackReturns, Contract!ResultReturn, Contract!StoppedReturn
    <3> QED BY <2>4, <3>1 DEF CallbackReturns, shellPlace
  <2> QED BY <2>1, <2>2, <2>3, <2>4
<1>2. opened' = opened
  BY <1>1, Stays DEF shellPlace
<1>3. OrderKept /\ GateKept /\ FlawsAreSeen
  BY DEF Test2Kept
<1>4. OrderKept'
  BY <1>1, <1>3 DEF OrderKept
<1>5. GateKept'
  BY <1>1, <1>2, <1>3 DEF GateKept, OrderKept, shellPlace
<1>6. ProbeFailed' <=> ProbeFailed
  BY <1>1, <1>2 DEF ProbeFailed, shellPlace
<1>7. StopFailed => StopFailed'
  <2>1. CASE gate_expired = 1
    BY <1>1, <1>2, <2>1 DEF StopFailed
  <2>2. CASE gate_expired # 1 /\ st = "returned"
    BY <1>1, <1>2, <2>2 DEF StopFailed, Held, shellPlace
  <2>3. CASE gate_expired # 1 /\ st # "returned"
    <3>1. SUFFICES ASSUME StopFailed PROVE StopFailed'
      OBVIOUS
    <3>2. /\ "held" \in opened /\ "unstopped" \notin opened
          /\ st = "waits" /\ stop_request = 0 /\ primary_return_order > 0
          /\ \/ callback_before_return_order = 0
             \/ callback_before_return_order > primary_return_order
      BY <2>3, <3>1 DEF StopFailed
    <3>3. \/ callback_before_return_order' = 0
          \/ callback_before_return_order' > primary_return_order
      BY <1>1, <1>3, <3>2 DEF OrderKept
    <3> QED BY <1>1, <1>2, <3>2, <3>3 DEF StopFailed, shellPlace
  <2> QED BY <2>1, <2>2, <2>3
<1>8. TraceFailed' <=> TraceFailed
  BY <1>1, <1>2 DEF TraceFailed, LegalTrace
<1>9. FlawsAreSeen'
  BY <1>1, <1>2, <1>3, <1>6, <1>7, <1>8 DEF FlawsAreSeen, shellPlace
<1> QED BY <1>4, <1>5, <1>9 DEF Test2Kept

LEMMA RequestStepsKept ==
    ASSUME LifecycleIInv, Test2Kept,
           Settles \/ CleanupFails \/ Stores \/ SkipsStopped \/ BecomesIdle
    PROVE  Test2Kept'
<1> USE DEF contractVars, driverVars, recordVars, gateVars, stopVars, probeVars, runVars, scriptVars
<1>1. /\ UNCHANGED shellPlace
      /\ UNCHANGED <<cb, delivered, recordVars, gateVars>>
      /\ phase # "idle"
      /\ phase' = "idle" \/ broken' = broken
      /\ broken' = broken \/ broken' = (broken \/ ~LegalTrace(delivered))
  <2>1. CASE Settles
    BY <2>1 DEF Settles, Contract!Settle, shellPlace
  <2>2. CASE CleanupFails
    BY <2>2 DEF CleanupFails, Contract!CleanupFails, shellPlace
  <2>3. CASE Stores
    BY <2>3 DEF Stores, shellPlace
  <2>4. CASE SkipsStopped
    BY <2>4 DEF SkipsStopped, shellPlace
  <2>5. CASE BecomesIdle
    <3>1. phase = "stopped" /\ phase' = "idle"
      BY <2>5 DEF BecomesIdle, Contract!BecomeIdle
    <3> QED BY <2>5, <3>1 DEF BecomesIdle, shellPlace
  <2> QED BY <2>1, <2>2, <2>3, <2>4, <2>5
<1>2. opened' = opened
  BY <1>1, Stays DEF shellPlace
<1>3. OrderKept /\ GateKept /\ FlawsAreSeen
  BY DEF Test2Kept
<1>4. OrderKept' /\ GateKept'
  <2>1. OrderKept'
    BY <1>1, <1>3 DEF OrderKept
  <2> QED BY <1>1, <1>2, <1>3, <2>1 DEF GateKept, shellPlace
<1>5. ~test_halted => "request" \in opened /\ "uncompared" \in opened
  BY <1>1, HelpersWithin
<1>6. ProbeFailed' <=> ProbeFailed
  BY <1>1, <1>2 DEF ProbeFailed, shellPlace
<1>7. StopFailed' <=> StopFailed
  BY <1>1, <1>2 DEF StopFailed, Held, shellPlace
<1>8. TraceFailed => TraceFailed'
  BY <1>1, <1>2 DEF TraceFailed
<1>9. ~test_halted /\ broken' /\ ~broken => ProbeFailed' \/ TraceFailed'
  <2> SUFFICES ASSUME ~test_halted, broken', ~broken PROVE ProbeFailed' \/ TraceFailed'
    OBVIOUS
  <2>1. phase' = "idle" /\ ~LegalTrace(delivered)
    BY <1>1
  <2>2. ProbeFailed \/ dropped_events > 0 \/ events = delivered
    BY <1>3, <1>5 DEF FlawsAreSeen
  <2>3. CASE dropped_events > 0
    BY <1>1, <1>2, <1>5, <2>3 DEF TraceFailed
  <2>4. CASE events = delivered
    <3>1. ~LegalTrace(events) /\ events' = events
      BY <1>1, <2>1, <2>4
    <3>2. LegalTrace(events)' <=> LegalTrace(events)
      BY <3>1 DEF LegalTrace
    <3> QED BY <1>2, <1>5, <2>1, <3>1, <3>2 DEF TraceFailed
  <2> QED BY <1>6, <2>2, <2>3, <2>4
<1>10. ~test_halted => ProbeFailed' \/ dropped_events' > 0 \/ events' = delivered'
  BY <1>1, <1>3, <1>5, <1>6 DEF FlawsAreSeen
<1>11. FlawsAreSeen'
  BY <1>1, <1>2, <1>3, <1>5, <1>6, <1>7, <1>8, <1>9, <1>10 DEF FlawsAreSeen, shellPlace
<1> QED BY <1>4, <1>11 DEF Test2Kept

LEMMA Test2KeptAlways == LifecycleSpec => []Test2Kept
<1>1. ASSUME LifecycleIInv, Test2Kept, [LifecycleNext]_lifecycleVars PROVE Test2Kept'
  <2>1. CASE cmd_run
    BY <1>1, <2>1, CommandKept
  <2>2. CASE ShellThread
    <3>1. Lists => Step("snapshot") \/ Step("unchanged")
      BY DEF Lists
    <3> QED BY <1>1, <2>2, <3>1, ShellVerifies, ClearedKept, ComparedKept, AskedKept, JudgedKept
            DEF ShellThread
  <2>3. CASE Stopper
    BY <1>1, <2>3, StopperKept
  <2>4. CASE Prober
    BY <1>1, <2>4, ProberKept
  <2>5. CASE \/ DriverReports \/ GateReleased \/ GateExpires \/ CallbackMarks \/ CallbackReturns
             \/ Settles \/ CleanupFails \/ Stores \/ SkipsStopped \/ BecomesIdle
    BY <1>1, <2>5, ReportsKept, GateStepsKept, RequestStepsKept
  <2>6. CASE UNCHANGED lifecycleVars
    <3> USE DEF contractVars, driverVars, recordVars, gateVars, stopVars, probeVars, runVars,
                scriptVars, lifecycleVars
    <3>1. opened' = opened
      BY <2>6, Stays
    <3>2. /\ ProbeFailed' <=> ProbeFailed
          /\ StopFailed' <=> StopFailed
          /\ TraceFailed' <=> TraceFailed
      BY <2>6, <3>1 DEF ProbeFailed, StopFailed, TraceFailed, Held, LegalTrace
    <3>3. OrderKept' /\ GateKept'
      BY <1>1, <2>6, <3>1 DEF Test2Kept, OrderKept, GateKept
    <3>4. FlawsAreSeen'
      BY <1>1, <2>6, <3>1, <3>2 DEF Test2Kept, FlawsAreSeen
    <3> QED BY <3>3, <3>4 DEF Test2Kept
  <2> QED BY <1>1, <2>1, <2>2, <2>3, <2>4, <2>5, <2>6 DEF LifecycleNext
<1> QED BY <1>1, Test2Starts, Test2Invariance, PTL DEF LifecycleSpec

(* Whatever the driver does, when a run passes it has kept its contract in view of the test, *)
(* and left the library as it was: no stop has returned and no call has succeeded while the  *)
(* callback was held (2B:438, 2B:475), every trace was a legal one (biometrics.h:158-188).   *)
THEOREM Test2PassMeansKept == LifecycleSpec => []PassMeansKept
<1>1. LifecycleIInv /\ Test2Kept => PassMeansKept
  <2> SUFFICES ASSUME LifecycleIInv, Test2Kept, verdict = "PASS" PROVE ~broken /\ ~added
    BY DEF PassMeansKept
  <2>1. ~test_halted /\ opened = {}
    BY DEF LifecycleIInv, AtStep, opened
  <2> QED BY <2>1 DEF Test2Kept, FlawsAreSeen, ProbeFailed, StopFailed, TraceFailed
<1> QED BY <1>1, Test2Invariance, Test2KeptAlways, PTL

(***************************************************************************)
(* A failure has a reason.                                                 *)
(***************************************************************************)

(* The traces that are expected. *)
StoppedWith(status) == Contract!Event("STOPPED", status)

LEMMA TimedOutTrace ==
    t2_evaluate(<<Contract!Event("ERROR", "ETIMEDOUT"), StoppedWith("ETIMEDOUT")>>,
                "ENROLL_TIMEOUT")
<1> DEFINE trace == <<Contract!Event("ERROR", "ETIMEDOUT"), StoppedWith("ETIMEDOUT")>>
<1>1. /\ Len(trace) = 2 /\ DOMAIN trace = 1 .. 2
      /\ trace[1].type = "ERROR" /\ trace[1].status = "ETIMEDOUT"
      /\ trace[2].type = "STOPPED" /\ trace[2].status = "ETIMEDOUT"
  BY DEF Contract!Event, StoppedWith
<1> HIDE DEF trace
<1>2. /\ Of(trace, "ERROR") = {1} /\ Of(trace, "STOPPED") = {2}
  BY <1>1 DEF Of
<1>3. Cardinality({1}) = 1
  BY FS_Singleton
<1>4. Lifecycle(trace)
  BY <1>1, <1>2, <1>3 DEF Lifecycle
<1>5. t2_evaluate(trace, "ENROLL_TIMEOUT")
  BY <1>1, <1>2, <1>3, <1>4 DEF t2_evaluate, Times
<1> QED BY <1>5 DEF trace

LEMMA OnceTrace == t2_evaluate(<<NoMatch, StoppedWith("OK")>>, "ONCE_NO_SAMPLE")
<1> DEFINE trace == <<NoMatch, StoppedWith("OK")>>
<1>1. /\ Len(trace) = 2 /\ DOMAIN trace = 1 .. 2
      /\ trace[1].type = "NO_MATCH" /\ trace[1].status = "ETIMEDOUT"
      /\ trace[2].type = "STOPPED" /\ trace[2].status = "OK"
  BY DEF Contract!Event, StoppedWith, NoMatch
<1> HIDE DEF trace
<1>2. /\ Of(trace, "ERROR") = {} /\ Of(trace, "STOPPED") = {2} /\ Of(trace, "NO_MATCH") = {1}
  BY <1>1 DEF Of
<1>3. Cardinality({1}) = 1 /\ Cardinality({}) = 0
  BY FS_Singleton, FS_EmptySet
<1>4. Lifecycle(trace)
  BY <1>1, <1>2, <1>3 DEF Lifecycle
<1>5. t2_evaluate(trace, "ONCE_NO_SAMPLE")
  BY <1>1, <1>2, <1>3, <1>4 DEF t2_evaluate, Times
<1> QED BY <1>5 DEF trace

LEMMA CancelledTrace == t2_evaluate(<<StoppedWith("ECANCELED")>>, "CANCEL_ENROLL")
<1> DEFINE trace == <<StoppedWith("ECANCELED")>>
<1>1. /\ Len(trace) = 1 /\ DOMAIN trace = 1 .. 1
      /\ trace[1].type = "STOPPED" /\ trace[1].status = "ECANCELED"
  BY DEF Contract!Event, StoppedWith
<1> HIDE DEF trace
<1>2. /\ Of(trace, "ERROR") = {} /\ Of(trace, "STOPPED") = {1}
  BY <1>1 DEF Of
<1>3. Cardinality({}) = 0
  BY FS_EmptySet
<1>4. Lifecycle(trace)
  BY <1>1, <1>2, <1>3 DEF Lifecycle
<1>5. t2_evaluate(trace, "CANCEL_ENROLL")
  BY <1>1, <1>4 DEF t2_evaluate
<1> QED BY <1>5 DEF trace

LEMMA NoMatchesTrace ==
    ASSUME NEW s \in Seq(EventValues), \A i \in DOMAIN s : s[i] = NoMatch
    PROVE  t2_evaluate(Append(s, StoppedWith("ECANCELED")), "CANCEL_IDENTIFY")
<1> DEFINE n == Len(s) + 1
           trace == Append(s, StoppedWith("ECANCELED"))
<1>1. /\ n \in Nat /\ n > 0 /\ Len(trace) = n /\ DOMAIN trace = 1 .. n
      /\ \A i \in 1 .. n - 1 : trace[i] = NoMatch
      /\ trace[n] = StoppedWith("ECANCELED")
  <2>1. StoppedWith("ECANCELED") \in EventValues
    BY DEF StoppedWith, Contract!Event, EventValues, Contract!Errnos
  <2>2. /\ Len(s) \in Nat /\ DOMAIN s = 1 .. Len(s)
    OBVIOUS
  <2> QED BY <2>1, <2>2, AppendProperties
<1> HIDE DEF trace, n
<1>2. /\ \A i \in 1 .. n - 1 : trace[i].type = "NO_MATCH" /\ trace[i].status = "ETIMEDOUT"
      /\ trace[n].type = "STOPPED" /\ trace[n].status = "ECANCELED"
  BY <1>1 DEF Contract!Event, StoppedWith, NoMatch
<1>3. /\ Of(trace, "ERROR") = {} /\ Of(trace, "MATCH") = {} /\ Of(trace, "ENROLL_COMPLETE") = {}
      /\ Of(trace, "STOPPED") = {n}
  <2>1. \A i \in 1 .. n : i = n \/ i \in 1 .. n - 1
    BY <1>1
  <2> QED BY <1>1, <1>2, <2>1 DEF Of
<1>4. Cardinality({}) = 0
  BY FS_EmptySet
<1>5. Lifecycle(trace)
  <2>1. \A i \in 1 .. n : i = n \/ i \in 1 .. n - 1
    BY <1>1
  <2>2. \A i \in 1 .. n : /\ trace[i].type \notin {"MATCH", "ENROLL_COMPLETE", "ERROR"}
                          /\ trace[i].type = "NO_MATCH" => trace[i].status # "OK"
    BY <1>2, <2>1
  <2>3. /\ Of(trace, "STOPPED") = {Len(trace)}
        /\ Of(trace, "ERROR") = {}
        /\ trace[Len(trace)].status = "ECANCELED"
    BY <1>1, <1>2, <1>3
  <2>4. \A i \in DOMAIN trace :
            /\ trace[i].type \in {"MATCH", "ENROLL_COMPLETE"} => trace[i].status = "OK"
            /\ trace[i].type \in {"NO_MATCH", "ERROR"} => trace[i].status # "OK"
    BY <1>1, <2>2
  <2>5. Cardinality(Of(trace, "ERROR")) <= 1
    <3>1. Cardinality(Of(trace, "ERROR")) = 0
      BY <1>4, <2>3, Zenon
    <3> QED BY <3>1
  <2>6. \A i \in DOMAIN trace : \A e \in Of(trace, "ERROR") : i < e
    BY <2>3
  <2> QED BY <2>3, <2>4, <2>5, <2>6 DEF Lifecycle
<1>6. t2_evaluate(trace, "CANCEL_IDENTIFY")
  BY <1>1, <1>2, <1>3, <1>4, <1>5 DEF t2_evaluate, Times
<1> QED BY <1>6 DEF trace

(* Where the shell thread runs the helpers stand still. *)
LEMMA ShellStands ==
    ASSUME LifecycleIInv, NothingFails, Clean, Turn, at > 0
    PROVE  /\ ~test_halted /\ ~Uncalled
           /\ pr = "waits" /\ probe_request = 0 /\ ("probe" \in opened <=> probe_done = 1)
           /\ st \in {"waits", "stopping"} /\ stop_request = 0
           /\ "stop" \in opened <=> st = "stopping" \/ stop_done = 1
           /\ stop_done = 1 => st = "waits"
           /\ st = "stopping" => phase # "idle"
           /\ "request" \notin opened => phase = "idle" /\ cb = "none" /\ ~Busy
<1>1. ~test_halted /\ StopAnswers /\ ProbeAnswers /\ HelpersFollow /\ AtStep
  BY DEF NothingFails, LifecycleIInv
<1>2. pr = "waits"
  BY <1>1 DEF Turn, ProberReady, Waits, Clean, HelpersFollow, ProbeAnswers
<1>3. probe_request = 0
  BY <1>1, <1>2 DEF Turn, ProberReady, HelpersFollow
<1>4. st \in {"waits", "stopping"} /\ (st = "stopping" => phase # "idle")
  BY <1>1 DEF Turn, StopperReady, HelpersFollow
<1>5. stop_request = 0
  BY <1>1, <1>4 DEF Turn, StopperReady, HelpersFollow
<1>6. ~Uncalled
  BY <1>4, <1>5 DEF Uncalled
<1>7. "probe" \in opened <=> probe_done = 1
  BY <1>1, <1>2, <1>3 DEF HelpersFollow
<1>8. /\ "stop" \in opened <=> st = "stopping" \/ stop_done = 1
      /\ stop_done = 1 => st = "waits"
  BY <1>1, <1>4, <1>5 DEF HelpersFollow
<1>9. "request" \notin opened => phase = "idle" /\ cb = "none"
  BY <1>1 DEF LifecycleIInv, RequestsEnd, CallbackRuns
<1>10. "request" \notin opened => ~Busy
  BY <1>1, <1>2, <1>9 DEF Busy, StopWaits, StopAnswers
<1> QED BY <1>1, <1>2, <1>3, <1>4, <1>5, <1>6, <1>7, <1>8, <1>9, <1>10

(* What is said of the trace speaks of these only. *)
requestTrace == <<phase, operation, continuous, outcome, event, events, delivered, callback_count,
                  expected, cancel>>

LEMMA TraceStays == ASSUME UNCHANGED requestTrace PROVE TraceSoFar' <=> TraceSoFar
<1> USE DEF requestTrace
<1>1. /\ WhileActive' <=> WhileActive
      /\ OnceSettled' <=> OnceSettled
      /\ OnceFailed' <=> OnceFailed
  BY DEF WhileActive, OnceSettled, OnceFailed, OnlyNoMatches
<1>2. t2_evaluate(events, expected)' <=> t2_evaluate(events, expected)
  BY DEF t2_evaluate, Lifecycle, Of, Times
<1> QED BY <1>1, <1>2 DEF TraceSoFar

observedVars == <<requestTrace, cb, callback, added, dropped_events, gate_release, gate_active,
                  gate_expired, callback_before_return_order, primary_return_order,
                  primary_returned, st, stop_request, stop_result, pr, probe_command,
                  probe_active_before, probe_active_after, probe_result>>

(* Most checks that succeed: nothing changes that a failure could come from. *)
LEMMA PassedClean ==
    ASSUME LifecycleIInv, NothingFails, Clean, at > 0, Continue,
           UNCHANGED <<test, observedVars, gate_entered, stop_done, probe_done>>,
           script[at][1] \in {"refused", "busy", "quiet", "snapshot", "unchanged", "entered",
                              "terminal", "window"}
    PROVE  NothingFails'
<1>1. /\ ~test_halted'
      /\ "probe" \in opened' <=> "probe" \in opened
      /\ "stop" \in opened' <=> "stop" \in opened
      /\ "request" \in opened' <=> "request" \in opened
      /\ "unstopped" \in opened' <=> "unstopped" \in opened
      /\ "timed" \in opened' <=> "timed" \in opened
      /\ "held" \in opened' <=> "held" \in opened
      /\ "closed" \in opened' <=> "closed" \in opened
      /\ "gated" \in opened' <=> "gated" \in opened
      /\ "ungated" \in opened' <=> "ungated" \in opened
      /\ "registered" \in opened' => "registered" \in opened
      /\ "unregistered" \in opened' <=> "unregistered" \in opened
      /\ "silent" \in opened' <=> "silent" \in opened
  BY MarksNext DEF LifecycleIInv
<1>2. StopAnswers /\ ProbeAnswers /\ GateWorks /\ RequestGoes /\ LibraryKept
  BY DEF NothingFails
<1>3. StopAnswers' /\ ProbeAnswers'
  BY <1>1, <1>2 DEF StopAnswers, ProbeAnswers, Uncalled, observedVars, requestTrace
<1>4. GateWorks'
  BY <1>1, <1>2 DEF GateWorks, observedVars, requestTrace
<1>5. EndsAsAsked' <=> EndsAsAsked
  BY <1>1 DEF EndsAsAsked, Uncalled, observedVars, requestTrace
<1>6. RequestGoes'
  BY <1>1, <1>2, <1>5, TraceStays DEF RequestGoes, observedVars
<1>7. LibraryKept'
  BY <1>1, <1>2 DEF LibraryKept, observedVars, requestTrace
<1> QED BY <1>1, <1>3, <1>4, <1>6, <1>7 DEF NothingFails

(* The answers to calls that the driver must refuse at once. *)
LEMMA RefusesAtOnce ==
    ASSUME Busy, NEW command, NEW r, Call(command, r)
    PROVE  r = "EBUSY" /\ UNCHANGED <<contractVars, delivered>>
  BY DEF Call, Request, Register, List

LEMMA RefusedClean ==
    ASSUME LifecycleIInv, NothingFails, Clean, Refused
    PROVE  NothingFails'
<1> USE DEF contractVars, driverVars, recordVars, otherGateVars, gateVars, stopVars, probeVars,
            runVars, observedVars, requestTrace
<1>1. /\ at > 0 /\ AtStep /\ Turn /\ script[at][1] \in {"refused", "busy"}
      /\ Step("busy") <=> script[at][1] = "busy"
  BY DEF LifecycleIInv, Refused, Step
<1>2. Allowed(script[at], opened)
  BY <1>1, NextStep
<1>3. PICK r \in Results :
          IF Step("busy") THEN Call(Parameter, r) /\ Verify(r = "EBUSY")
          ELSE (Call("ENROLL", r) \/ Call("IDENTIFY", r)) /\ Verify(r = "EINVAL")
  BY DEF Refused
<1>4. CASE script[at][1] = "busy"
  <2>1. Busy
    <3>1. /\ "request" \in opened /\ "timed" \notin opened
          /\ "held" \notin opened /\ "unstopped" \in opened
      BY <1>2, <1>4 DEF Allowed
    <3>2. EndsAsAsked
      BY <3>1 DEF NothingFails, RequestGoes
    <3> QED BY <3>1, <3>2 DEF EndsAsAsked, Busy
  <2>2. r = "EBUSY" /\ UNCHANGED <<contractVars, delivered>> /\ Verify(r = "EBUSY")
    BY <1>1, <1>3, <1>4, <2>1, RefusesAtOnce
  <2>3. Continue /\ UNCHANGED <<gate_release, otherGateVars>>
    BY <2>2 DEF Verify, Check, Release
  <2> QED BY <1>1, <2>2, <2>3, PassedClean DEF Refused
<1>5. CASE script[at][1] = "refused"
  <2>1. ~Busy /\ callback = NoCallback
    <3>1. "unregistered" \in opened /\ "request" \notin opened
      BY <1>2, <1>5 DEF Allowed
    <3> QED BY <1>1, <3>1, ShellStands DEF NothingFails, LibraryKept
  <2>2. r = "EINVAL" /\ UNCHANGED <<contractVars, delivered>> /\ Verify(r = "EINVAL")
    BY <1>1, <1>3, <1>5, <2>1 DEF Call, Request
  <2>3. Continue /\ UNCHANGED <<gate_release, otherGateVars>>
    BY <2>2 DEF Verify, Check, Release
  <2> QED BY <1>1, <2>2, <2>3, PassedClean DEF Refused
<1> QED BY <1>1, <1>4, <1>5

LEMMA ChecksClean ==
    ASSUME LifecycleIInv, NothingFails, Clean, Clean',
           StaysQuiet \/ Lists \/ StopEntered \/ GateWindow \/ TerminalSeen
    PROVE  NothingFails'
<1> USE DEF contractVars, driverVars, recordVars, otherGateVars, gateVars, stopVars, probeVars,
            runVars, observedVars, requestTrace
<1>1. /\ at > 0 /\ AtStep /\ Turn
      /\ script[at][1] \in {"quiet", "snapshot", "unchanged", "entered", "terminal", "window"}
  BY DEF LifecycleIInv, StaysQuiet, Lists, StopEntered, GateWindow, TerminalSeen, Step
<1>2. Allowed(script[at], opened)
  BY <1>1, NextStep
<1>3. StopAnswers /\ GateWorks /\ LibraryKept
  BY DEF NothingFails
<1>4. CASE StaysQuiet
  <2>1. script[at][1] = "quiet"
    BY <1>4 DEF StaysQuiet, Step
  <2>2. events = <<>> /\ dropped_events = 0 /\ callback_count = 0
    BY <1>2, <1>3, <2>1 DEF Allowed, LibraryKept
  <2>3. Continue /\ UNCHANGED <<gate_release, otherGateVars>>
    BY <1>4, <2>2 DEF StaysQuiet, Verify, Check, Release
  <2> QED BY <1>1, <1>4, <2>3, PassedClean DEF StaysQuiet
<1>5. CASE Lists
  <2>1. script[at][1] \in {"snapshot", "unchanged"}
    BY <1>5 DEF Lists, Step
  <2>2. ~Busy
    BY <1>1, <1>2, <2>1, ShellStands DEF Allowed
  <2>3. PICK r \in Results : /\ List(r)
                             /\ Verify(r = "OK" /\ (Step("unchanged") => ~added))
                             /\ excused' = (excused \/ r = "EIO")
    BY <1>5 DEF Lists
  <2>4. r = "OK" /\ UNCHANGED <<contractVars, delivered>>
    BY <2>2, <2>3 DEF List, Clean
  <2>5. Continue /\ UNCHANGED <<gate_release, otherGateVars>>
    BY <1>3, <2>3, <2>4 DEF Verify, Check, Release, LibraryKept
  <2> QED BY <1>1, <1>5, <2>4, <2>5, PassedClean DEF Lists
<1>6. CASE StopEntered
  BY <1>1, <1>6, PassedClean DEF StopEntered
<1>7. CASE GateWindow
  <2>1. "gated" \in opened /\ "stop" \in opened
    BY <1>2, <1>7 DEF Allowed, GateWindow, Step
  <2>2. "held" \in opened /\ "unstopped" \notin opened
    BY <1>2, <2>1, <1>1, NextStep DEF Coherent
  <2>3. cb = "held" /\ gate_active = 1 /\ gate_expired = 0 /\ phase = "stopped"
    BY <1>3, <2>1 DEF GateWorks
  <2>4. primary_returned = 0
    BY <1>3, <2>1, <2>2, <2>3 DEF GateWorks
  <2>5. Continue /\ UNCHANGED <<gate_release, otherGateVars>>
    BY <1>7, <2>3, <2>4 DEF GateWindow, Verify, Check, Release
  <2> QED BY <1>1, <1>7, <2>5, PassedClean DEF GateWindow
<1>8. CASE TerminalSeen
  BY <1>1, <1>8, PassedClean DEF TerminalSeen
<1> QED BY <1>4, <1>5, <1>6, <1>7, <1>8

(* The watchdog of a probe does not fire. *)
LEMMA WatchdogClean ==
    ASSUME LifecycleIInv, NothingFails, Clean, Clean', WatchdogFires
    PROVE  NothingFails'
<1>1. excused' = (excused \/ ~Step("probed"))
  BY DEF WatchdogFires
<1>2. Step("probed")
  BY <1>1 DEF Clean
<1>3. at > 0 /\ Turn /\ AtStep /\ script[at][1] = "probed" /\ probe_done = 0
  BY <1>2 DEF WatchdogFires, Step, LifecycleIInv
<1>4. "probe" \in opened
  BY <1>3, NextStep DEF Allowed
<1>5. probe_done = 1
  BY <1>3, <1>4, ShellStands
<1> QED BY <1>3, <1>5

LEMMA PurgeClean ==
    ASSUME LifecycleIInv, NothingFails, Clean, Purge
    PROVE  NothingFails'
<1> USE DEF contractVars, driverVars, stopVars, probeVars, runVars
<1>1. /\ at > 0 /\ AtStep /\ Turn /\ script[at][1] = "purge" /\ begin_trace /\ Continue
      /\ UNCHANGED <<test, contractVars, added, cb, delivered, stopVars, probeVars, expected>>
      /\ gate_arm' = 0 /\ gate_release' = 0
  BY DEF LifecycleIInv, Purge, Step
<1>2. /\ "request" \notin opened /\ "held" \notin opened /\ "stop" \notin opened
      /\ "probe" \notin opened /\ "gated" \notin opened /\ "closed" \notin opened
  BY <1>1, NextStep DEF Allowed, Coherent
<1>3. /\ ~test_halted'
      /\ "probe" \notin opened' /\ "stop" \notin opened' /\ "request" \notin opened'
      /\ "held" \notin opened' /\ "closed" \notin opened' /\ "gated" \notin opened'
      /\ "registered" \in opened' => "registered" \in opened
      /\ "unregistered" \in opened' <=> "unregistered" \in opened
  BY <1>1, <1>2, MarksNext
<1>4. /\ cb = "none" /\ st = "waits" /\ stop_done # 1 /\ pr = "waits" /\ probe_done # 1
      /\ phase = "idle"
  BY <1>1, <1>2, ShellStands
<1>5. StopAnswers' /\ ProbeAnswers'
  BY <1>1, <1>3, <1>4 DEF StopAnswers, ProbeAnswers
<1>6. GateWorks' /\ RequestGoes'
  BY <1>1, <1>3, <1>4 DEF GateWorks, RequestGoes, begin_trace
<1>7. LibraryKept
  BY DEF NothingFails
<1>8. LibraryKept'
  BY <1>1, <1>3, <1>7 DEF LibraryKept, begin_trace
<1> QED BY <1>3, <1>5, <1>6, <1>8 DEF NothingFails

LEMMA StartClean ==
    ASSUME LifecycleIInv, NothingFails, Clean, start_operation
    PROVE  NothingFails'
<1> USE DEF contractVars, driverVars, stopVars, probeVars, runVars
<1> DEFINE a == script[at]
           op == IF Parameter \in {"ENROLL_TIMEOUT", "CANCEL_ENROLL"} THEN "ENROLLING"
                 ELSE "IDENTIFY"
<1>1. /\ at > 0 /\ AtStep /\ Turn /\ a[1] \in {"start", "hold"} /\ begin_trace
      /\ UNCHANGED <<test, added, cb, stopVars, probeVars>>
      /\ expected' = a[2]
      /\ Step("hold") <=> a[1] = "hold"
  BY DEF LifecycleIInv, start_operation, Step, Parameter
<1>2. Allowed(a, opened) /\ Coherent(opened)
  BY <1>1, NextStep
<1>3. /\ "request" \notin opened /\ "held" \notin opened /\ "stop" \notin opened
      /\ "probe" \notin opened /\ "gated" \notin opened /\ "closed" \notin opened
      /\ "ungated" \notin opened /\ "timed" \notin opened /\ "registered" \in opened
      /\ a[2] \in SelfEnding \cup {"CANCEL_ENROLL", "CANCEL_IDENTIFY"}
      /\ a \in Steps
  BY <1>1, <1>2 DEF Allowed, Coherent, SelfEnding
<1>4. /\ cb = "none" /\ st = "waits" /\ stop_done # 1 /\ pr = "waits" /\ probe_done # 1
      /\ phase = "idle" /\ ~Busy /\ ~Uncalled /\ event = Contract!NoEvent
  BY <1>1, <1>3, ShellStands DEF LifecycleIInv, CallbackRuns
<1>5. callback # NoCallback /\ callback = OnEvent /\ outcome = "OK" /\ ~added
      /\ dropped_events = 0
  BY <1>3, <1>4, LifecycleAssumption DEF NothingFails, LibraryKept
<1>6. /\ Contract!Accept /\ operation' = op /\ continuous' = (Parameter = "CANCEL_IDENTIFY")
      /\ delivered' = <<>> /\ Continue
      /\ gate_release' = 0
  <2>1. PICK r \in Results :
            /\ Request(op, Parameter = "CANCEL_IDENTIFY", r)
            /\ Check(r = "OK")
            /\ gate_release' = IF r = "OK" \/ ~Gated THEN 0 ELSE 1
    BY DEF start_operation
  <2>2. r = "OK" /\ Contract!Accept /\ operation' = op /\ delivered' = <<>>
        /\ continuous' = (Parameter = "CANCEL_IDENTIFY")
    BY <1>4, <1>5, <2>1 DEF Request
  <2> QED BY <2>1, <2>2 DEF Check
<1>7. /\ phase' = "active" /\ cancel' = 0 /\ UNCHANGED <<callback, outcome, event>>
  BY <1>6 DEF Contract!Accept
<1>8. /\ ~test_halted'
      /\ "probe" \notin opened' /\ "stop" \notin opened' /\ "request" \in opened'
      /\ "unstopped" \in opened'
      /\ "timed" \in opened' <=> a[2] \in SelfEnding
      /\ "held" \in opened' <=> a[1] = "hold"
      /\ "ungated" \in opened' <=> a[1] = "hold"
      /\ "gated" \notin opened'
      /\ "unregistered" \in opened' <=> "unregistered" \in opened
      /\ "silent" \notin opened'
  <2>1. a \in StepNames \X SelfEnding <=> a[2] \in SelfEnding
    BY <1>1, <1>2 DEF Allowed, SelfEnding
  <2> QED BY <1>1, <1>3, <1>6, <2>1, MarksNext DEF SelfEnding
<1>9. StopAnswers' /\ ProbeAnswers'
  BY <1>1, <1>4, <1>7, <1>8 DEF StopAnswers, ProbeAnswers, Uncalled
<1>10. GateWorks'
  BY <1>1, <1>4, <1>6, <1>7, <1>8 DEF GateWorks, begin_trace
<1>11. EndsAsAsked'
  BY <1>1, <1>3, <1>4, <1>7, <1>8 DEF EndsAsAsked
<1>12. WhileActive'
  BY <1>1, <1>3, <1>4, <1>5, <1>6, <1>7 DEF WhileActive, begin_trace, Parameter, OnlyNoMatches,
                                           SelfEnding
<1>13. RequestGoes'
  BY <1>1, <1>6, <1>7, <1>11, <1>12 DEF RequestGoes, TraceSoFar, begin_trace
<1>14. LibraryKept'
  BY <1>1, <1>5, <1>6, <1>7, <1>8 DEF NothingFails, LibraryKept, begin_trace
<1> QED BY <1>8, <1>9, <1>10, <1>13, <1>14 DEF NothingFails

LEMMA RegisterClean ==
    ASSUME LifecycleIInv, NothingFails, Clean, Registers
    PROVE  NothingFails'
<1> USE DEF contractVars, driverVars, recordVars, gateVars, otherGateVars, stopVars, probeVars,
            runVars
<1>1. /\ at > 0 /\ AtStep /\ Turn /\ script[at][1] \in {"register", "unregister"}
      /\ UNCHANGED <<test, added, cb, recordVars, stopVars, probeVars>>
      /\ Step("register") <=> script[at][1] = "register"
  BY DEF LifecycleIInv, Registers, Step
<1>2. /\ "request" \notin opened /\ "stop" \notin opened /\ "probe" \notin opened
      /\ "gated" \notin opened /\ "closed" \notin opened
  BY <1>1, NextStep DEF Allowed, Coherent
<1>3. /\ cb = "none" /\ st = "waits" /\ stop_done # 1 /\ pr = "waits" /\ probe_done # 1
      /\ phase = "idle" /\ ~Busy
  BY <1>1, <1>2, ShellStands
<1>4. PICK r \in Results :
          /\ Register(IF Step("register") THEN OnEvent ELSE NoCallback, r)
          /\ Verify(r = "OK")
  BY DEF Registers
<1>5. /\ r = "OK" /\ UNCHANGED <<phase, outcome>>
      /\ callback' = IF script[at][1] = "register" THEN OnEvent ELSE NoCallback
  BY <1>1, <1>3, <1>4 DEF Register, Contract!SetCallback
<1>6. Continue /\ UNCHANGED <<gate_release, otherGateVars>>
  BY <1>4, <1>5 DEF Verify, Check, Release
<1>7. /\ ~test_halted'
      /\ "probe" \notin opened' /\ "stop" \notin opened' /\ "request" \notin opened'
      /\ "held" \in opened' <=> "held" \in opened
      /\ "unstopped" \in opened' <=> "unstopped" \in opened
      /\ "ungated" \in opened' <=> "ungated" \in opened
      /\ "closed" \notin opened' /\ "gated" \notin opened'
      /\ "registered" \in opened' => script[at][1] = "register" \/ "registered" \in opened
      /\ "registered" \in opened' => script[at][1] # "unregister"
      /\ "unregistered" \in opened' <=> \/ script[at][1] = "unregister"
                                        \/ "unregistered" \in opened /\ script[at][1] # "register"
      /\ "silent" \in opened' <=> "silent" \in opened
  BY <1>1, <1>2, <1>6, MarksNext
<1>8. StopAnswers' /\ ProbeAnswers'
  BY <1>1, <1>3, <1>7 DEF StopAnswers, ProbeAnswers
<1>9. GateWorks /\ LibraryKept
  BY DEF NothingFails
<1>10. GateWorks' /\ RequestGoes'
  BY <1>1, <1>2, <1>3, <1>5, <1>6, <1>7, <1>9 DEF GateWorks, RequestGoes
<1>11. LibraryKept'
  BY <1>1, <1>5, <1>6, <1>7, <1>9 DEF LibraryKept
<1> QED BY <1>7, <1>8, <1>10, <1>11 DEF NothingFails

(* The steps that change what is asked of the helpers, and of the gate: what does not move. *)
LEMMA KeepsTrace ==
    ASSUME LifecycleIInv, NothingFails, Clean, at > 0, Continue, UNCHANGED <<test, observedVars>>,
           script[at][1] \in {"stopped", "probed", "gate", "markers"}
    PROVE  RequestGoes' /\ LibraryKept'
<1>1. /\ "request" \in opened' <=> "request" \in opened
      /\ "unstopped" \in opened' <=> "unstopped" \in opened
      /\ "timed" \in opened' <=> "timed" \in opened /\ script[at][1] # "gate"
      /\ "held" \in opened' <=> "held" \in opened /\ script[at][1] # "markers"
      /\ "ungated" \in opened' <=> "ungated" \in opened /\ script[at][1] # "gate"
      /\ "registered" \in opened' => "registered" \in opened
      /\ "unregistered" \in opened' <=> "unregistered" \in opened
      /\ "silent" \in opened' <=> "silent" \in opened
  BY MarksNext DEF LifecycleIInv
<1>2. /\ script[at][1] = "markers" => "request" \notin opened
      /\ script[at][1] = "gate" => "held" \in opened
  BY NextStep DEF LifecycleIInv, Allowed
<1>3. RequestGoes /\ LibraryKept
  BY DEF NothingFails
<1>4. "request" \in opened => EndsAsAsked'
  BY <1>1, <1>2, <1>3 DEF RequestGoes, EndsAsAsked, Uncalled, observedVars, requestTrace
<1>5. RequestGoes'
  BY <1>1, <1>3, <1>4, TraceStays DEF RequestGoes, observedVars
<1>6. LibraryKept'
  BY <1>1, <1>3 DEF LibraryKept, observedVars, requestTrace
<1> QED BY <1>5, <1>6

LEMMA StopClean ==
    ASSUME LifecycleIInv, NothingFails, Clean, Stop
    PROVE  NothingFails'
<1> USE DEF contractVars, driverVars, recordVars, probeVars, runVars
<1>1. /\ at > 0 /\ AtStep /\ Turn /\ script[at][1] = "stop" /\ Continue
      /\ UNCHANGED <<test, requestTrace, cb, callback, added, dropped_events, gate_entered,
                     gate_release, gate_active, gate_expired, callback_before_return_order,
                     st, stop_result, probeVars>>
      /\ stop_done' = 0 /\ stop_request' = 1 /\ primary_returned' = 0
  BY DEF LifecycleIInv, Stop, Step, requestTrace
<1>2. Allowed(script[at], opened) /\ Coherent(opened)
  BY <1>1, NextStep
<1>3. /\ "stop" \notin opened
      /\ "request" \in opened \/ "held" \in opened => {"request", "unstopped"} \subseteq opened
      /\ "held" \in opened /\ "ungated" \notin opened => "gated" \in opened
      /\ "gated" \in opened => "closed" \in opened
      /\ "timed" \notin opened
  BY <1>1, <1>2 DEF Allowed, Coherent
<1>4. /\ ~test_halted' /\ "stop" \in opened' /\ "unstopped" \notin opened'
      /\ "probe" \in opened' <=> "probe" \in opened
      /\ "request" \in opened' <=> "request" \in opened
      /\ "timed" \in opened' <=> "timed" \in opened
      /\ "held" \in opened' <=> "held" \in opened
      /\ "closed" \in opened' <=> "closed" \in opened
      /\ "gated" \in opened' <=> "gated" \in opened
      /\ "ungated" \in opened' <=> "ungated" \in opened
      /\ "registered" \in opened' => "registered" \in opened
      /\ "unregistered" \in opened' <=> "unregistered" \in opened
      /\ "silent" \in opened' <=> "silent" \in opened
  BY <1>1, MarksNext
<1>5. StopAnswers /\ ProbeAnswers /\ GateWorks /\ RequestGoes /\ LibraryKept
  BY DEF NothingFails
<1>6. st = "waits"
  BY <1>1, <1>3, ShellStands
<1>7. "request" \in opened => EndsAsAsked /\ cancel = 0
  BY <1>3, <1>5 DEF RequestGoes, EndsAsAsked
<1>8. "request" \in opened =>
          phase # "idle" /\ (expected \in SelfEnding => cb = "held" /\ gate_release = 0)
  <2>1. expected \in SelfEnding /\ "request" \in opened => cb = "held" /\ gate_release = 0
    BY <1>3, <1>5, <1>7 DEF EndsAsAsked, GateWorks
  <2>2. cb = "held" => phase = "stopped"
    BY <1>5 DEF GateWorks
  <2> QED BY <1>7, <2>1, <2>2 DEF EndsAsAsked
<1>9. StopAnswers'
  BY <1>1, <1>4, <1>6, <1>8 DEF StopAnswers, Uncalled, requestTrace
<1>10. ProbeAnswers'
  BY <1>1, <1>4, <1>5 DEF ProbeAnswers
<1>11. GateWorks'
  BY <1>1, <1>4, <1>5 DEF GateWorks, requestTrace
<1>12. "request" \in opened => EndsAsAsked'
  BY <1>1, <1>3, <1>4, <1>7 DEF EndsAsAsked, requestTrace
<1>13. RequestGoes'
  BY <1>1, <1>4, <1>5, <1>12, TraceStays DEF RequestGoes
<1>14. LibraryKept'
  BY <1>1, <1>4, <1>5 DEF LibraryKept, requestTrace
<1> QED BY <1>4, <1>9, <1>10, <1>11, <1>13, <1>14 DEF NothingFails

LEMMA ProbeAsksClean ==
    ASSUME LifecycleIInv, NothingFails, Clean, ProbeAsks
    PROVE  NothingFails'
<1> USE DEF contractVars, driverVars, recordVars, gateVars, stopVars, runVars
<1>1. /\ at > 0 /\ AtStep /\ Turn /\ script[at][1] = "probe" /\ Continue
      /\ UNCHANGED <<test, requestTrace, cb, callback, added, dropped_events, gateVars, stopVars,
                     pr>>
      /\ probe_command' = script[at][2] /\ probe_done' = 0
  BY DEF LifecycleIInv, ProbeAsks, Step, requestTrace, Parameter
<1>2. /\ script[at][2] = "STOP" => "stop" \in opened
      /\ "probe" \notin opened
  BY <1>1, NextStep DEF Allowed
<1>3. /\ ~test_halted'
      /\ "stop" \in opened' <=> "stop" \in opened
      /\ "unstopped" \in opened' <=> "unstopped" \in opened
      /\ "request" \in opened' <=> "request" \in opened
      /\ "timed" \in opened' <=> "timed" \in opened
      /\ "held" \in opened' <=> "held" \in opened
      /\ "closed" \in opened' <=> "closed" \in opened
      /\ "gated" \in opened' <=> "gated" \in opened
      /\ "ungated" \in opened' <=> "ungated" \in opened
      /\ "registered" \in opened' => "registered" \in opened
      /\ "unregistered" \in opened' <=> "unregistered" \in opened
      /\ "silent" \in opened' <=> "silent" \in opened
  BY <1>1, MarksNext
<1>4. StopAnswers /\ ProbeAnswers /\ GateWorks /\ RequestGoes /\ LibraryKept
  BY DEF NothingFails
<1>5. pr = "waits"
  BY <1>1, ShellStands
<1>6. StopAnswers' /\ ProbeAnswers'
  BY <1>1, <1>2, <1>3, <1>4, <1>5 DEF StopAnswers, ProbeAnswers, Uncalled, requestTrace
<1>7. GateWorks'
  BY <1>1, <1>3, <1>4 DEF GateWorks, requestTrace
<1>8. EndsAsAsked' <=> EndsAsAsked
  BY <1>1, <1>3 DEF EndsAsAsked, Uncalled, requestTrace
<1>9. RequestGoes'
  BY <1>1, <1>3, <1>4, <1>8, TraceStays DEF RequestGoes
<1>10. LibraryKept'
  BY <1>1, <1>3, <1>4 DEF LibraryKept, requestTrace
<1> QED BY <1>3, <1>6, <1>7, <1>9, <1>10 DEF NothingFails

LEMMA AnswersClean ==
    ASSUME LifecycleIInv, NothingFails, Clean, Stopped \/ Probed
    PROVE  NothingFails'
<1> USE DEF contractVars, driverVars, recordVars, otherGateVars, gateVars, stopVars, probeVars,
            runVars
<1>1. /\ at > 0 /\ AtStep /\ Turn /\ script[at][1] \in {"stopped", "probed"}
      /\ Stopped <=> script[at][1] = "stopped"
      /\ Probed <=> script[at][1] = "probed"
  BY DEF LifecycleIInv, Stopped, Probed, Step
<1>2. Allowed(script[at], opened) /\ Coherent(opened)
  BY <1>1, NextStep
<1>3. StopAnswers /\ ProbeAnswers /\ GateWorks
  BY DEF NothingFails
<1>4. /\ ~Uncalled /\ pr = "waits" /\ st # "returned"
      /\ "stop" \in opened <=> st = "stopping" \/ stop_done = 1
      /\ stop_done = 1 => st = "waits"
  BY <1>1, ShellStands
<1>5. CASE script[at][1] = "stopped"
  <2>1. stop_result = Parameter
    BY <1>1, <1>2, <1>3, <1>5 DEF Allowed, StopAnswers, Stopped, Parameter
  <2>2. /\ Continue /\ UNCHANGED <<test, observedVars, gate_entered, probe_done>>
        /\ stop_done = 1 /\ stop_done' = 0
    BY <1>1, <1>5, <2>1 DEF Stopped, Verify, Check, Release, observedVars, requestTrace
  <2>3. /\ ~test_halted' /\ "stop" \notin opened'
        /\ "unstopped" \in opened' <=> "unstopped" \in opened
        /\ "probe" \in opened' <=> "probe" \in opened
        /\ "request" \in opened' <=> "request" \in opened
        /\ "held" \in opened' <=> "held" \in opened
        /\ "closed" \in opened' <=> "closed" \in opened
        /\ "gated" \in opened' <=> "gated" \in opened
        /\ "ungated" \in opened' <=> "ungated" \in opened
    BY <1>1, <1>5, <2>2, MarksNext
  <2>4. "probe" \notin opened
    BY <1>2, <1>5 DEF Allowed
  <2>5. StopAnswers'
    BY <1>3, <1>4, <2>2, <2>3 DEF StopAnswers, Uncalled, observedVars, requestTrace
  <2>6. ProbeAnswers'
    BY <1>3, <2>2, <2>3, <2>4 DEF ProbeAnswers, observedVars
  <2>7. GateWorks'
    BY <1>3, <2>2, <2>3 DEF GateWorks, observedVars, requestTrace
  <2> QED BY <1>1, <1>5, <2>2, <2>3, <2>5, <2>6, <2>7, KeepsTrace DEF NothingFails
<1>6. CASE script[at][1] = "probed"
  <2>1. "probe" \in opened /\ "gated" \in opened
    BY <1>2, <1>6 DEF Allowed, Coherent
  <2>2. /\ probe_active_before /\ probe_active_after /\ gate_active # 0 /\ gate_expired = 0
        /\ probe_result = "EBUSY"
    BY <1>1, <1>3, <1>6, <2>1 DEF ProbeAnswers, GateWorks, Probed
  <2>3. /\ Continue /\ UNCHANGED <<test, observedVars, gate_entered, stop_done>>
        /\ probe_done' = 0
    BY <1>1, <1>6, <2>2 DEF Probed, Verify, Check, Release, observedVars, requestTrace
  <2>4. /\ ~test_halted' /\ "probe" \notin opened'
        /\ "stop" \in opened' <=> "stop" \in opened
        /\ "unstopped" \in opened' <=> "unstopped" \in opened
        /\ "request" \in opened' <=> "request" \in opened
        /\ "held" \in opened' <=> "held" \in opened
        /\ "closed" \in opened' <=> "closed" \in opened
        /\ "gated" \in opened' <=> "gated" \in opened
        /\ "ungated" \in opened' <=> "ungated" \in opened
    BY <1>1, <1>6, <2>3, MarksNext
  <2>5. StopAnswers'
    BY <1>3, <2>3, <2>4 DEF StopAnswers, Uncalled, observedVars, requestTrace
  <2>6. ProbeAnswers'
    BY <1>4, <2>3, <2>4 DEF ProbeAnswers, observedVars
  <2>7. GateWorks'
    BY <1>3, <2>3, <2>4 DEF GateWorks, observedVars, requestTrace
  <2> QED BY <1>1, <1>6, <2>3, <2>4, <2>5, <2>6, <2>7, KeepsTrace DEF NothingFails
<1> QED BY <1>1, <1>5, <1>6

LEMMA GateClean ==
    ASSUME LifecycleIInv, NothingFails, Clean, GateEntered \/ Markers
    PROVE  NothingFails'
<1> USE DEF contractVars, driverVars, recordVars, otherGateVars, gateVars, stopVars, probeVars,
            runVars
<1>1. /\ at > 0 /\ AtStep /\ Turn /\ script[at][1] \in {"gate", "markers"}
      /\ GateEntered <=> script[at][1] = "gate"
      /\ Markers <=> script[at][1] = "markers"
  BY DEF LifecycleIInv, GateEntered, Markers, Step
<1>2. Allowed(script[at], opened)
  BY <1>1, NextStep
<1>3. StopAnswers /\ ProbeAnswers /\ GateWorks
  BY DEF NothingFails
<1>4. ~Uncalled /\ pr = "waits" /\ probe_done # 1
  BY <1>1, <1>2, ShellStands DEF Allowed
<1>5. CASE script[at][1] = "gate"
  <2>1. {"held", "closed", "ungated", "request"} \subseteq opened
    BY <1>2, <1>5 DEF Allowed
  <2>2. cb = "held" /\ gate_active = 1 /\ gate_expired = 0 /\ phase = "stopped"
    BY <1>1, <1>3, <1>5, <2>1 DEF GateWorks, GateEntered
  <2>3. /\ Continue
        /\ UNCHANGED <<test, observedVars, stop_done, probe_done>>
        /\ gate_entered' = 0
    <3>1. PICK ok \in BOOLEAN : /\ ok <=> gate_active # 0 /\ gate_expired = 0
                                /\ Check(ok) /\ Release(ok)
      BY <1>1, <1>5 DEF GateEntered
    <3>2. ok
      BY <2>2, <3>1
    <3>3. Continue /\ UNCHANGED gate_release
      BY <3>1, <3>2, Zenon DEF Check, Release
    <3> QED BY <1>1, <1>5, <3>3 DEF GateEntered, observedVars, requestTrace
  <2>4. /\ ~test_halted' /\ "gated" \in opened' /\ "ungated" \notin opened'
        /\ "probe" \in opened' <=> "probe" \in opened
        /\ "stop" \in opened' <=> "stop" \in opened
        /\ "unstopped" \in opened' <=> "unstopped" \in opened
        /\ "request" \in opened' <=> "request" \in opened
        /\ "held" \in opened' <=> "held" \in opened
        /\ "closed" \in opened' <=> "closed" \in opened
    BY <1>1, <1>5, <2>3, MarksNext
  <2>5. StopAnswers' /\ ProbeAnswers'
    BY <1>3, <2>3, <2>4 DEF StopAnswers, ProbeAnswers, Uncalled, observedVars, requestTrace
  <2>6. GateWorks'
    BY <1>3, <2>2, <2>3, <2>4 DEF GateWorks, observedVars, requestTrace
  <2> QED BY <1>1, <1>5, <2>3, <2>4, <2>5, <2>6, KeepsTrace DEF NothingFails
<1>6. CASE script[at][1] = "markers"
  <2>1. /\ "held" \in opened /\ "unstopped" \notin opened /\ "closed" \notin opened
        /\ "ungated" \notin opened /\ "stop" \notin opened /\ "request" \notin opened
        /\ "probe" \notin opened
    BY <1>2, <1>6 DEF Allowed
  <2>2. cb = "none" /\ phase = "idle"
    BY <1>1, <2>1, ShellStands
  <2>3. /\ callback_before_return_order > 0
        /\ primary_return_order > callback_before_return_order
        /\ gate_expired = 0 /\ gate_active = 0
    BY <1>3, <2>1, <2>2 DEF GateWorks
  <2>4. Continue /\ UNCHANGED <<test, observedVars, gate_entered, stop_done, probe_done>>
    BY <1>1, <1>6, <2>3 DEF Markers, Verify, Check, Release, observedVars, requestTrace
  <2>5. /\ ~test_halted' /\ "held" \notin opened'
        /\ "probe" \in opened' <=> "probe" \in opened
        /\ "stop" \in opened' <=> "stop" \in opened
        /\ "request" \in opened' <=> "request" \in opened
        /\ "closed" \in opened' <=> "closed" \in opened
        /\ "gated" \in opened' <=> "gated" \in opened
    BY <1>1, <1>6, <2>4, MarksNext
  <2>6. StopAnswers' /\ ProbeAnswers'
    BY <1>3, <2>4, <2>5 DEF StopAnswers, ProbeAnswers, Uncalled, observedVars, requestTrace
  <2>7. GateWorks'
    BY <1>3, <2>4, <2>5 DEF GateWorks, observedVars, requestTrace
  <2> QED BY <1>1, <1>6, <2>4, <2>5, <2>6, <2>7, KeepsTrace DEF NothingFails
<1> QED BY <1>1, <1>5, <1>6

LEMMA ReleaseClean ==
    ASSUME LifecycleIInv, NothingFails, Clean, release_gate
    PROVE  NothingFails'
<1> USE DEF contractVars, driverVars, recordVars, otherGateVars, gateVars, stopVars, probeVars,
            runVars
<1>1. /\ at > 0 /\ AtStep /\ Turn /\ script[at][1] = "release" /\ Continue
      /\ UNCHANGED <<test, requestTrace, cb, callback, added, dropped_events, otherGateVars,
                     gate_entered, stopVars, probeVars>>
  BY DEF LifecycleIInv, release_gate, Step, requestTrace
<1>2. ~Uncalled
  BY <1>1, ShellStands
<1>3. /\ ~test_halted' /\ "closed" \notin opened' /\ "gated" \notin opened'
      /\ "probe" \in opened' <=> "probe" \in opened
      /\ "stop" \in opened' <=> "stop" \in opened
      /\ "unstopped" \in opened' <=> "unstopped" \in opened
      /\ "request" \in opened' <=> "request" \in opened
      /\ "timed" \in opened' <=> "timed" \in opened
      /\ "held" \in opened' <=> "held" \in opened
      /\ "ungated" \in opened' <=> "ungated" \in opened
      /\ "registered" \in opened' => "registered" \in opened
      /\ "unregistered" \in opened' <=> "unregistered" \in opened
      /\ "silent" \in opened' <=> "silent" \in opened
  BY <1>1, MarksNext
<1>4. StopAnswers /\ ProbeAnswers /\ GateWorks /\ RequestGoes /\ LibraryKept
  BY DEF NothingFails
<1>5. StopAnswers' /\ ProbeAnswers'
  BY <1>1, <1>2, <1>3, <1>4 DEF StopAnswers, ProbeAnswers, Uncalled, requestTrace
<1>6. GateWorks'
  BY <1>1, <1>3, <1>4 DEF GateWorks, requestTrace
<1>7. EndsAsAsked' <=> EndsAsAsked
  BY <1>1, <1>3 DEF EndsAsAsked, Uncalled, requestTrace
<1>8. RequestGoes'
  BY <1>1, <1>3, <1>4, <1>7, TraceStays DEF RequestGoes
<1>9. LibraryKept'
  BY <1>1, <1>3, <1>4 DEF LibraryKept, requestTrace
<1> QED BY <1>3, <1>5, <1>6, <1>8, <1>9 DEF NothingFails

LEMMA JudgedClean ==
    ASSUME LifecycleIInv, NothingFails, Clean, Quiescent
    PROVE  NothingFails'
<1> USE DEF contractVars, driverVars, recordVars, otherGateVars, gateVars, stopVars, probeVars,
            runVars
<1>1. /\ at > 0 /\ AtStep /\ Turn /\ script[at][1] = "idle"
      /\ UNCHANGED <<test, cb, added, dropped_events, callback_count, stopVars, probeVars>>
      /\ events' = <<>>
      /\ Register(OnEvent, "OK")
  BY DEF LifecycleIInv, Quiescent, Step
<1>2. Allowed(script[at], opened) /\ Coherent(opened)
  BY <1>1, NextStep
<1>3. /\ "request" \in opened /\ "registered" \in opened /\ "stop" \notin opened
      /\ "probe" \notin opened /\ "closed" \notin opened /\ "gated" \notin opened
  BY <1>1, <1>2 DEF Allowed, Coherent
<1>4. phase = "idle" /\ callback' = OnEvent /\ UNCHANGED <<phase, outcome>>
  BY <1>1 DEF Register, Contract!SetCallback, Busy
<1>5. GateWorks /\ RequestGoes /\ LibraryKept
  BY DEF NothingFails
<1>6. "unregistered" \notin opened
  BY <1>3, <1>5, LifecycleAssumption DEF LibraryKept
<1>7. Continue /\ UNCHANGED <<gate_release, otherGateVars, gate_entered>>
  <2>1. dropped_events = 0 /\ Len(events) = callback_count /\ t2_evaluate(events, expected)
    BY <1>3, <1>4, <1>5 DEF RequestGoes, TraceSoFar, LibraryKept
  <2>2. Verify(TRUE)
    BY <2>1 DEF Quiescent
  <2> QED BY <2>2 DEF Verify, Check, Release
<1>8. /\ st = "waits" /\ stop_done # 1 /\ pr = "waits" /\ probe_done # 1
  BY <1>1, <1>3, ShellStands
<1>9. /\ ~test_halted' /\ "request" \notin opened'
      /\ "probe" \notin opened' /\ "stop" \notin opened' /\ "closed" \notin opened'
      /\ "gated" \notin opened'
      /\ "unstopped" \in opened' <=> "unstopped" \in opened
      /\ "held" \in opened' <=> "held" \in opened
      /\ "ungated" \in opened' <=> "ungated" \in opened
      /\ "unregistered" \notin opened'
      /\ "silent" \in opened' <=> "silent" \in opened
  BY <1>1, <1>3, <1>6, <1>7, MarksNext
<1>10. StopAnswers' /\ ProbeAnswers' /\ RequestGoes'
  BY <1>1, <1>8, <1>9 DEF StopAnswers, ProbeAnswers, RequestGoes
<1>11. GateWorks'
  BY <1>1, <1>3, <1>4, <1>5, <1>7, <1>9 DEF GateWorks
<1>12. LibraryKept'
  BY <1>1, <1>4, <1>5, <1>9 DEF LibraryKept
<1> QED BY <1>9, <1>10, <1>11, <1>12 DEF NothingFails

LEMMA CleanStarts == LifecycleInit => NothingFails
<1> SUFFICES ASSUME LifecycleInit PROVE NothingFails
  OBVIOUS
<1>1. opened = {}
  BY DEF LifecycleInit, opened
<1> QED BY <1>1 DEF LifecycleInit, Contract!Init, NothingFails, StopAnswers, ProbeAnswers,
                    GateWorks, RequestGoes, LibraryKept

LEMMA CommandClean ==
    ASSUME LifecycleIInv, NothingFails, Clean, cmd_run
    PROVE  NothingFails'
<1> USE DEF contractVars, recordVars, gateVars, stopVars, probeVars
<1>1. opened = {} /\ opened' = {}
  <2>1. at = 0 /\ at' = 1 /\ UNCHANGED test
    BY DEF cmd_run
  <2>2. Opened(script, {}, 1) = {}
    BY OpenedFirst
  <2> QED BY <2>1, <2>2 DEF opened, script
<1>2. /\ ~test_halted' /\ ~added'
      /\ UNCHANGED <<dropped_events, phase, outcome, cb, gateVars, stopVars, probeVars>>
  BY DEF cmd_run
<1>3. StopAnswers /\ ProbeAnswers /\ GateWorks /\ LibraryKept
  BY DEF NothingFails
<1>4. StopAnswers' /\ ProbeAnswers' /\ RequestGoes'
  BY <1>1, <1>2, <1>3 DEF StopAnswers, ProbeAnswers, RequestGoes
<1>5. GateWorks' /\ LibraryKept'
  BY <1>1, <1>2, <1>3 DEF GateWorks, LibraryKept
<1> QED BY <1>2, <1>4, <1>5 DEF NothingFails

LEMMA StopperClean ==
    ASSUME LifecycleIInv, Test2Kept, NothingFails, Clean, Stopper
    PROVE  NothingFails'
<1> USE DEF contractVars, driverVars, recordVars, gateVars, probeVars, scriptVars, runVars,
            requestTrace
<1>1. /\ UNCHANGED <<at, test, test_halted, verdict>>
      /\ UNCHANGED <<phase, operation, continuous, outcome, event, events, delivered,
                     callback_count, expected>>
      /\ UNCHANGED <<cb, callback, added, dropped_events, gate_release, gate_active, gate_expired,
                     gate_entered, callback_before_return_order, probeVars>>
  <2>1. Contract!RequestStop => UNCHANGED <<phase, operation, continuous, callback, outcome, event>>
    BY DEF Contract!RequestStop
  <2> QED BY <2>1 DEF Stopper, StopperTakes, StopperCalls, StopReturns, StopperGives
<1>2. opened' = opened
  BY <1>1, Stays
<1>3. /\ ~test_halted /\ StopAnswers /\ ProbeAnswers /\ GateWorks /\ RequestGoes /\ LibraryKept
      /\ OrderKept /\ HelpersFollow
  BY DEF NothingFails, Test2Kept, LifecycleIInv
<1>4. ProbeAnswers' /\ LibraryKept'
  BY <1>1, <1>2, <1>3 DEF ProbeAnswers, LibraryKept
<1>5. Coherent(opened)
  BY MarksCohere DEF LifecycleIInv
<1>6. st # "waits" \/ stop_request = 1 => "stop" \in opened /\ "unstopped" \notin opened
  BY <1>3, HelpersWithin
<1>7. CASE StopperTakes
  <2>1. /\ st = "waits" /\ st' = "calls" /\ stop_request = 1 /\ stop_request' = 0
        /\ UNCHANGED <<stop_done, stop_result, cancel, primary_return_order, primary_returned>>
    BY <1>7 DEF StopperTakes
  <2>2. stop_done # 1
    BY <1>3, <2>1 DEF HelpersFollow
  <2>3. StopAnswers'
    BY <1>1, <1>2, <1>3, <2>1, <2>2 DEF StopAnswers, Uncalled
  <2>4. GateWorks' /\ (EndsAsAsked' <=> EndsAsAsked)
    BY <1>1, <1>2, <1>3, <2>1 DEF GateWorks, EndsAsAsked, Uncalled
  <2>5. RequestGoes'
    BY <1>1, <1>2, <1>3, <2>1, <2>4, TraceStays DEF RequestGoes
  <2> QED BY <1>1, <1>3, <1>4, <2>3, <2>4, <2>5 DEF NothingFails
<1>8. CASE StopperCalls
  <2>1. /\ st = "calls" /\ pr # "stopping"
        /\ UNCHANGED <<stop_request, stop_done, primary_return_order, primary_returned>>
        /\ \/ phase = "idle" /\ stop_result' = "EALREADY" /\ st' = "returned" /\ UNCHANGED cancel
           \/ phase # "idle" /\ st' = "stopping" /\ cancel' = 1 /\ UNCHANGED stop_result
    BY <1>3, <1>8 DEF StopperCalls, ProbeAnswers, Contract!RequestStop
  <2>2. stop_request = 0 /\ stop_done # 1 /\ Uncalled /\ ~Uncalled'
    BY <1>3, <2>1 DEF HelpersFollow, Uncalled
  <2>3. phase # "idle" => "request" \in opened
    BY <1>3, HelpersWithin
  <2>4. StopAnswers'
    BY <1>1, <1>2, <1>3, <2>1, <2>2, <2>3 DEF StopAnswers
  <2>5. GateWorks'
    BY <1>1, <1>2, <1>3, <2>1 DEF GateWorks
  <2>6. "request" \in opened => EndsAsAsked' /\ TraceSoFar'
    <3> SUFFICES ASSUME "request" \in opened PROVE EndsAsAsked' /\ TraceSoFar'
      OBVIOUS
    <3>1. phase # "idle" /\ (expected \in SelfEnding => phase = "stopped") /\ cancel' = 1
      BY <1>3, <2>1, <2>2 DEF StopAnswers, GateWorks
    <3>2. EndsAsAsked'
      BY <1>1, <1>2, <1>3, <1>6, <2>1, <2>2, <3>1 DEF RequestGoes, EndsAsAsked
    <3>3. /\ WhileActive' <=> WhileActive
          /\ OnceSettled => OnceSettled'
          /\ OnceFailed' <=> OnceFailed
      BY <1>1, <3>1 DEF WhileActive, OnceSettled, OnceFailed, OnlyNoMatches
    <3>4. t2_evaluate(events, expected)' <=> t2_evaluate(events, expected)
      BY <1>1 DEF t2_evaluate, Lifecycle, Of, Times
    <3>5. TraceSoFar'
      BY <1>1, <1>3, <3>3, <3>4 DEF RequestGoes, TraceSoFar
    <3> QED BY <3>2, <3>5
  <2>7. RequestGoes'
    BY <1>2, <2>6 DEF RequestGoes
  <2> QED BY <1>1, <1>3, <1>4, <2>4, <2>5, <2>7 DEF NothingFails
<1>9. CASE StopReturns
  <2>1. /\ st = "stopping" /\ st' = "returned" /\ phase = "idle" /\ stop_result' = "OK"
        /\ UNCHANGED <<stop_request, stop_done, cancel, primary_return_order, primary_returned>>
    BY <1>9 DEF StopReturns, Clean, StopStatuses
  <2>2. stop_request = 0
    BY <1>3, <2>1 DEF HelpersFollow
  <2>3. StopAnswers'
    BY <1>1, <1>2, <1>3, <2>1, <2>2 DEF StopAnswers, Uncalled
  <2>4. GateWorks' /\ (EndsAsAsked' <=> EndsAsAsked)
    BY <1>1, <1>2, <1>3, <2>1, <2>2 DEF GateWorks, EndsAsAsked, Uncalled
  <2>5. RequestGoes'
    BY <1>1, <1>2, <1>3, <2>1, <2>4, TraceStays DEF RequestGoes
  <2> QED BY <1>1, <1>3, <1>4, <2>3, <2>4, <2>5 DEF NothingFails
<1>10. CASE StopperGives
  <2>1. /\ st = "returned" /\ st' = "waits" /\ stop_done' = 1
        /\ primary_return_order' = order_counter + 1
        /\ UNCHANGED <<stop_request, stop_result, cancel>>
    BY <1>10 DEF StopperGives
  <2>2. stop_request = 0
    BY <1>3, <2>1 DEF HelpersFollow
  <2>3. StopAnswers'
    BY <1>1, <1>2, <1>3, <2>1, <2>2 DEF StopAnswers, Uncalled
  <2>4. primary_return_order' > callback_before_return_order
    BY <1>3, <2>1 DEF OrderKept
  <2>5. "held" \in opened => phase = "idle"
    BY <1>3, <1>5, <1>6, <2>1 DEF StopAnswers, Coherent
  <2>6. GateWorks'
    BY <1>1, <1>2, <1>3, <2>1, <2>4, <2>5 DEF GateWorks
  <2>7. EndsAsAsked' <=> EndsAsAsked
    BY <1>1, <1>2, <2>1, <2>2 DEF EndsAsAsked, Uncalled
  <2>8. RequestGoes'
    BY <1>1, <1>2, <1>3, <2>1, <2>7, TraceStays DEF RequestGoes
  <2> QED BY <1>1, <1>3, <1>4, <2>3, <2>6, <2>8 DEF NothingFails
<1> QED BY <1>7, <1>8, <1>9, <1>10 DEF Stopper

LEMMA ProberClean ==
    ASSUME LifecycleIInv, NothingFails, Clean, Prober
    PROVE  NothingFails'
<1> USE DEF contractVars, driverVars, recordVars, gateVars, stopVars, scriptVars, runVars,
            requestTrace
<1>1. /\ ~test_halted /\ StopAnswers /\ ProbeAnswers /\ GateWorks /\ RequestGoes /\ LibraryKept
      /\ HelpersFollow
  BY DEF NothingFails, LifecycleIInv
<1>2. pr # "waits" \/ probe_request = 1 => "probe" \in opened
  BY <1>1, HelpersWithin
<1>3. "probe" \in opened => /\ "request" \in opened
                            /\ cb = "held" /\ gate_active = 1 /\ phase = "stopped"
  BY <1>1, MarksCohere DEF LifecycleIInv, Coherent, GateWorks
<1>4. /\ UNCHANGED <<at, test, test_halted, verdict, requestTrace, cb, callback, added,
                     dropped_events, gateVars, stopVars, probe_command>>
      /\ \/ pr = "waits" /\ pr' = "calls" /\ probe_active_before' /\ UNCHANGED probe_done
         \/ /\ pr = "calls" /\ pr' = "returned" /\ probe_result' = "EBUSY"
            /\ UNCHANGED <<probe_done, probe_active_before>>
         \/ /\ pr = "returned" /\ pr' = "waits" /\ probe_done' = 1 /\ probe_active_after'
            /\ UNCHANGED <<probe_active_before, probe_result>>
  <2>1. CASE ProberTakes
    <3>1. gate_active # 0 /\ probe_active_before' = (gate_active # 0)
      BY <1>2, <1>3, <2>1 DEF ProberTakes
    <3>2. probe_active_before'
      BY <3>1, Zenon
    <3> QED BY <2>1, <3>2 DEF ProberTakes
  <2>2. CASE ProberCalls
    <3>1. pr = "calls" /\ "probe" \in opened /\ Busy /\ ~Accepts /\ phase = "stopped"
      BY <1>2, <1>3, <2>2 DEF ProberCalls, Busy, Accepts, Clean
    <3>2. probe_command = "STOP" => StopWaits
      <4>1. SUFFICES ASSUME probe_command = "STOP" PROVE st = "stopping"
        BY DEF StopWaits
      <4>2. st # "waits" \/ stop_request = 1 \/ stop_done = 1
        BY <1>1, <3>1, <4>1 DEF ProbeAnswers, HelpersFollow
      <4>3. ~StopperReady
        BY <2>2 DEF ProberCalls
      <4>4. stop_done # 1 /\ st # "returned"
        BY <1>1, <1>3, <3>1 DEF StopAnswers
      <4> QED BY <1>1, <4>2, <4>3, <4>4 DEF StopperReady, HelpersFollow
    <3>3. pr' = "returned" /\ probe_result' = "EBUSY" /\ UNCHANGED <<contractVars, delivered>>
      <4>1. CASE probe_command # "STOP"
        <5>1. Call(probe_command, probe_result') /\ pr' = "returned"
          BY <2>2, <3>1, <4>1 DEF ProberCalls
        <5> QED BY <3>1, <5>1, RefusesAtOnce
      <4>2. CASE probe_command = "STOP"
        BY <2>2, <3>1, <3>2, <4>2 DEF ProberCalls
      <4> QED BY <4>1, <4>2
    <3> QED BY <2>2, <3>1, <3>3 DEF ProberCalls
  <2>3. CASE ProbeStopReturns
    BY <1>1, <2>3 DEF ProbeStopReturns, ProbeAnswers
  <2>4. CASE ProberGives
    <3>1. gate_active # 0 /\ probe_active_after' = (gate_active # 0)
      BY <1>2, <1>3, <2>4 DEF ProberGives
    <3>2. probe_active_after'
      BY <3>1, Zenon
    <3> QED BY <2>4, <3>2 DEF ProberGives
  <2> QED BY <2>1, <2>2, <2>3, <2>4 DEF Prober
<1>5. opened' = opened
  BY <1>4, Stays
<1>6. probe_done = 1 => pr = "waits" /\ probe_request = 0
  BY <1>1 DEF HelpersFollow
<1>7. pr = "waits" /\ pr' = "calls" => probe_done # 1
  <2>1. pr = "waits" /\ pr' = "calls" => ProberTakes
    BY DEF Prober, ProberTakes, ProberCalls, ProbeStopReturns, ProberGives
  <2> QED BY <1>6, <2>1 DEF ProberTakes
<1>8. ProbeAnswers'
  BY <1>1, <1>4, <1>5, <1>6, <1>7 DEF ProbeAnswers
<1>9. StopAnswers' /\ GateWorks'
  BY <1>1, <1>4, <1>5 DEF StopAnswers, GateWorks, Uncalled
<1>10. EndsAsAsked' <=> EndsAsAsked
  BY <1>4, <1>5 DEF EndsAsAsked, Uncalled
<1>11. RequestGoes' /\ LibraryKept'
  BY <1>1, <1>4, <1>5, <1>10, TraceStays DEF RequestGoes, LibraryKept
<1> QED BY <1>1, <1>4, <1>8, <1>9, <1>11 DEF NothingFails

(* What the driver's thread and the callback leave alone. *)
workerFrame == <<at, test, test_halted, verdict, expected, st, stop_request, stop_done, stop_result,
                 pr, probe_done, probe_command, probe_result, probe_active_before,
                 probe_active_after, callback, primary_return_order, primary_returned>>

LEMMA WorkerStands ==
    ASSUME LifecycleIInv, NothingFails, Clean, UNCHANGED workerFrame, phase # "idle",
           phase' # "idle", ~Held
    PROVE  /\ opened' = opened /\ "request" \in opened /\ ~test_halted /\ ~test_halted'
           /\ EndsAsAsked /\ TraceSoFar /\ GateWorks /\ LibraryKept
           /\ StopAnswers' /\ ProbeAnswers' /\ (Uncalled' <=> Uncalled)
           /\ "held" \in opened /\ "unstopped" \notin opened => "stop" \in opened /\ stop_done = 0
<1> USE DEF workerFrame
<1>1. opened' = opened
  BY Stays
<1>2. /\ ~test_halted /\ StopAnswers /\ ProbeAnswers /\ GateWorks /\ RequestGoes /\ LibraryKept
  BY DEF NothingFails
<1>3. "request" \in opened
  BY <1>2, HelpersWithin
<1>4. Uncalled' <=> Uncalled
  BY DEF Uncalled
<1>5. Uncalled => expected \notin SelfEnding
  BY <1>2, <1>3 DEF StopAnswers, Held
<1>6. StopAnswers' /\ ProbeAnswers'
  BY <1>1, <1>2, <1>3, <1>4, <1>5 DEF StopAnswers, ProbeAnswers
<1>7. "held" \in opened /\ "unstopped" \notin opened => "stop" \in opened /\ stop_done = 0
  BY <1>2 DEF GateWorks
<1> QED BY <1>1, <1>2, <1>3, <1>4, <1>6, <1>7 DEF RequestGoes

LEMMA AppendToOne == ASSUME NEW x, NEW y PROVE Append(<<x>>, y) = <<x, y>>
<1> DEFINE S == {x, y}
<1>1. <<x>> \in Seq(S) /\ x \in S /\ y \in S
  OBVIOUS
<1> HIDE DEF S
<1>2. Append(<<x>>, y) = <<x>> \o <<y>>
  BY <1>1, AppendIsConcat
<1>3. <<x, y>> = <<x>> \o <<y>>
  BY <1>1, Tuples
<1> QED BY <1>2, <1>3

(* Of the events only the expected ones are reported, or there is an excuse. *)
LEMMA ReportsClean ==
    ASSUME LifecycleIInv, Test2Kept, NothingFails, Clean, Clean', DriverReports
    PROVE  NothingFails'
<1> USE DEF contractVars, driverVars, recordVars, gateVars, stopVars, probeVars, scriptVars,
            runVars, workerFrame
<1>1. ~Misreports
  BY DEF Misreports, Clean
<1>2. /\ UNCHANGED <<at, test, test_halted, verdict, expected, stopVars, probeVars>>
      /\ UNCHANGED <<operation, continuous, callback, cancel, outcome, primary_return_order,
                     primary_returned, gate_release, gate_expired, callback_before_return_order>>
      /\ phase \in {"active", "settled", "failed"} /\ phase' \in {"active", "failed", "stopped"}
      /\ cb \in {"none", "returns"} /\ ~Held
      /\ added' = (added \/ event'.type = "ENROLL_COMPLETE")
  <2>1. CASE Contract!Result
    BY <1>1, <2>1 DEF DriverReports, CallbackStarts, Contract!Result, Held
  <2>2. CASE Contract!ReportError
    BY <1>1, <2>2 DEF DriverReports, CallbackStarts, Contract!ReportError, Held
  <2>3. CASE Contract!ReportStopped
    BY <1>1, <2>3 DEF DriverReports, CallbackStarts, Contract!ReportStopped, Held
  <2> QED BY <1>1, <2>1, <2>2, <2>3 DEF DriverReports
<1>3. /\ opened' = opened /\ "request" \in opened /\ ~test_halted /\ ~test_halted'
      /\ EndsAsAsked /\ TraceSoFar /\ GateWorks /\ LibraryKept
      /\ StopAnswers' /\ ProbeAnswers' /\ (Uncalled' <=> Uncalled)
      /\ "held" \in opened /\ "unstopped" \notin opened => "stop" \in opened /\ stop_done = 0
  BY <1>2, WorkerStands
<1>4. /\ delivered' = Append(delivered, event') /\ events = delivered
      /\ events' = Append(events, event') /\ dropped_events' = 0
      /\ callback_count' = Len(events) + 1
      /\ excused' = (excused \/ Unexpected \/ dropped_events' > 0)
      /\ ~Unexpected
  <2>1. CallbackStarts /\ dropped_events = 0 /\ events = delivered /\ callback_count = Len(events)
    BY <1>3 DEF DriverReports, LibraryKept, TraceSoFar
  <2>2. /\ excused' = (excused \/ Unexpected \/ dropped_events' > 0)
        /\ delivered' = Append(delivered, event') /\ callback_count' = callback_count + 1
    BY <2>1 DEF CallbackStarts
  <2>3. ~Unexpected /\ ~(dropped_events' > 0)
    BY <2>2 DEF Clean
  <2>4. Len(events) < EVENT_CAPACITY
    BY <2>1, <2>3 DEF CallbackStarts
  <2> QED BY <2>1, <2>2, <2>3, <2>4 DEF CallbackStarts
<1>5. events \in Seq(EventValues) /\ event' \in EventValues
  BY <1>4, ReportsTyped DEF LifecycleIInv, CallbackRuns
<1>6. Len(events') = Len(events) + 1
  BY <1>4, <1>5, AppendProperties
<1>7. \/ /\ event'.type = "STOPPED" /\ cb' = "held"
         /\ gate_arm = 1 /\ gate_active' = 1 /\ gate_entered' = 1
      \/ /\ event'.type # "STOPPED" \/ gate_arm # 1
         /\ cb' = "returns" /\ UNCHANGED <<gate_active, gate_entered>>
  BY DEF DriverReports, CallbackStarts
<1>8. ASSUME event'.type = "STOPPED" => phase' = "stopped" PROVE GateWorks'
  <2>1. "gated" \notin opened /\ ("closed" \in opened => gate_entered # 1 /\ gate_release = 0)
    BY <1>2, <1>3 DEF GateWorks
  <2>2. "held" \in opened => "ungated" \in opened /\ gate_active = 0
    BY <1>2, <1>3 DEF GateWorks
  <2>3. gate_expired' = 0 /\ (cb' = "held" => gate_active' = 1 /\ phase' = "stopped")
    BY <1>2, <1>3, <1>7, <1>8 DEF GateWorks
  <2> QED BY <1>2, <1>3, <1>7, <2>1, <2>2, <2>3 DEF GateWorks
<1>9. ASSUME event'.type # "ENROLL_COMPLETE" PROVE LibraryKept'
  <2>1. "silent" \notin opened
    BY <1>3, MarksCohere DEF LifecycleIInv, Coherent
  <2>2. ~added'
    BY <1>2, <1>3, <1>9, Zenon DEF LibraryKept
  <2> QED BY <1>2, <1>3, <1>4, <2>1, <2>2 DEF LibraryKept
<1>10. CASE Contract!Result
  <2>1. /\ phase = "active" /\ phase' = "active" /\ event = Contract!NoEvent
        /\ \E r \in Contract!Results(operation) : event' = Contract!Event(r[1], r[2])
        /\ event'.type = "NO_MATCH" => event'.status = "ETIMEDOUT"
    BY <1>1, <1>10 DEF DriverReports, Contract!Result, Contract!ReportError, Contract!ReportStopped
  <2>2. event' = NoMatch /\ operation = "IDENTIFY" /\ event'.type = "NO_MATCH"
    <3>1. PICK r \in Contract!Results(operation) : event' = [type |-> r[1], status |-> r[2]]
      BY <2>1 DEF Contract!Event
    <3>2. event'.type \in {"MATCH", "NO_MATCH", "ENROLL_COMPLETE"}
      BY <3>1 DEF Contract!Results
    <3>3. event'.type = "NO_MATCH"
      BY <1>4, <3>2 DEF Unexpected
    <3>4. operation = "IDENTIFY"
      BY <3>1, <3>3 DEF Contract!Results
    <3> QED BY <2>1, <3>1, <3>3, <3>4 DEF NoMatch, Contract!Event
  <2>3. EndsAsAsked'
    BY <1>2, <1>3, <2>1 DEF EndsAsAsked
  <2>4. WhileActive'
    <3>1. WhileActive /\ event' # Contract!NoEvent
      BY <1>3, <2>1, <2>2 DEF TraceSoFar, Contract!NoEvent
    <3>2. OnlyNoMatches => OnlyNoMatches'
      <4>1. DOMAIN events' = 1 .. Len(events) + 1 /\ DOMAIN events = 1 .. Len(events)
        BY <1>4, <1>5, AppendProperties
      <4>2. \A i \in 1 .. Len(events) + 1 : events'[i] = IF i = Len(events) + 1 THEN NoMatch
                                                       ELSE events[i]
        BY <1>4, <1>5, <2>2, AppendProperties
      <4>3. \A i \in 1 .. Len(events) + 1 : i = Len(events) + 1 \/ i \in 1 .. Len(events)
        BY <1>5
      <4>4. NoMatch' = NoMatch
        BY DEF NoMatch, Contract!Event
      <4> QED BY <4>1, <4>2, <4>3, <4>4 DEF OnlyNoMatches
    <3>3. events = <<>> => events' = <<NoMatch>>
      BY <1>4, <2>2
    <3>4. NoMatch' = NoMatch
      BY DEF NoMatch, Contract!Event
    <3> QED BY <1>2, <2>1, <2>2, <3>1, <3>2, <3>3, <3>4 DEF WhileActive
  <2> QED BY <1>2, <1>3, <1>4, <1>6, <1>8, <1>9, <2>1, <2>2, <2>3, <2>4
          DEF NothingFails, RequestGoes, TraceSoFar
<1>11. CASE Contract!ReportError
  <2>1. /\ phase = "settled" /\ phase' = "failed" /\ event' = Contract!Event("ERROR", outcome)
        /\ ~Contract!Quiet
    BY <1>11 DEF Contract!ReportError
  <2>2. event'.type = "ERROR"
    BY <2>1 DEF Contract!Event
  <2>3. /\ expected = "ENROLL_TIMEOUT" /\ outcome = "ETIMEDOUT" /\ events = <<>>
    BY <1>3, <2>1 DEF TraceSoFar, OnceSettled, EndsAsAsked, SelfEnding, Contract!Quiet
  <2>4. EndsAsAsked'
    BY <1>2, <1>3, <2>1, <2>3 DEF EndsAsAsked, SelfEnding
  <2>5. OnceFailed'
    <3>1. events' = <<Contract!Event("ERROR", "ETIMEDOUT")>>
      BY <1>4, <2>1, <2>3
    <3> QED BY <1>2, <2>3, <3>1 DEF OnceFailed, Contract!Event
  <2> QED BY <1>2, <1>3, <1>4, <1>6, <1>8, <1>9, <2>1, <2>2, <2>4, <2>5
          DEF NothingFails, RequestGoes, TraceSoFar
<1>12. CASE Contract!ReportStopped
  <2>1. /\ phase = "failed" \/ (phase = "settled" /\ Contract!Quiet)
        /\ phase' = "stopped" /\ event' = StoppedWith(outcome)
    BY <1>12 DEF Contract!ReportStopped, StoppedWith
  <2>2. event'.type = "STOPPED"
    BY <2>1 DEF Contract!Event, StoppedWith
  <2>3. \/ /\ expected = "ENROLL_TIMEOUT" /\ outcome = "ETIMEDOUT"
           /\ events = <<Contract!Event("ERROR", "ETIMEDOUT")>>
        \/ expected = "ONCE_NO_SAMPLE" /\ outcome = "OK" /\ events = <<NoMatch>>
        \/ expected = "CANCEL_ENROLL" /\ outcome = "ECANCELED" /\ events = <<>> /\ cancel = 1
        \/ expected = "CANCEL_IDENTIFY" /\ outcome = "ECANCELED" /\ OnlyNoMatches /\ cancel = 1
    BY <1>3, <2>1 DEF TraceSoFar, OnceSettled, OnceFailed, EndsAsAsked, SelfEnding, Contract!Quiet
  <2>4. t2_evaluate(events', expected)
    <3>1. events' = Append(events, StoppedWith(outcome))
      BY <1>4, <2>1
    <3>2. CASE expected = "ENROLL_TIMEOUT"
      <4>1. events' = <<Contract!Event("ERROR", "ETIMEDOUT"), StoppedWith("ETIMEDOUT")>>
        BY <2>3, <3>1, <3>2, AppendToOne
      <4> QED BY <3>2, <4>1, TimedOutTrace
    <3>3. CASE expected = "ONCE_NO_SAMPLE"
      <4>1. events' = <<NoMatch, StoppedWith("OK")>>
        BY <2>3, <3>1, <3>3, AppendToOne
      <4> QED BY <3>3, <4>1, OnceTrace
    <3>4. CASE expected = "CANCEL_ENROLL"
      <4>1. events' = <<StoppedWith("ECANCELED")>>
        BY <2>3, <3>1, <3>4
      <4> QED BY <3>4, <4>1, CancelledTrace
    <3>5. CASE expected = "CANCEL_IDENTIFY"
      BY <1>5, <2>3, <3>1, <3>5, NoMatchesTrace DEF OnlyNoMatches
    <3> QED BY <2>3, <3>2, <3>3, <3>4, <3>5
  <2>5. t2_evaluate(events, expected)'
    BY <1>2, <2>4 DEF t2_evaluate, Lifecycle, Of, Times
  <2>6. EndsAsAsked'
    BY <1>2, <1>3, <2>1, <2>3 DEF EndsAsAsked, SelfEnding
  <2> QED BY <1>2, <1>3, <1>4, <1>6, <1>8, <1>9, <2>1, <2>2, <2>5, <2>6
          DEF NothingFails, RequestGoes, TraceSoFar
<1> QED BY <1>1, <1>10, <1>11, <1>12 DEF DriverReports

(* A step of the gate, or of the request, that reports nothing. *)
LEMMA CallbackClean ==
    ASSUME LifecycleIInv, Test2Kept, NothingFails, Clean, GateReleased \/ CallbackMarks
    PROVE  NothingFails'
<1> USE DEF contractVars, driverVars, recordVars, gateVars, stopVars, probeVars, scriptVars,
            runVars, requestTrace, workerFrame
<1>1. /\ UNCHANGED <<workerFrame, requestTrace, added, dropped_events, gate_entered, gate_expired>>
      /\ \/ /\ cb = "held" /\ gate_release = 1 /\ cb' = "released" /\ gate_release' = 0
            /\ UNCHANGED <<gate_active, callback_before_return_order>>
         \/ /\ cb = "released" /\ cb' = "returns" /\ gate_active' = 0
            /\ callback_before_return_order' = order_counter + 1 /\ UNCHANGED gate_release
  BY DEF GateReleased, CallbackMarks
<1>2. phase # "idle" /\ ~Held
  BY <1>1 DEF LifecycleIInv, CallbackRuns, Held
<1>3. /\ opened' = opened /\ "request" \in opened /\ ~test_halted /\ ~test_halted'
      /\ EndsAsAsked /\ TraceSoFar /\ GateWorks /\ LibraryKept
      /\ StopAnswers' /\ ProbeAnswers' /\ (Uncalled' <=> Uncalled)
      /\ "held" \in opened /\ "unstopped" \notin opened => "stop" \in opened /\ stop_done = 0
  BY <1>1, <1>2, WorkerStands
<1>4. GateWorks'
  <2>1. "gated" \notin opened /\ ("closed" \in opened => gate_entered # 1 /\ gate_release = 0)
    <3>1. "gated" \in opened => "closed" \in opened
      BY MarksCohere DEF LifecycleIInv, Coherent
    <3> QED BY <1>1, <1>3, <3>1 DEF GateWorks
  <2>2. order_counter \in Nat
    BY DEF Test2Kept, OrderKept
  <2> QED BY <1>1, <1>2, <1>3, <2>1, <2>2 DEF GateWorks
<1>5. RequestGoes' /\ LibraryKept'
  BY <1>1, <1>3, TraceStays DEF RequestGoes, EndsAsAsked, LibraryKept
<1> QED BY <1>3, <1>4, <1>5 DEF NothingFails

LEMMA RequestClean ==
    ASSUME LifecycleIInv, NothingFails, Clean, Clean', CallbackReturns \/ Settles
    PROVE  NothingFails'
<1> USE DEF contractVars, driverVars, recordVars, gateVars, stopVars, probeVars, scriptVars,
            runVars, requestTrace, workerFrame
<1>1. /\ UNCHANGED <<workerFrame, gateVars, added, dropped_events>>
      /\ UNCHANGED <<operation, continuous, events, delivered, callback_count, cancel>>
      /\ cb \in {"none", "returns"} /\ cb' \in {"none", "returns"}
      /\ \/ /\ phase = "active" /\ event # Contract!NoEvent /\ event' = Contract!NoEvent
            /\ phase' = (IF continuous THEN "active" ELSE "settled") /\ UNCHANGED outcome
         \/ /\ phase = "stopped" /\ phase' = "stopped" /\ UNCHANGED outcome
         \/ /\ phase = "active" /\ event = Contract!NoEvent /\ phase' = "settled"
            /\ \/ cancel = 1 /\ outcome' = "ECANCELED"
               \/ cancel = 0 /\ expected = "ENROLL_TIMEOUT" /\ outcome' = "ETIMEDOUT"
  <2>1. CASE CallbackReturns
    BY <2>1 DEF CallbackReturns, Contract!ResultReturn, Contract!StoppedReturn, Clean
  <2>2. CASE Settles
    <3>1. cb = "none"
      BY <2>2 DEF Settles, Contract!Settle, LifecycleIInv, CallbackRuns
    <3>2. \/ cancel = 1 /\ outcome' = "ECANCELED"
          \/ cancel = 0 /\ expected = "ENROLL_TIMEOUT" /\ outcome' = "ETIMEDOUT"
      BY <2>2 DEF Settles, Clean
    <3> QED BY <2>2, <3>1, <3>2 DEF Settles, Contract!Settle
  <2> QED BY <2>1, <2>2
<1>2. phase # "idle" /\ phase' # "idle" /\ ~Held
  BY <1>1 DEF Held
<1>3. /\ opened' = opened /\ "request" \in opened /\ ~test_halted /\ ~test_halted'
      /\ EndsAsAsked /\ TraceSoFar /\ GateWorks /\ LibraryKept
      /\ StopAnswers' /\ ProbeAnswers' /\ (Uncalled' <=> Uncalled)
      /\ "held" \in opened /\ "unstopped" \notin opened => "stop" \in opened /\ stop_done = 0
  BY <1>1, <1>2, WorkerStands
<1>4. GateWorks'
  BY <1>1, <1>2, <1>3 DEF GateWorks
<1>5. LibraryKept'
  BY <1>1, <1>2, <1>3 DEF LibraryKept
<1>6. t2_evaluate(events, expected)' <=> t2_evaluate(events, expected)
  BY <1>1 DEF t2_evaluate, Lifecycle, Of, Times
<1>7. NoMatch' = NoMatch /\ (OnlyNoMatches' <=> OnlyNoMatches)
  BY <1>1 DEF NoMatch, OnlyNoMatches, Contract!Event
<1>8. CASE phase = "stopped"
  <2>1. phase' = "stopped"
    BY <1>1, <1>8
  <2> QED BY <1>1, <1>3, <1>4, <1>5, <1>6, <1>8, <2>1
          DEF NothingFails, RequestGoes, EndsAsAsked, TraceSoFar
<1>9. CASE phase = "active" /\ phase' = "active"
  <2>1. WhileActive /\ event # Contract!NoEvent /\ continuous /\ UNCHANGED outcome
    BY <1>1, <1>3, <1>9 DEF TraceSoFar
  <2>2. expected = "CANCEL_IDENTIFY"
    BY <2>1, Zenon DEF WhileActive
  <2>3. WhileActive'
    BY <1>1, <1>7, <2>1, <2>2 DEF WhileActive
  <2>4. EndsAsAsked'
    BY <1>1, <1>3, <1>9 DEF EndsAsAsked
  <2> QED BY <1>1, <1>3, <1>4, <1>5, <1>9, <2>3, <2>4 DEF NothingFails, RequestGoes, TraceSoFar
<1>10. CASE phase = "active" /\ phase' = "settled"
  <2>1. WhileActive
    BY <1>3, <1>10 DEF TraceSoFar
  <2>2. expected \in SelfEnding => cancel = 0
    BY <1>3, <1>10 DEF EndsAsAsked
  <2>3. \/ /\ expected = "ONCE_NO_SAMPLE" /\ outcome' = "OK" /\ events = <<NoMatch>>
        \/ /\ expected = "ENROLL_TIMEOUT" /\ outcome' = "ETIMEDOUT" /\ events = <<>>
        \/ /\ expected \in {"CANCEL_ENROLL", "CANCEL_IDENTIFY"} /\ outcome' = "ECANCELED"
           /\ cancel = 1
    <3>1. CASE event # Contract!NoEvent
      <4>1. ~continuous /\ outcome' = outcome
        BY <1>1, <1>10, <3>1
      <4>2. expected # "CANCEL_IDENTIFY"
        BY <2>1, <4>1, Zenon DEF WhileActive
      <4>3. operation # "ENROLLING"
        BY <2>1, <3>1 DEF WhileActive
      <4> QED BY <1>3, <2>1, <3>1, <4>1, <4>2, <4>3 DEF WhileActive, EndsAsAsked, SelfEnding
    <3>2. CASE event = Contract!NoEvent
      <4>1. \/ cancel = 1 /\ outcome' = "ECANCELED"
            \/ cancel = 0 /\ expected = "ENROLL_TIMEOUT" /\ outcome' = "ETIMEDOUT"
        BY <1>1, <1>10, <3>2
      <4> QED BY <1>3, <2>1, <2>2, <4>1 DEF WhileActive, EndsAsAsked, SelfEnding
    <3> QED BY <3>1, <3>2
  <2>4. OnceSettled'
    BY <1>1, <1>7, <2>1, <2>3 DEF WhileActive, OnceSettled
  <2>5. EndsAsAsked'
    BY <1>1, <1>3, <1>10, <2>2, <2>3 DEF EndsAsAsked, SelfEnding
  <2> QED BY <1>1, <1>3, <1>4, <1>5, <1>10, <2>4, <2>5 DEF NothingFails, RequestGoes, TraceSoFar
<1> QED BY <1>1, <1>8, <1>9, <1>10

LEMMA IdleClean ==
    ASSUME LifecycleIInv, NothingFails, Clean, BecomesIdle
    PROVE  NothingFails'
<1> USE DEF contractVars, driverVars, recordVars, gateVars, stopVars, probeVars, scriptVars,
            runVars, workerFrame
<1>1. /\ UNCHANGED <<workerFrame, gateVars, added, dropped_events, cb>>
      /\ UNCHANGED <<continuous, event, events, delivered, callback_count, cancel>>
      /\ phase = "stopped" /\ phase' = "idle" /\ outcome' = "OK"
      /\ event = Contract!NoEvent
  BY DEF BecomesIdle, Contract!BecomeIdle
<1>2. opened' = opened
  BY <1>1, Stays
<1>3. /\ ~test_halted /\ StopAnswers /\ ProbeAnswers /\ GateWorks /\ RequestGoes /\ LibraryKept
  BY DEF NothingFails
<1>4. "request" \in opened /\ EndsAsAsked /\ TraceSoFar
  BY <1>1, <1>3, HelpersWithin DEF RequestGoes
<1>5. cb = "none"
  BY <1>1 DEF LifecycleIInv, CallbackRuns
<1>6. ~Uncalled
  BY <1>1, <1>3, <1>4, <1>5 DEF StopAnswers, EndsAsAsked
<1>7. StopAnswers' /\ ProbeAnswers'
  BY <1>1, <1>2, <1>3, <1>6 DEF StopAnswers, ProbeAnswers, Uncalled
<1>8. GateWorks' /\ LibraryKept'
  BY <1>1, <1>2, <1>3, <1>5 DEF GateWorks, LibraryKept
<1>9. EndsAsAsked'
  BY <1>1, <1>2, <1>4, <1>6 DEF EndsAsAsked, Uncalled
<1>10. t2_evaluate(events, expected)' <=> t2_evaluate(events, expected)
  BY <1>1 DEF t2_evaluate, Lifecycle, Of, Times
<1>11. RequestGoes'
  BY <1>1, <1>4, <1>9, <1>10 DEF RequestGoes, TraceSoFar
<1> QED BY <1>1, <1>3, <1>7, <1>8, <1>11 DEF NothingFails

(* Steps of a driver with a flaw, or with a reason. *)
LEMMA ExcusedSteps ==
    ASSUME Clean, Clean'
    PROVE  ~GateExpires /\ ~CleanupFails /\ ~Stores /\ ~SkipsStopped
  BY DEF Clean, GateExpires, CleanupFails, Stores, SkipsStopped

(* A reason that was seen is not forgotten. *)
LEMMA ExcusesStay == ASSUME LifecycleNext, Clean' PROVE Clean
<1>1. ASSUME UNCHANGED <<flaw, excused>> PROVE Clean
  BY <1>1 DEF Clean
<1>2. ASSUME UNCHANGED flaw, NEW reason, excused' = (excused \/ reason) PROVE Clean
  BY <1>2, Zenon DEF Clean
<1> USE DEF driverVars
<1>3. CASE cmd_run
  BY <1>1, <1>3 DEF cmd_run
<1>4. CASE ShellThread
  <2>1. CASE Purge \/ start_operation \/ Registers \/ StaysQuiet
    BY <1>1, <2>1 DEF Purge, start_operation, Registers, StaysQuiet
  <2>2. CASE Stop \/ StopEntered \/ Stopped \/ ProbeAsks \/ Probed
    BY <1>1, <2>2 DEF Stop, StopEntered, Stopped, ProbeAsks, Probed
  <2>3. CASE GateEntered \/ GateWindow \/ release_gate \/ TerminalSeen \/ Quiescent \/ Markers
    BY <1>1, <2>3 DEF GateEntered, GateWindow, release_gate, TerminalSeen, Quiescent, Markers
  <2>4. CASE Refused \/ Lists
    <3>1. UNCHANGED flaw /\ \E r : excused' = (excused \/ r = "EIO")
      BY <2>4 DEF Refused, Lists
    <3> QED BY <1>2, <3>1
  <2>5. CASE WatchdogFires
    <3>1. UNCHANGED flaw /\ excused' = (excused \/ ~Step("probed"))
      BY <2>5 DEF WatchdogFires
    <3> QED BY <1>2, <3>1
  <2> QED BY <1>4, <2>1, <2>2, <2>3, <2>4, <2>5 DEF ShellThread
<1>5. CASE Stopper
  BY <1>1, <1>5 DEF Stopper, StopperTakes, StopperCalls, StopReturns, StopperGives
<1>6. CASE Prober
  <2>1. CASE ProberTakes \/ ProbeStopReturns \/ ProberGives
    BY <1>1, <2>1 DEF ProberTakes, ProbeStopReturns, ProberGives
  <2>2. CASE ProberCalls
    <3>1. UNCHANGED flaw /\ excused' = (excused \/ probe_result' = "EIO")
      BY <2>2 DEF ProberCalls
    <3> QED BY <1>2, <3>1
  <2> QED BY <1>6, <2>1, <2>2 DEF Prober
<1>7. CASE DriverReports
  <2>1. UNCHANGED flaw /\ excused' = (excused \/ (Unexpected \/ dropped_events' > 0))
    BY <1>7 DEF DriverReports, CallbackStarts
  <2> QED BY <1>2, <2>1
<1>8. CASE Settles
  <2>1. UNCHANGED flaw /\ \E reason : excused' = (excused \/ reason)
    BY <1>8 DEF Settles
  <2> QED BY <1>2, <2>1
<1>9. CASE GateReleased \/ CallbackMarks \/ CallbackReturns \/ SkipsStopped \/ BecomesIdle
  BY <1>1, <1>9 DEF GateReleased, CallbackMarks, CallbackReturns, SkipsStopped, BecomesIdle
<1>10. CASE GateExpires \/ CleanupFails \/ Stores
  BY <1>10 DEF GateExpires, CleanupFails, Stores, Clean
<1> QED BY <1>3, <1>4, <1>5, <1>6, <1>7, <1>8, <1>9, <1>10 DEF LifecycleNext

LEMMA NothingFailsAlways == LifecycleSpec => []NothingFails
<1>1. ASSUME LifecycleIInv, Test2Kept, NothingFails, [LifecycleNext]_lifecycleVars
      PROVE  NothingFails'
  <2>1. CASE UNCHANGED lifecycleVars
    <3> USE DEF contractVars, driverVars, recordVars, gateVars, stopVars, probeVars, runVars,
                scriptVars, lifecycleVars, requestTrace
    <3>1. opened' = opened /\ (Clean' <=> Clean)
      BY <2>1, Stays DEF Clean
    <3>2. (StopAnswers' <=> StopAnswers) /\ (ProbeAnswers' <=> ProbeAnswers)
      BY <2>1, <3>1 DEF StopAnswers, ProbeAnswers, Uncalled
    <3>3. (GateWorks' <=> GateWorks) /\ (LibraryKept' <=> LibraryKept)
      BY <2>1, <3>1 DEF GateWorks, LibraryKept
    <3>4. RequestGoes' <=> RequestGoes
      BY <2>1, <3>1, TraceStays DEF RequestGoes, EndsAsAsked, Uncalled
    <3> QED BY <1>1, <2>1, <3>1, <3>2, <3>3, <3>4 DEF NothingFails
  <2>2. CASE LifecycleNext /\ Clean'
    <3>1. Clean
      BY <2>2, ExcusesStay
    <3>2. CASE cmd_run
      BY <1>1, <3>1, <3>2, CommandClean
    <3>3. CASE ShellThread
      BY <1>1, <2>2, <3>1, <3>3, PurgeClean, StartClean, RefusedClean, RegisterClean, ChecksClean,
         StopClean, AnswersClean, ProbeAsksClean, GateClean, ReleaseClean, JudgedClean,
         WatchdogClean DEF ShellThread
    <3>4. CASE Stopper \/ Prober
      BY <1>1, <3>1, <3>4, StopperClean, ProberClean
    <3>5. CASE DriverReports \/ GateReleased \/ CallbackMarks \/ CallbackReturns \/ Settles
               \/ BecomesIdle
      BY <1>1, <2>2, <3>1, <3>5, ReportsClean, CallbackClean, RequestClean, IdleClean
    <3> QED BY <2>2, <3>1, <3>2, <3>3, <3>4, <3>5, ExcusedSteps DEF LifecycleNext
  <2>3. CASE ~Clean'
    BY <2>3 DEF NothingFails
  <2> QED BY <1>1, <2>1, <2>2, <2>3
<1> QED BY <1>1, CleanStarts, Test2Invariance, Test2KeptAlways, PTL DEF LifecycleSpec

(* A test fails on a driver that keeps its contract only if the device, the line or somebody *)
(* in view gave a reason: none of its checks is too strict for the order in which the driver, *)
(* the callback, the stopper and the prober may run.                                          *)
THEOREM Test2NoFalseAlarm == LifecycleSpec => []NoFalseAlarm
<1>1. LifecycleIInv /\ NothingFails => NoFalseAlarm
  BY DEF LifecycleIInv, AtStep, NothingFails, Clean, NoFalseAlarm
<1> QED BY <1>1, Test2Invariance, NothingFailsAlways, PTL
=============================================================================
