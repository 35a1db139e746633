# Verification of the biometric drivers and their evaluation applications

This directory holds TLA+ models of the code in this repository, the TLC runs
that check them on small instances, and TLAPS proofs of the results that matter
most.  `PROJECT.json` is the machine-readable index: components, runs, mutants,
the map from definitions to source lines, hazards and theorems.

The source tree contains the evaluation of an asynchronous extension of the
Zephyr biometrics API.  Driver sources are archived once per evaluated sensor
with identical contents; the models refer to the copy under
`base-shared-workflow/results/ai10-shared-01/sources` (called `S/` below).

## 1. Inventory

| component | source | state it keeps | operations | interacts by |
|---|---|---|---|---|
| Biometric API | `S/include/zephyr/drivers/biometrics.h` | none | dispatch to the driver; contract in comments | calls, event callback |
| AI10 driver | `S/drivers/biometrics/biometrics_ai10.c` | mutex, worker thread, `operation`/`cancel`/`rx_error` atomics, three semaphores, receive ring, callback | capabilities, callback_set, match_async, enroll_async, async_stop, match, delete, delete_all, list | API calls, worker, UART interrupt, callback |
| Emulated sensor | `S/drivers/biometrics/biometrics_emul.c` | mutex, template slots, count, staged enrollment, attributes | staged enrollment, store/read/delete/list, match, LED, test controls | API calls |
| GT5X driver | `S/drivers/biometrics/biometrics_gt5x.c` | mutex, interrupt-driven packet buffers, two semaphores, enrollment stage, LED, counters | staged enrollment (3 samples), store/read/delete/list, match, LED, attributes | API calls, UART interrupt |
| ZFM-x0 driver | `S/drivers/biometrics/biometrics_zfm_x0.c` | the same shape; 2 samples, threshold, template count | staged enrollment, delete/list, match, LED, attributes | API calls, UART interrupt |
| Biometrics shell | `S/drivers/biometrics/biometrics_shell.c` | that of the enroll command in progress | one API call per command; `enroll` makes a whole enrollment | API calls |
| Shared workflow | `base-shared-workflow/src/main.c` | baseline and current inventory, event queue, poisoned flag | run: inventory, interrupted and whole enrollment (staged or managed), identify, restore | API calls, event callback, message queue |
| Functional tests | `*-test1/src/main.c` | inventories, event queue, halted flag | run: inventory, enroll, match, delete, compare | API calls, callback, message queue |
| Lifecycle tests | `ai10-test2`, `ai10-test2b` | event trace, gate in the callback, markers | scripted requests and stops; evaluate the trace (`trace.c`) | shell, stop and probe thread, callback, semaphores |
| Scheduling tests | `*-test3/src/main.c` | records, counters, job queue | measure cells | two timers, victim, load, biometric and shell thread |
| Footprint tests | `*-test4/src/main.c` | event counters, snapshot phase | matches nobody comes for, stack snapshots | main and observer thread, callback |
| Host tools | `*.py` | none | build, capture, tabulate | files, serial line |

What is hard, and what makes each part correct:

* **AI10 driver.** API callers, a worker that runs callbacks, and an interrupt
  share semaphores and atomics.  Hard: a stop racing completion, leftovers of a
  finished request (done token, cancel flag), lost wakeups, exclusive use of the
  UART by a worker that never takes the mutex, callbacks calling back into the
  driver.  Correct when a stop returns only after its request's last callback,
  when it always returns, when nothing of one request reaches the next, and when
  the callback sees the life of a request the header promises.
* **AI10 exchange.** Replies name a command but no request.  Hard: late,
  damaged and lost frames, overruns, timeouts.  Correct when a reply answers the
  operation that accepts it, what is returned is true of the sensor's directory,
  and a success leaves the sensor quiet.
* **Emulated sensor.** `enroll_capture` and `match` drop the mutex in the
  middle.  Correct when the count is exact, samples stay in their buffer and
  belong to the template's id.
* **GT5X, ZFM-x0.** Blocking exchanges without a request number: late answers,
  semaphore tokens left after a timeout, data packets of which a read takes 12 bytes,
  commands of other callers between the captures of an enrollment.
* **Shell.** Several shells and applications share one sensor, which has one
  enrollment.  Correct when what an enroll command reports is so, and when it leaves
  its own enrollment open in one case only: complete, at a finalize that found the
  store full and that the code does not abort.
* **Applications.** Any call may fail, before its effect or after it, events may be
  lost, late or too many.  Correct when they delete nothing that is not theirs,
  touch the database only when the device is known to be idle, and PASS means what
  it says.  The tests that measure (2B, 3, 4) share data between threads without
  locks; correct when it changes hands only through the semaphores.

## 2. Modules

| module | stands for | role |
|---|---|---|
| `BiometricEvents` | the asynchronous part of `biometrics.h` | abstract specification of one request's life |
| `BiometricStore` | the blocking part of `biometrics.h` | abstract specification of the template library |
| `AI10Status` | status codes of the sensor, `ai10_status()` | shared definitions |
| `AI10Async`, `AI10AsyncProofs` | threads, interrupt, callbacks of `biometrics_ai10.c` | detailed specification, theorems |
| `AI10Link`, `AI10LinkProofs` | frames between `biometrics_ai10.c` and the sensor | detailed specification with an external sensor, theorems |
| `Emul`, `EmulProofs` | `biometrics_emul.c` | detailed specification, theorems (also of the shell) |
| `BiometricsShell`, theorems in `EmulProofs` | `biometrics_shell.c` | composition with `Emul` |
| `GT5X`, `GT5XProofs` | `biometrics_gt5x.c` | detailed specification with an external sensor, theorems |
| `ZFM`, `ZFMProofs` | `biometrics_zfm_x0.c` | detailed specification with an external sensor, theorems |
| `SharedWorkflow`, `SharedWorkflowProofs` | `base-shared-workflow/src/main.c` | application over both contracts, theorems |
| `FunctionalTests`, `FunctionalTestsProofs` | `ai10-test1`, `gt5-test1`, `zfm-test1` | application over both contracts, theorems |
| `TestedDevice` | the device as an application sees it | the contract of a request with the one callback an application registers, shared by the applications |
| `LifecycleTests`, theorems in `SchedulingProofs` | `ai10-test2`, `ai10-test2b` with `trace.c` | application over `BiometricEvents` and flaws of it, theorems |
| `Scheduling`, `SchedulingProofs` | `ai10-test3`, `gt5-test3` | application over `BiometricEvents`, theorems |
| `FootprintTests`, theorems in `FunctionalTestsProofs` | `ai10-test4`, `gt5-test4` | application over `BiometricEvents`, theorems |
| `MC*` | | constants of the TLC instances |

The modules meet at the two contracts.  The drivers are shown to implement them:
`AI10Async` implements `BiometricEvents` (`EventContract`); `Emul`, `ZFM` and
`GT5X` implement `BiometricStore` (`StoreContract`).  The applications are checked
over the contracts alone (`Contract`, declared in `TestedDevice`, is an instance of
`BiometricEvents`, `Store` one of `BiometricStore`), so what is shown of them holds
with every driver that keeps these.  `LifecycleTests` and `FootprintTests` name their
state apart from that of `Scheduling` and `FunctionalTests` (`test_halted`, `main_pc`,
`LifecycleSpec`, ...), so that one module can hold theorems about both.  What the contracts leave open is
open in the applications' models, too: any call may fail with or without its effect, a
request may end in any way and at any time.

### AI10Async

One action is one atomic access to shared state: an atomic read or write, a
semaphore or mutex operation, the body of a spin lock, an interrupt's store or
signal.  Accesses to state only one thread can touch are merged into the next
such access.  `mutex` is `data->lock`; `pc`, `req` and `ret` are each caller's
place in an API call, the call and its return value; `wpc`, `wret` are the
worker's place in `ai10_thread()` and its `ret`; `isr` is the interrupt between
its store in the ring and its `k_sem_give`.  `ai10_lock()` never waits, so a call
that it refuses has no effect and is not an action.

`state_lock` makes "clear `operation`, give `done`" and "clear `cancel`, reset
`done`, set `operation`" exclude each other.  The first is two actions
(`ClearOperation`, `GiveDone`) because `async_stop` and `ai10_lock_idle` read
`operation` without that lock and can see the middle; the second is one action
whose guard `~StateLocked` keeps it out of the first.

The ring counts chunks of bytes; what they say is chosen when they are read.  The
worker's receive loop is modelled check by check (cancel, overrun, deadline,
ring, semaphore), because that is where wakeups are lost; a receive that cannot
be cancelled (RESET and the synchronous calls) is one action with every outcome
the loop can have.  The overall deadline and the one of a begun frame share one
flag.  Start-up delay and argument checks are left out, as is the text of frames.

### AI10Link

One operation runs at a time (`UartExclusive` of `AI10Async` is what allows
this).  A frame carries its command, a status and ids, and - for the properties
only - the number of the operation whose command it answers.  The sensor is
external: it works through commands in order, RESET ends what it is doing, and it
may be slow.  `Slack` bounds how many RESETs may be unanswered when the next one
is sent: 0 says the sensor always answers RESET within its timeout of 3 s.
`lost` records that the line destroyed a frame's header.  An overrun stays noted in
`rx_error` until the ring is cleared before the next exchange: a receive loop looks at
it before each frame, so no answer read after it counts (`Reads`).

### Emul and BiometricsShell

Every call is one action except `enroll_capture` and `match`, which are two: up
to `k_mutex_unlock` and from the second `k_mutex_lock`.  Calls that are refused
change nothing and are left out.  Which free slot is taken is left open; the code
takes the first.  `settings` holds the attributes, the light and the test controls
that anything depends on; anyone may set them at any time, also while a match
sleeps, so a match is judged by the settings it finds when it wakes up.
`Settings` bounds the values tried.

In `BiometricsShell` each caller is a shell, or an application that calls the API
itself.  A command is one call of the API and one action, but for `enroll`: its
start, each capture, finalize and abort are actions of their own (`command` is its
place, `captured` its loop counter), between which the other callers go on.  Ids
are parsed as `long` and checked before they become 16 bits, except that of a
verification (`MatchCommand`).  `opener` and `disturbed` are history: whose command
has opened the enrollment that is open, also after that command has returned, and
whether another caller ended an enrollment meanwhile.

### GT5X

A call is a sequence of exchanges.  `call[t]` is the API call of thread `t`, `at[t]`
its place in it: the command (`step`), the phase of the exchange and a count of
polls or ids.  `Send` is `gt5x_transceive()` up to `k_sem_take`; `RxIsr` is the
interrupt that completes a packet, ends reception and gives `uart_rx_sem` (the
variable `packet` is that token together with the packet it stands for);
`Deadline` is `k_sem_take` giving up, after which reception is still on until the
thread runs; `Proceed` is everything from the end of an exchange to the next
command or the return.  `Tolerated` lists the failures that do not end a call.
A call holds the mutex from `Begin` to `Return`, except that after a sample
`enroll_capture` gives it up and takes it again for every poll of the wait for the
finger to be lifted (`Relock`).

The sensor (`Outcomes`) and the line (`Arrivals`) are external and modelled from
the commands and answers the driver distinguishes.  Answers name no command.
A frame is what one read takes, 12 bytes: an answer, or one of the `Pieces` of the
data packet that follows the acknowledgment of GET_TEMPLATE (`template_size` and 6 bytes).
The packet is read piece by piece without a command (`DATA_IN`, or `DATA_BAD` once
a piece was wrong) and checked when it is complete (`DataResult`).

`Faults` says what may fail.  `lost`: an answer does not arrive, or a command is not
sent; of a data packet any number of pieces may be missing at its end, with or without
the acknowledgment before it.  `corrupt`: an answer arrives damaged, or one piece
of a data packet does.  `split`: the data packet arrives, whole or in part, although
its acknowledgment was lost or damaged, so that nobody is there to read it and its
pieces become answers to the next commands.  `heap`: there is no memory for the
packet, with the same effect.  `Late` is the number of frames that may still be
on their way when a wait for one expires: 0 says that a frame that is not there in
time never comes.  Frames arrive whole; refused calls, attributes, `enrolled_count`
and `last_match_id` are left out, since no call acts on them; the transmit interrupt
is part of `Send`, whose failure is a command that was not sent.

### ZFM

One action is one exchange, answered in time or failed; what differs here from
GT5X is where an enrollment is kept.  The driver has only `enroll_state`; the
samples wait in the sensor's two character buffers, which every match uses, too.
`buffer` therefore records of each file the finger, the enrollment it was captured
for and whether it is a merged model; the last two are history that only
properties read.  `Executes` is the sensor; `Exchange` adds that a command may be
refused, or lost with or without its effect (both become `-EIO`).  `Interleaved`
says whether matches are made while an enrollment is open.  The threshold is
refused unless it fits in 16 bits, and compared with the score of a match; the security
level has ten values in the API and five in the sensor, and setting it is an
exchange that may fail.  `template_count`, the state of the light and the default
timeout are read by no call and left out.

### SharedWorkflow

One action is one call of the application, with what follows it up to the next
one (`pc`); or one event of the device.  The callback's only access to shared data
is its put into the queue, so it is one action with the report.  Every call of the
device may fail, with its effect or without; `restore_inventory` is its listing
(`BeginRestore`), one action per delete and the second listing.  The device may
complete a managed enrollment at any time, also after the stop was asked for.
`found` and `user` are the library at the begin of the run and of the first run:
history for the properties.  Records, pauses and the capability check are left out.

### LifecycleTests

A test is a script, a sequence of steps of the shell thread (`T2`, `T2B`): `at` is
the step it is at.  Stopper and prober are threads with a place of their own, and
the callback has the places of its gate (`cb`).  The threads have fixed priorities
on one CPU, and the tests rest on that: `Turn` lets the shell go on only while no
helper is ready, `Prober` runs only when the stopper waits.  The driver keeps
`BiometricEvents`, or has one of four flaws: a stop that returns while the callback
runs (`early_stop`), calls that succeed meanwhile (`accepting`), calls that wait for
the callback (`blocking`), and events out of order (`disorderly`).  `broken` records
that the driver has broken its contract where the test can see it, `excused`
that a failure has a cause other than the test (a watchdog fired, a call of the
device failed, somebody was in view, the driver is flawed).  `cmd_run` begins a run,
`Check` is a check of the script, `HaltTest` the way out when one fails.  `Watched` bounds a
flawed driver to misbehave only while a command runs.  Sleeps are left out,
so that the seven cases of 2A, some of which differ in a delay only, become four;
the refused arguments stand for each other.

### Scheduling

The two timers, the victim, load and biometric thread and the shell are interleaved
freely.  One action is what a thread does from one wait to the next.  Semaphores and
counters have the names of the code.  `Complete` is the check of a window, `Judge`
that of a cell, `Fail` the way out of a command.  A job carries the cell it was
released in (`Window`), which only properties read.  Measured times, calibration,
the work itself and priorities are left out: the test varies the priorities, and
nothing it says of its records rests on them.

### FunctionalTests and FootprintTests

`FunctionalTests` has the three scripts in one: `suite` says whose device it is,
`samples_required` whether it enrolls staged or by a request; where the scripts
differ (`careful`, `Listed`, `Choices`) the definition says so.  `FootprintTests` is a
sequence of matches and snapshots, of one of four variants of the build; the
observer is a thread of its own, as is what the callback records.

## 3. Runs

| run | instance | distinct states | what it shows |
|---|---|---|---|
| `ai10_async_safety` | 2 callers, 1 callback and NULL, a ring of 1 chunk, 4 kinds of status | 920 000 | exclusive UART, stops that wait for callbacks, no leftovers, no lost wakeup; the driver implements `BiometricEvents` |
| `ai10_async_liveness` | 1 caller, 2 kinds of status, fairness | 308 000 | every call returns, a single request ends |
| `ai10_async_cleanup` | 1 caller | | finding 1 |
| `ai10_link_reset` | 3 ids, room for 2, pages of 1, a ring of 2 frames, corrupted and lost frames, `Slack` 0 | 44 000 | replies are fresh and answers true, listings complete, the sensor is quiet after success |
| `shell` | 2 callers, 2 slots, ids 1 to 3, numbers -1 to 5, 2 samples, a buffer of 3, 5 settings | 1 045 000 | whose samples a template has, enroll commands that tell the truth and what they may leave open; the emulator implements `BiometricStore` |
| `gt5x_calls` | 2 callers, 2 ids, data packets of 2 pieces, 1 further poll, `Faults` `lost` and `corrupt`, `Late` 0, fairness | 260 000 | listings exact, deletes done, images not taken over, every call returns; the driver implements `BiometricStore` |
| `zfm_alone` | 2 callers, 2 ids, room for 1 id in a listing, 2 fingers, 2 scores, 3 thresholds, 2 levels, `Interleaved` FALSE | 998 000 | whose samples a template has, what a match reports; the driver implements `BiometricStore` |
| `shared_workflow` | 2 ids, devices that need 0, 1 or 2 samples, a queue of 1, 2 runs | 129 000 | the user's templates survive, PASS is honest, no control unless idle, no event missed |
| `lifecycle` | both tests, 5 drivers, a queue of 2, 1 result per request, 1 run, fairness | 326 000 | no flaw passes, no false alarm, shared data is owned, nobody stays held |
| `scheduling` | both tests, 2 jobs, 2 ticks, 2 groups of cells, 2 matches per cell, 2 runs, fairness | 505 000 | workers drained, records of the own window, helpers return |
| `functional` | three tests, 3 ids of which the ZFM lists 2, 2 slots for the AI10, a queue of 2, 2 runs | 89 000 | nothing else deleted, next run safe, enrollment over |
| `footprint` | every variant and sensor, 3 matches of a kind, 6 events | 23 000 | stacks scanned at rest, PASS means nobody came |

Why the bounds are enough.  The mutex admits one caller at a time, so two callers
already give every handover (one in a call, one about to enter, and the worker in
a callback).  A ring of one chunk is full after one store, which reaches the
overrun at once and the empty ring as often.  The four status kinds are the four
ways the code treats a status: success, a no-match result, the sensor's
cancellation, any other failure.  Three ids, pages of one
id and room for two ids give a directory with full pages, a last page and more ids than
the caller has room for.  Two
callers in `shell` let one capture sleep over any call of the other; a buffer of
three for two samples makes the one excess sample fit exactly; the numbers reach
beyond both ends of the ids and around the width of an id.  In `GT5X` the mutex
is free between exchanges in one place only, so two callers, one in the wait for
removal and one in any call, meet in every way; two ids give scans and deletes a
template to miss; one further poll is the first and the last of a longer wait; two
pieces are the first and the last read of a data packet.
In `ZFM` two fingers are what a merge or a match can confuse, and two ids
are an old and a new template; a listing with room for one of them is a full one;
the threshold is at first below both scores and then between them, and what does not
fit in 16 bits is tried on both sides.
Two runs are the least in which one run meets what another left; a queue shorter
than the events of a request loses each of them in some behaviour.  Two jobs and two
groups are a first and a last one, and a cell before and after another.

`CHECK_DEADLOCK FALSE` stands where the system may stop: the applications are given a
bounded number of commands (`MaxRuns`, `MaxCommands`) or refuse further ones once they are halted or
poisoned, and a footprint test runs once.

Every property of a passing run has a mutant (`Bug_*` operators, next to the
definition they alter): the code with one plausible mistake, which violates it.
The inductive invariants of the proofs, and the type invariants, are checked by the
prover only.

### Fairness

`ai10_async_liveness` assumes weak fairness of every thread's next step inside a
call, of the worker, of an interrupt that has begun and of time: the kernel is
preemptive and runs every ready thread, interrupts run to completion.  It assumes
nothing of the sensor (it may never answer), nothing of callers (nobody has to
call stop), and that a callback returns.  A listing's pages are bounded by its
deadline, hence the fairness of `SyncCommandReply`.  Weak fairness suffices
because none of these steps is disabled by others once enabled, except
`StopWait`, whose token nobody else takes while the mutex is held.

`gt5x_calls` assumes weak fairness of every thread inside a call, of the
interrupt, of the sensor (it serves commands, though its answers may be lost) and
of time, and strong fairness of `Relock`: a Zephyr mutex is handed to a waiter when
it is released, so a thread that waits for it gets it however often others take
it.  Nobody is assumed to begin a call.

`lifecycle` assumes weak fairness of the shell in a command, of stopper, prober and
of the driver's worker, which the kernel schedules in the order of their priorities;
`scheduling` of the helper threads and of a device that goes on with a request
it has begun.  No timer is assumed to expire, and no one to give a command.

## 4. Findings

1. **Cleanup failure without ERROR** (`ai10_async_cleanup`).  `biometrics.h:176`
   says operation or cleanup failures report ERROR before STOPPED.  A cleanup RESET
   answered with ABORTED gives `-ECANCELED`; after a stop this looks like the
   requested cancellation and no ERROR is reported (`biometrics_ai10.c:528`).

The other limits of the code that came up are stated here with the constant or
condition of the model that keeps them out of the runs.

* **AI10.**  `biometrics_ai10.c:339` calls the acknowledgment of RESET the boundary
  between operations.  If one arrives after its timeout, the next operation takes it
  for its own, and may then accept the late reply of the timed-out operation; a delete
  can return 0 for a template that is still stored (`Slack` 1 violates
  `ReplyIsFresh`).  A LIST page whose header the line destroys is not missed, so the
  listing is short but returns 0 (this is why `ListIsComplete` requires `lost = 0`).
* **Emulator.**  `enroll_start` and `template_store` check that an id is unused,
  `enroll_finalize` does not look again (`biometrics_emul.c:286`): a template stored
  meanwhile makes two with one id.  It accepts more samples than required when
  captures overlap (`biometrics.h:528` says the excess one is refused); a capture that
  sleeps over an abort adds its sample to the enrollment then open, under that
  enrollment's id (`biometrics_emul.c:232`).  Identification ignores the threshold
  ("Minimum confidence score for match acceptance", `biometrics.h:70`), and no call
  looks at its timeout.
* **Shell.**  The id of a verification is converted to 16 bits unchecked
  (`biometrics_shell.c:517`): 65537 verifies template 1.  `enroll` aborts after a failed
  capture but not after a failed finalize (`biometrics_shell.c:617`): in a full store it
  returns and leaves its own enrollment open, complete, and the next `enroll` is refused
  until somebody gives the abort command.  `LeftOpenWhenFull` says that this happens in
  no other way.  The abort of `enroll` ends whatever enrollment is open, also one that
  another shell has begun since, and a command may then finish on samples that somebody
  restarted (the condition `disturbed` of `CompleteIsStored` excludes both).
* **GT5X.**  A packet that completes after `k_sem_take` has timed out and before
  `uart_irq_rx_disable` leaves its token in the semaphore (`biometrics_gt5x.c:214`); one
  that comes later waits in the UART.  From then on each command takes the answer of
  the one before it, and a listing returns 0 with ids that are not stored, where
  `biometrics_gt5x.c:953` says that "A failed scan must not report a valid inventory."
  (`Late` 1 violates `ListIsExact`).  A lost or damaged acknowledgment of GET_TEMPLATE
  with the data packet behind it, or no memory for that packet, leaves the packet
  for the next commands: the read of an answer takes 12 bytes
  (`biometrics_gt5x.c:208`) and the rest waits, even if every frame is in time; the
  answers of those commands wait behind it and are taken by later ones
  (`Faults` with `split` or with `heap` violates `ListIsExact`).  A transmit token that
  outlives its timeout lets the next chunk of a packet overwrite one that is being sent
  (`biometrics_gt5x.c:335`); the transmit side is not modelled.  The sensor stores the
  template at the third sample, so an abort after it leaves the template stored.
* **ZFM-x0.**  Matching uses both character buffers (`biometrics_zfm_x0.c:343`), so after
  a match during an enrollment `enroll_finalize` merges and stores what was not captured
  for it, against `biometrics.h:520` and `:550` (`Interleaved` TRUE violates
  `StoredIsSampled`).  A listing reads the first page of the index only, 256 ids
  (`biometrics_zfm_x0.c:711`).  A capture with `K_NO_WAIT` times out before its first
  command, and that closes the enrollment.

## 5. Proofs

Theorems hold for any number of callers, callbacks, slots, ids, jobs and runs, and any
ring, queue, page and buffer size, from the named assumptions of the modules
(`AsyncAssumption`, `LinkAssumption`, `EmulAssumption`, `ShellAssumption`,
`GT5XAssumption`, `ZFMAssumption`, `WorkflowAssumption`, `FunctionalAssumption`,
`SchedulingAssumption`, `LifecycleAssumption`; `FootprintTests` needs none).  What
`LifecycleAssumption` asks of the events of a disorderly driver (`EventValues`) is that
a NO_MATCH with a failure tells one of those a request knows: which one, the tests do
not look at, so no other would change a verdict.  Three components need a further hypothesis, which stands in
the theorems: `Slack = 0` in `AI10Link`, `LineAssumption` in `GT5X`, `~Interleaved`
in one theorem of `ZFM`.  Each is what its section says, and what the run of the
component sets.

**AI10Async.**  `Invariance` proves `IInv`.  The safety properties are not
inductive: that a stop finds its request finished depends on who may hold a `done`
token, which depends on what the worker may be doing while `operation` is set.
`IInv` therefore adds who owns the mutex (`CallOwnsMutex`), that a call admitted
by `ai10_lock_idle` keeps the driver idle (`OwnerIdle`), what `operation`,
`request` and `done` say about the worker (`OperationTracksWork`,
`EventTracksWork`), and which wakeups are owed (`WakeupPending`).  From it follow
`Exclusive`, `StopWaitsForCallbacks`, `TokensAreFresh`, `WakeupsAreKept`,
`CallbackStays`, and `Contract`: the driver implements `BiometricEvents`, with the
worker's place mapped to the phase of the request.

**Emul.**  `IInv` bounds the samples by `Samples - 1` plus the callers minus those
still capturing (`SampleBudget`): each capture is admitted below the limit, and
every admitted one may still complete.  `SamplesFit` follows when there are at most
`BufferSamples + 1 - Samples` callers, 15 with the sizes of the code; this is the
assumption on `Callers`, and with more of them the write would leave the buffer.
`OwnTemplates` and `Contract` (the emulator implements `BiometricStore`) follow from it.

**BiometricsShell.**  Each step of a command is a call that `Emul` admits, or none
(`StepIsCall`), so `ShellSpec` implements `Spec` of `Emul` (`ShellImplementsEmul`) and
what is proved of the emulator holds with shells.  Of the commands themselves
`ShellIInv` says that one runs for the id it was asked for (`AskedFor`) and that the
enrollment it opened stays open for this id unless somebody else ended it
(`KeepsOpen`).  `TellsTheTruth` follows.  That a finalize does not fail for want of
samples is a matter of counting: a command that finalizes has made `Samples` captures
(`Counts`), and the enrollment it opened has one sample at least for each of them, since a
sample is only lost with the enrollment (`HasOwnSamples`).  Hence `LeftOpen`.

**AI10Link.**  With `Slack = 0` a RESET is a boundary: its reply comes after every frame
of what was before it, with nothing left to follow (`Boundary`), since at most one
command and one RESET behind it are under way (`OneCommand`).  After it only the call's
own command is at work, so that every frame in the ring is an answer to this command
and a last frame leaves the sensor idle (`OwnWork`, `OwnFrames`).  For listings
`PagesAccounted` says where each template is: on a page that was taken, in the ring, or
still to come, unless a frame was lost or damaged and the operation fails.  `Fresh`,
`TrueAnswers`, `CompleteList` and `QuietAfter` follow.  With `Slack` 1 TLC finds each of these
properties violated but `ListIsComplete`, for which nothing is proved then.  `NamesDiffer` says that two
names are enough to tell operations apart, without which `Fresh` would say little.
The first attempt at the proof showed the model too generous: a noted overrun has to
fail every later read of the same exchange (`Reads`), as it does in the code.

**GT5X.**  `LineAssumption` says `Late = 0` and that frames are lost or damaged, but
no data packet arrives without its acknowledgment (`split`) and memory does not run
out (`heap`).  It cannot be weaker: with `Late` 1, with `split` or
with `heap` alone, TLC finds a behaviour that violates `ImageIsOwn`, one that violates
`ListIsExact`, and so on for `DeleteIsDone` and `StoreContract`.
The invariant says that there is one exchange at a time (`OneExchange`): what is on the
wire, in the interrupt's buffers or under way is the command of the thread that holds
the mutex or the answer to it, and the wire is empty when a thread lets go.  Behind an
answer there is nothing, except pieces of a data packet, never more than the reads
that are left for it (`Due`, `Behind`).
`Places` and `Stages` say at which step a thread of which call can be, `SameEnrollment`
that driver and sensor agree on the enrollment in progress, and `Progress` what the
steps before have established for the one to come: the templates found so far, that
the template is deleted, that the image is the thread's own.  The proof has one lemma for
what the sensor makes of a command and how the driver reads the answer (`OutcomeOf`),
one for the end of an exchange (`EndedOver`) and one each for returning, sending and
going on (`LeavesInv`, `SendsInv`, `GoOnInv`).  From it `OwnImage`, `ExactList`,
`DeleteDone`, `StoredMatch` (no run checks it) and `Contract`: the driver implements
`BiometricStore`.

**ZFM.**  What the buffers hold means something only relative to the step of the
thread that has the mutex and to `enroll_state`; `IInv` says what.  A thread is at a
step of its call (`StepsOfCall`), the stage that admitted the call lasts until it
ends (`StagesLast`), the samples of an open enrollment are where it left them
(`SamplesKept`), and what a call put in the buffers is there when it uses it
(`BuffersOfCall`).  The proof is one lemma for what commands do to the sensor
(`SensorAfter`), one for a call that returns and one for a call that goes on
(`ReturnInv`, `ContinueInv`), and one for each action on top of them.  `Sampling`
needs `~Interleaved`; `Merging`, `Matching`, `Contract`, `LevelIsKnown` and
`AttributesInRange` do not.

**SharedWorkflow.**  `IInv` has three parts: what the place of
the script says of request and enrollment (`Sessions`: a call that uses the database is
reached only when both are over, and between runs they are over or the application is poisoned), that the baseline is
the library the run found for as long as it is used (`BaselineKept`), and that what is
up for deletion was not in it (`OnlyNewDeleted`).  From them follow `UserTemplates`,
`PassIsHonest` and `ControlWhenIdle`, for any device that keeps the two contracts.

`EveryEventCounted` needs more, for events are lost when the queue is full: while none
is lost the queue holds the last events reported and the result counts the ones before
them (`QueueIsRest`), and exactly one of these is STOPPED when the request is over
(`StoppedOnce`).  Counting rests on the finite-set theorems.

**FunctionalTests.**  The pattern is that of `SharedWorkflow`: where the script leaves
the device (`Sessions`), what a run may have added to the library at each place, which
is at most the one template it was about (`LibraryKnown`), and that the queue holds
every event of the request unless one was dropped or the run has failed
(`NothingMissed`).  From it `OwnOnly`, `NextRunSafe` and `EnrollmentOver`.

**Scheduling.**  `IInv` speaks of commands that have not failed; after a failure the
suite is halted and nothing is judged any more.  Every release of a cell is done, in work
or queued, in the order of its number, and with the window of this cell
(`ReleasesCounted`); so when all are counted the queue is empty and all records are new.
A thread that signals is on its way back, and none works that was not asked
(`LoadFollows`, `BioFollows`).  A request that is not over belongs to the match the
biometric thread is in, unless that match failed, and whatever disturbs a match is in
`bio_error` or is about to be (`FailuresKept`).  Hence `Drained`, `TrueReport` and
`NoneDropped`.  The invariant was not inductive at first: a second command starts with the
records of the first.  `published` now holds those of the current command, and the run
has two commands.

**FootprintTests.**  `FootprintIInv` says where the suite may be while a request is open
(`RequestOpen`), that the observer has one order at most, made under the label of the
step, and works while the suite waits for it or after the suite gave up
(`ObserverAsked`), and that what disturbs a match is in `event_error` until the match is
judged (`DisturbanceNoted`).  From it `Test4ScansAtRest` and `Test4PassIsTrue`.  After a
snapshot that came too late the suite has failed and starts nothing more; hence the
clause of `ObserverAsked` that outlives the wait.

**LifecycleTests.**  What is true at a step depends on the steps before it, so the
invariants speak of marks: a mark is set by some kinds of step and removed by others
(`Begins`, `Ends`), and `opened` is the set of those that are set where the shell is.
`request` is set, for example, from `start` or `hold` to `idle`, `stop` from `stop` to
`stopped`.  That both scripts keep to an order of the marks (`Allowed`: no second request
before the first is known to be over, no probe but while the callback is held, ...) is
shown fragment by fragment, since a script is a concatenation of fragments
(`FitsConcat`).  A step of the shell then changes the marks as its name says, and the
proofs need no step numbers.  Three invariants rest on each other:

* `LifecycleIInv`, for a driver with any flaw: a helper works on what it was asked last,
  gives its `done` token last and is not asked again before this was taken
  (`HelpersFollow`), and without the mark `request` the device is idle (`RequestsEnd`).
  Hence `Test2SharedData`.
* `Test2Kept`, also for any flaw: once the driver has broken its contract in view of
  the test, there is a check to come that fails (`FlawsAreSeen`).  It fails for the
  answer of a probe, for the order of the returns, for what the gate saw, for a trace
  that is not legal, or for the library.  What a script asks of a trace is more than
  the contract promises (`LifecycleLegal`), so an illegal trace is never accepted.  Hence
  `Test2PassMeansKept`.
* `NothingFails`, for a driver without a flaw while nothing excuses a failure: the answers
  of stop and probe are the expected ones (`StopAnswers`, `ProbeAnswers`), the gate holds
  the callback until it is let go and the marks of the returns have the right order
  (`GateWorks`), a request ends as it was asked to with the trace that is expected
  (`EndsAsAsked`, `TraceSoFar`), and the library is as it was (`LibraryKept`).  One lemma says
  that no check of the shell fails then and the invariant stands (`ShellStands`), one the
  same of driver and callback (`WorkerStands`); an excuse, once given, stays
  (`ExcusesStay`).  Hence `Test2NoFalseAlarm`.

The proofs use the priorities where the code does: by `Turn` the shell takes a step only
when neither helper could, so that the stopper is in its stop when the gate is
released, and is back in its wait when the next stop is asked for.  That the hypotheses
of `NothingFails` are met is what TLC shows: both tests reach PASS with the good driver
and no excuse.

Only model-checked: liveness (`CallsReturn`, `SingleEnds`, `HelpersReturn`,
`NobodyStaysHeld`), which is outside the prover.  Every invariant and every step
property of a passing run is a theorem.  The type and inductive invariants are proved;
no run checks them.

## 6. Not modelled, and the plan

Not modelled: the host tools (building, capturing, tabulating: I/O); sizes and times,
which tests 3 and 4 measure; the bytes of frames; the transmit interrupts; of the
GT5X driver the attributes, `enrolled_count` and `last_match_id`, which no call
reads; of the ZFM-x0 driver the semaphores of the UART, since an exchange is one action.

The map points to one copy of each file.  The drivers, the header and the shell are
archived once more under `gt5-shared-01` and `zfm-shared-01`, together with copies of
the applications; `zfm-test3` and `zfm-test4` repeat `gt5-test3` and `gt5-test4` in other
words.  About half of the lines of C are such repetitions, and the models hold for them
as they do for the copy that is named.

Left to do: `ZFM` with the receive interrupt and its tokens, as `GT5X` has them.
