# A verification of qpi in TLA+

This directory keeps TLA+ models of qpi, TLC configurations that model-check
them on small instances, and TLAPS proofs about them. Paths are relative to the
repository root; `src/` in `PROJECT.json` is that root.

qpi is a gateway in front of quantum processing units (QPUs). A server,
`qpi-ui`, written in Go on PocketBase with an SQLite database, takes jobs from
users over HTTP and hands them to *drivers*: processes near the hardware that
connect with a token and exchange JSON events with the server over a pair of NNG
sockets. A driver's kind has one *operation*: `process` (run jobs), `calibrate`
(tune the chip) or `monitor` (report readings).

Almost everything that is hard about qpi follows from three facts:

* the server's handlers and goroutines share the database without transactions.
  `db.FindAndUpdateOne` reads a record, changes it in memory and saves it; what
  another goroutine wrote in between may be overwritten;
* delivery on the sockets is best effort. A mangos PUSH socket takes a message
  with no driver attached and loses what it holds when it closes. Nothing is
  acknowledged. What is lost is made up for by a timer (jobs) or by an operator
  (calibrations);
* a driver's session on the server (its *lease*) and the driver's process end and
  begin independently, and parts of an old session are still closing while a new
  one starts.

## 1. Inventory

For each part: its state, its operations, whom it talks to, what is hard, and
what makes it correct. "Modelled in" names the module, or the plan's step.

**Job pipeline** (`qpi-ui/internal/api/api.go`, `api/nng_driver.go`,
`db/queries.go`). State: `quantum_jobs` (status, results), the dispatcher and the
listener goroutine of each session. Operations: submit, cancel, fetch, send, mark
running, apply a result, put back after a failed send. Hard: five unsynchronised
writers of one status column; losses on the wire; two sessions of a driver and
several drivers on one queue. Correct when: nothing is finished that was not run,
a cancelled job is not sent, order of dispatch is order of submission, each result of
an execution is heard, charged and stored at most once, each accepted job is answered.
That an answer was charged for is not promised: a deduction that is refused, that
fails or that has nobody to be made from is at most logged, and the results are stored
all the same (`nng_driver.go:426-452`). *Modelled in `JobLifecycle`.*

**Recovery engine** (`scheduler/scheduler.go:456-488`). Reads the jobs that have
been running for longer than `JobTimeout` and sets them back to `pending`, one by
one. Hard: its list is stale while it writes. *Modelled in `JobLifecycle`.*

**Queue policy** (`scheduler.go:23-98`). Booked slot first, then first come, first
served; other users when the booker is idle. Modelled in `JobLifecycle` as the
oldest job of *some* user; whose turn it is, is left open.

**Retention** (`scheduler.go:225-315, 411-451`). Deletes old events and closed
calibrations in batches, within a time budget. Hard: a batch whose deletes fail.
Not modelled.

**Driver sessions** (`api.go:690-860`, `nng_driver.go:55-215, 296-400`,
`db/hooks.go`, `api/utils.go:192-223`). State: `drivers` (enabled, status, ports),
`qpus` (enabled, status), `activeDrivers` (the leases), two sockets per session,
the pipe of each process. Operations: connect, start and stop a distribution,
attach and detach hooks, toggle, delete, maintenance, the reset at start-up. Hard:
connect writes back a record it read several steps before; every release is by
driver and not by session; a socket that cannot be bound. Correct when: a lease is
served, a status speaks of something that exists, a withdrawn driver is not served,
a live peer that the look-up can read keeps others out, a registered driver is served
again.
*Modelled in `DriverSession`.*

**Calibration queue** (`api.go:867-942`, `nng_driver.go:499-863`,
`scheduler.go:132-216`, `qpi_driver/builtins/calibrate.py`). State:
`calibration_requests`; in the tuner a `_busy` flag shared by a receive thread, a
timer thread and a pump thread, and a worker process. Operations: queue, offer,
send, accept, refuse, drift check, announce, recalibrate, report. Hard: there is no
recovery engine for it, so each lost message holds the chip until an operator acts;
the flag is tested before it is set. Correct when: `done` means it ran, requests
are settled and in order, what a tuner starts by itself is announced first.
*Modelled in `CalibrationQueue`.*

**Process driver** (`qpi_driver/sdk.py`, `builtins/qpu.py`, `reload.py`,
`executors/`). State: a job and a result queue between a receive loop, a worker
process and a result pump; in the worker a device, a watcher of the device config
and the currents its couplers are parked at. Operations: start, receive, load,
re-read, park, run, emit, stop. Hard: somebody else writes the file between any two
of these steps; the mark that it was read is taken after the reading; the pump is
not guarded; a worker that cannot start leaves the main thread receiving. Correct
when: results leave in the order jobs came, one each; a received job is answered
while the driver's parts live; a signature stands for one content.
*Modelled in `ProcessDriver`*, and as the server sees it in `JobLifecycle`.

**Device configuration** (`tuners/base/__init__.py`, `tuners/utils/persistence.py`).
State: the file, its backup `.prev`, the candidate of a save. Operations: load,
refresh, save, restore, edit by hand. Hard: the tuner may be terminated at any step
of a save; an operator writes into an inode the tuner may have replaced. Correct
when: a save never tears the file, what was replaced can be put back, and readers
can trust time and inode. *Modelled in `SharedFile` and `DeviceFile`.*

**Calibration graph and provenance** (`tuners/base/dag.py`, `tuners/base/__init__.py`,
`tuners/base/provenance.py`, `tuners/base/report.py`). State: the walk's list of
nodes, a ledger of what was produced and what was not, the report, the device in
memory, the file and its sidecar. Operations: calibrate, recalibrate after a
diagnosis, check fidelity, persist. Hard: a failure has to reach what depends on it
through routines that were themselves skipped; two files are written one after the
other; values of a failed run stay in memory. Correct when: what is skipped names a
failure, nothing measures on a refused parameter, every node is answered for, a
record speaks of a value that was saved.
*Modelled in `CalibrationGraph`, `RoutineCatalog`, `CalibrationRun`.*

**Calibration routines** (`tuners/base/routines.py`, `tuners/routines/`). State of a
measurement: the sweep, the rows its data stand for, counters of nested loops, what
the device holds on trial. Operations: build, acquire (in several schedules),
analyse, widen, refine, shorten, search. Hard: the loops are driven by fits of noisy
data; setpoints remembered by the routine are overwritten by each build; settings are
borrowed from the device. Correct when: it ends, each try is another sweep that can
be played, data and setpoints agree, what was borrowed is returned.
*Modelled in `Experiment`*; pulses and numbers are not.

**Driver SDKs for Go and JavaScript** (`qpi-driver/go`, `qpi-driver/js`). The same
contract; no `process` or `calibrate` device is built on them. Not modelled.

**QPU time** (`db/validators.go`, `api/hooks.go`, `api.go`). Slots that must not
overlap, requests for time, a balance that results are charged to. Hard: checks and
writes are apart. Not modelled. `JobLifecycle` counts charges and not amounts.

**Rate limiter** (a token bucket per session), **themes** (one active at a time and
a cache of it), **notifications** (dismissal appends to a list). Not modelled. The
limiter's effect, a dropped event, is in both queue models.

**Not modelled.** API tokens and users (record CRUD under an owner check);
driver catalog and snippets (static tables; a kind's operation is a constant of the
models); configuration and TLS (sequential start-up); schema and migration; client
libraries (stateless wrappers; what they assume of a terminal status is
`TerminalIsFinal`); fitting and simulation (floating-point estimates; what a fit may
answer is a choice of `Experiment`); the compilers and converters of the executors (a
function of device and circuit); the cryostat monitor (a reader of files, with no
shared state but the QPU status its session writes, which `DriverSession` has);
dashboard and CLI.

Known hazards of parts that are not modelled, for whoever takes them up: QPU-seconds
are deducted by a read, a subtraction and a save, and a deduction past zero is refused
as a whole (`nng_driver.go:427`); an approval credits on a status it read before
(`api/hooks.go:148`); the overlap of slots is checked by a query and saved afterwards
(`db/hooks.go:32`); a dismissal appends to a list read earlier (`api.go:381`); other
themes are deactivated before the save that may fail (`db/hooks.go:165`); a full batch
of failing deletes must not spin (`scheduler.go:411`); a dispatcher's `lastStateSent`
outlives the process it was said to (`nng_driver.go:219`, `SaidIsHeard` below).

`PROJECT.json` lists the hazards, at their lines, with the properties about each.

## 2. Plan

| step | modules | composes, abstracts | state |
| --- | --- | --- | --- |
| 1 | `JobLifecycle`, `JobService`, `JobLifecycle_proofs` | the first implements the second | modelled, checked, six theorems, the refinement among them |
| 2 | `CalibrationQueue`, `CalibrationQueue_proofs` | | modelled, checked, five theorems |
| 3 | `DriverSession`, `DriverSession_proofs` | | modelled, checked, five theorems |
| 4 | `SharedFile`, `DeviceFile`, `DeviceFile_proofs` | writers implement what readers assume | modelled, checked, four theorems, the refinement among them |
| 5 | `ProcessDriver`, `ProcessDriver_proofs` | beside any writer that keeps to `SharedFile` | modelled, checked, three theorems |
| 6 | `CalibrationGraph`, `RoutineCatalog`, `CalibrationRun`, `CalibrationRun_proofs` | a tuner over the shipped catalog | modelled, checked, six theorems |
| 7 | `Experiment`, `Experiment_proofs` | one node of a walk | modelled, checked, five theorems |
| 8 | `TimeSlots`, `QpuTime`, `Retention`, `Themes`, `Notifications` | | to do |

Steps are ordered by how much of the system's promise depends on the part and by
how far its hazards are from a test's reach. Recursion is in functions and folds. Every
safety and action property of a passing run is proved as well.

## 3. Modules

### JobLifecycle

| model | code |
| --- | --- |
| `status`, `result` | columns of `quantum_jobs`; `"absent"` before submission |
| `cancelling`, `recovering` | a cancel request between its read and its write; the recovery engine's list |
| `dpc`, `djob` | the dispatcher's place in the loop of `runDriverDispatcher`, its `job` |
| `lpc`, `lmsg`, `lsnap` | the listener in `applyJobResult`: past the deduction (`"billed"`), past the second read (`"loaded"`) |
| `heard`, `bills`, `stores` | history: results a listener took, charged for and stored |
| `lease`, `open` | `activeDrivers`; the sockets of a session |
| `down`, `outbox`, `queue` | events to the driver, events to the server, the worker's queue |
| `alive`, `parts` | the process; whether its worker or its pump ended under it (`qpu.py:264-272, 109-126`) |
| `serving` | what `UnavailableReason` answers about the QPU |
| `Submit`, `CancelRead`, `CancelWrite` | `handleJobSubmit`, `handleJobCancel` |
| `Fetch`, `Send`, `SendReturnsError`, `MarkRunning` | a pass of the dispatcher |
| `ReceiveResult`, `DropResult`, `LoadJob`, `StoreResult`, `StoreFails` | `applyJobResult`; the rate limiter |
| `RecoveryScan`, `RecoveryWrite` | `RunRecoveryEngine` |
| `DriverStart`, `DriverReceive`, `Execute`, `DriverCrash` | `Driver.run`, `handle_event`, the worker |
| `Release`, `CloseSockets`, `DispatcherReturns`, `ServerCrash` | end of a session, end of the server |

`JobService` is what the pipeline promises and nothing else: a run needs a
submission, a result is heard at most once for each run, and what is heard is charged
at most once and stored at most once. That it is charged at all is not promised:
`ReceiveResult` may leave the balance as it was. `Execute` needs a worker; without a pump it
runs the job and says nothing. Which of the two ended, and how, is in `ProcessDriver`.

A write whose value does not depend on what was read is one step; every other
read-modify-write is two. `serving` stands for enabled, maintenance and
calibrating together. Which users a slot lets through is left open.

### CalibrationQueue

`request` and `selfRow` are the rows an operator queued and those a tuner announced, by tuner and job id;
`dpc`, `ditem`, `said` the dispatcher with its `lastStateSent`; `lpc`, `litem` the
listener; `told`, `busy`, `receiving`, `ticking`, `pumping` the tuner's fields and
the places of its three threads, so that the window between the test of `_busy` and
its assignment is there for each; `jobs`, `work`, `reports`, `out` the queues
between threads, worker and server. `SendRequest`/`MarkRunning` is
`dispatchCalibration`; `Hear`, `Consider`, `Accept` the receive thread; `Tick`,
`QueueDrift` the timer; `PumpPlan`, `PumpResult`, `PumpFollowUp` the pump (clearing
`_busy` and emitting the report that follows is one step); `Begin`, `Finish` the
worker. `CloseRequest` and `CloseSelfRow` are the operator of
`docs/driver/operations.md`, who closes stuck rows in the admin UI.

A calibration is named by its job id: a request's, `drift_check`, or one of these
with `_recalibrate`. Progress tallies and the plan column are left out: only the
dashboard reads them. `FetchNextCalibration` is its two queries: `LookForRunning`,
then `Offer` or `NothingToOffer`. An emit may raise: `QueueUnannounced` goes on without the
announcement, as `_emit_queued` does, and `ReportFails` is the guard of the pump, which
reports a failure in place of the outcome. `cut` names the tuners some of whose
events may have been lost on the way up.

### DriverSession

`record`, `enabled`, `status`, `ports` are a driver's row; `handler` and `snap` a
connect request and the copy of the row it will write back; `stopping` a disable or
a delete whose release is still to come; `lease`, `disp`, `lstn`, `pair` a session;
`proc` is a process, `pipe`, `hook`, `lost` the pipes on its sockets and the place of each
pipe's hook. A process has as many pipes as `PipeOf` gives it: pynng redials by itself, so
the hook of a pipe that broke may still be at work when the next one is attached.

| action | code |
| --- | --- |
| `Connect`, `Refuse`/`Admit`, `Allocate`/`AllocateFails`, `SaveDriver`, `StartDistribution` | `handleDriverConnect`, in order |
| `BindDispatcher`, `GiveUp`, `BindListener`, `CloseDispatcher`, `CloseListener` | the two goroutines |
| `AdmitUnknown` | `connectedPeer` when its query fails: the connect goes on |
| `DialOut`, `DialInRefused`, `Attach`, `ProcessEnds` | `Driver.run` |
| `LinkBreaks` | a pipe is lost under a process that lives; `Attach` of another one is the redial |
| `DriverOnline`, `QPUOnline`, `DriverOffline`, `QPUOffline`, `ReleaseOnDetach` | the pipe hook and `markDriverStatus` |
| `Disable`, `Enable`, `Delete`, `Stop`, `ToggleQPU`, `BeginMaintenance`, `EndMaintenance` | the toggle handlers and record hooks |
| `ServerRestart` | the end of the server and `MarkEveryDriverOffline` |

Ports are taken in pairs. The look-up of peers is one step. The attach hook of a pipe
ends before the detach hook of the same pipe begins, as mangos has it; hooks of different
pipes are interleaved. A process dials a new pipe only when it has lost the ones before.
Drivers are registered before the behaviour begins. Saving a driver that was deleted
meanwhile creates it again with its token hashed once more (`OnDriverCreate`), so it
becomes a `ghost`: registered, and out of every process's reach.
`AllocateFails` may come, as a fault, while pairs are left: another program of the host may
hold them.

### SharedFile, DeviceFile

`SharedFile` is the abstract specification of the device config: a file that says one
of the `Versions`, is `Torn` or is `Gone`, with a time and an inode. A write gives it a
time it never had (`st_mtime_ns` with `st_size` is taken for that); a copy that keeps
metadata brings an old time back with what the file said then; the file may vanish.
`Signature`, `Changed` are `ConfigFile` of `reload.py`; `past` is history.

`DeviceFile` has the writers: `RefreshAtStart`, `TunerMarks` are
`_refresh_device_config`; `OpenCandidate`, `VerifyCandidate`, `BackupBegins`,
`BackupEnds`, `Replace`, `SaveFails` are `save_device_config`, a step for each point at
which the process may be killed (`TunerDies`, `_on_stop` of the calibrate driver);
`EditBegins` to `EditIsLost` are an operator with an editor or `cp`, who writes into the
inode that was opened. `tuner.alone` is history: nobody was at the file since the check.
A file that is written in part may parse, as an empty one does, and one that does not may
raise half-way through its application: a reader then holds what such a text says mixed
with what it held before, which is some version (`Readings`).

### ProcessDriver

`main`, `worker`, `pump` are the three actors, `jobs` and `results` the queues between
them. The file moves under them by any step of `SharedFile`, so that what is shown
holds beside every writer that keeps to it; `DeviceFile_proofs` shows that the tuner
and the operator do.

| action | code |
| --- | --- |
| `StartDriver`, `Receive`, `PutPills`, `JoinWorker`, `CloseSocket` | `_on_start`, `handle_event`, `_on_stop`, `_shutdown` |
| `WorkerWatches`, `WorkerLoads`, `ExecutorFails` | `job_worker` and the constructor of the executor, in order |
| `ParkCouplers`, `ParkingFails` | `_park_couplers`, `resolve_bias_source`, `apply_coupler_bias` |
| `TakeJob`, `Reload`, `ReloadFails`, `MarkRead`, `RunJob` | `execute`, `_reload_device_config`, `_reapply_coupler_bias`, `_execute_job` |
| `PumpResult`, `EmitRaises` | `_pump_results`, `emit` |

The quantify and the qblox executor are alike in all of this. One coupler stands for
them all. A config that raises on an unknown key half-way through the parameters of an
element (`executors/quantify/config.py:217`) leaves the device part of the way and the
couplers as they were (`ReloadFails`). What a job computes is left out.

### CalibrationGraph, RoutineCatalog, CalibrationRun

`CalibrationGraph` has the pure part of `CalibrationDAG`: Kahn's algorithm, the partial
order downstream of a target, the worst of several checks, the blame of a diagnosis.
`RoutineCatalog` has one record for each of the 36 shipped routines: what it comes
after, what it declares it reads and updates, what its target must have, what its
`measure` writes before it is known to succeed (`trials`) and whether it may hand back
the value it was to refine.

`CalibrationRun` composes the two. A parameter's value is where it came from: who wrote
it, in which run, and how. `Start` is the head of `run`; `Skip`, `Measure`, `Republish`,
`Fail` one node of the walk (`HalfApplied` is what an `apply` that raises between its
writes leaves); `Finish`, `Save`, `Record` the end of the walk, the device
config and the sidecar; `Restart` a tuner that dies and starts from the files. `ledger`
is `_ParameterLedger`, `log` the report's results, errors and notes in order. Time
budgets (a node that overruns fails like any other), payload caps and progress are left
out.

### Experiment

One node from the inside. `Build`, `Run` acquire a grid schedule by schedule
(`acquire_in_row_chunks`, `RandomizedBenchmarking.acquire`, the windows of
`ReadoutIntegrationTime`); `Answer`, `FitFails`, `Escalate`, `Shorten`, `Uncorrected` are
what follows a fit (`escalating`, `_widened`, `amplified`); `AnswerRamsey` and
`AnswerNinety` the refining passes; `Search` the wide search of `qubit_spectroscopy`;
`Bias`, `EndBias`, `SourceFails` the sweep of `coupler_anticrossing`; `PriorStands` is an
f12 that could not be resolved. A sweep is its ends and its number of points, in a unit of
its axis. Each of the 36 shipped routines has a plan: how it is acquired, along which axis,
what its fit may ask for.

A refusal asks for a factor of 2 to 8, in whole numbers (`_reach_factor` gives any real
between). What is played of a span is what the port reaches (`Swept`, with `Bands` what there is
to either side of the centre): a band of nothing, or more single shots than a sequencer has
registers, ends it before anything is played (`BuildRefuses`). A trace borrows the
acquisition delay and the integration window, and puts them back in `analyse` (`Analysed`) -
which it does not reach when its acquisition raises. Which of its answers a fit gives is
left open, within what the fit of that routine can raise. A mistake in `calibration.yml`
that raises in a build, and a node that runs over its time budget, are left to `Fail` of
`CalibrationRun`.

### MC modules

The modules `MC...` name the model values and the functions between them (which driver
a session serves, which QPU a driver is on, which elements a chip has). Nothing of a
specification is redefined there or in a `.cfg`.

## 4. Runs

Every run sets `CHECK_DEADLOCK FALSE`: a server with nothing queued is idle, and
once a bound is spent a behaviour may end.

The bounds of the server's models: `MaxSends` (dispatches of one item), `MaxFaults` (crashes, restarts,
losses, connects that overlap an earlier one), `MaxToggles` (acts of an
administrator), `MaxDrifts` (drift checks). Two sessions of one driver are enough
for an old one to be closing while a new one works; two jobs for an order; two
drivers for a race of peers. No step of the code looks at three of them at
once; what three of a kind could do together is what the proofs are for (it was one of
them that showed that `LivePeerIsFound` needs a driver `ServedAlone`).

On the node: `MaxSaves` and `MaxMishaps` (saves, and deaths, edits and restores between
them), `MaxJobs`, `MaxStarts`, `MaxFaults` of the driver, `MaxRuns` and `MaxFailures` of a
tuner. Two saves and two mishaps are enough for a file to be replaced under an edit and
for a torn backup to be restored; three times for a file to change twice and to go back;
two runs of a tuner for what one leaves in memory or in the files to meet the other; two
failures for blame to merge. `experiments` has no bound but the code's own: its constants are
inputs, the points an operator names (`NamedPoints`), the frequencies the port has left over
(`Bands`: none, some of a span, all of it) and the integration time the device comes with
(`Incumbents`: within the usable window, and past it).

### Passing

* `jobs_queue` - two jobs of one user for a QPU, beside a QPU with a driver of its
  own: `OldestFirst` (the order of first dispatch is that of submission, through
  failed sends and recoveries) and `FinishedJobsRan`. Two faults, so that both ends
  of a session may fail.
* `jobs_service` - one job sent up to four times over two sessions of one driver. The one
  fault may be a crash, a loss, a deduction that is refused, a save that fails, or a worker
  or a pump that ends under its process:
  `TypeOK`; `EarlyCancelIsFinal` (a job cancelled before any dispatcher had picked it
  stays cancelled and unsent); `SwitchOffLetsOneThrough`; `ImplementsService`;
  `AcceptedJobIsAnswered`. Four sends are a first, one repeated by the fault, and two
  more by the recovery engine, with answers in any order.
* `cal_queue` - two requests, two sessions, two faults: `TypeOK`, `OldestFirst`.
* `cal_switch_off` - a fidelity check, a full calibration, a drift check, their
  recalibrations and a change of service: `SwitchOffLetsOneThrough` (the state event
  ahead on the same socket stops the second request), `DoneRequestRan`,
  `AnnouncedBeforeReported`.
* `cal_liveness` - a request, a drift check and a fault: `RequestIsSettled`.
* `ses_sessions` - one driver and its process with two pipes, two sessions, a fault and an
  act of the administrator: `TypeOK`, `LeaseIsServed`, `OnlineIsThisServers`,
  `WithdrawnIsReleased`, `DriverIsServed`.
* `ses_peers` - two drivers of one role, two faults: `LivePeerIsFound`. The process of one
  may redial, so that the hook of its older pipe is at work beside the newer one (the two
  pipes are interchangeable: a symmetry set). No act of an administrator here; those the
  proof covers. The property is of a look-up that is answered: one whose query fails admits
  (`AdmitUnknown`, `api.go:719-721`). It is about a live driver that is run once and
  `ServedAlone`: the detach hook of an older pipe of its own (`nng_driver.go:187-199`), or a
  process that was given the same ports (`PortsAreDistinct` below), may be about to write
  `offline` on its record and to take its lease. A driver of no operation (a custom kind) has
  no peers in `connectedPeer`.
* `walk` - two transmons and the edge between them, eight routines enabled of the 36
  registered (producers, refiners, one that republishes, the two-state readout pair, one
  of an edge, a benchmark; the others relay the order), two runs, two failures: `TypeOK`;
  `WalkAssumption` and `BenchmarkAssumption`, of this catalog;
  `SkipsNameAFailure`; `NothingMeasuresOnARefusal`, which speaks of the report and not of
  the ledger; `EveryNodeIsReported`; `RecordedValueIsInTheFile`;
  `FidelityCheckChangesNothing`. With `Enabled <- Everything` and one run the whole
  catalog passes too: on the pair of transmons with one failure, on one with two.
* `experiments` - one measurement of each of the 36 routines, with and without an axis named
  in `calibration.yml`: `TypeOK`, `RowsAreWhatAnalyseFits`, `EveryTryIsAnotherSweep`,
  `SweepIsPlayable`, `BorrowedSettingIsReturned`, `MeasurementEnds`. Two of them name what
  the code does not do: a frequency sweep of 700 points is tried again as it was
  (`routines.py:757-766`), and a trace whose acquisition raised, like a coupler whose source
  failed, is left with what was borrowed. An integration time past the usable window is
  clamped before it is measured: the data are what was played, and
  `IncumbentIsMeasuredAsItStands` below is what is then not kept.
* `node_file` - `TypeOK`, `SaveNeverTearsTheFile`, `ReplacedVersionIsKept`,
  `ImplementsSharedFile`. The two versions are interchangeable to the code, so they are
  a symmetry set; no property of the run is a liveness property.
* `node_driver` - `TypeOK`, `AnswersComeInOrder`, `SignatureVouches`, `JobIsAnswered`.

### Violated

`node_parked` checks `CouplerIsParkedAsDeclared`: the rack is chosen from the currents
the device config declares when the driver starts, so a coupler that declared none and is
given its first current while the driver runs is not parked (a declared current of zero asks
for nothing, and the property says nothing of it), although `docs/driver/operations.md:273-276`
says such a config needs no restart. `PROJECT.json` quotes it.

The modules state more of what a document, a comment or a catalog of the repository says
and the code does not keep, each with its quotation. They are not among the routine runs;
to see one, put it alone in place of the properties of the run in the second column and
make the changes in the third. TLC found every one of them violated there.

| statement | run | changes | what happens |
| --- | --- | --- | --- |
| `TerminalIsFinal` | `jobs_queue` | `Jobs = {1}`, `MaxFaults = 0` | a job cancelled during its send is set back to `running` |
| `RecoveryResetsOnlyRunning` | `jobs_queue` | `Jobs = {1}` | a job finished or cancelled after the recovery engine listed it goes back to `pending` |
| `OnlyProcessorsAreSentJobs` | `jobs_queue` | `Processors = {d1}`, `DriverQPU <- AllOnQ1` | a monitor's or a tuner's dispatcher takes jobs |
| `ReportReleasesItsRow` | `cal_switch_off` | `MaxToggles = 0` | the report of a drift check leaves its row `running`, which blocks the chip |
| `RunningIsInProgress` | `cal_queue` | `MaxFaults = 0` | with no fault, a quick result is overwritten by `running`, which then stays |
| `RefusalIsRecorded` | `cal_switch_off` | | the server rejects a tuner's refusal and the request stays `running` |
| `SwitchedOffIsNotOffered` | `cal_switch_off` | | a queued request is offered although the QPU is switched off |
| `OneCalibrationPerChip` | `cal_queue` | `Tuners <- TwoTuners`, `Sessions <- SessionOfEach` | two tuners calibrate one chip at once |
| `OwnRunHasARow` | `cal_switch_off` | `MaxDrifts = 2` | a second drift check has no running row |
| `SaidIsHeard` | `cal_switch_off` | `MaxFaults = 1` | a tuner that reconnects to its old lease is not told its chip's state |
| `EnabledIsAdminIntent` | `ses_sessions` | `Spec` | connecting enables a driver that was just disabled |
| `DeletedIsReleased` | `ses_sessions` | `Spec` | connecting starts goroutines for a driver that was just deleted |
| `LeaseHasItsListener` | `ses_sessions` | `Spec` | a session whose listener could not bind keeps its lease |
| `SessionIsWhereRecorded` | `ses_sessions` | `Spec`, `Pairs = {1, 2}`, `Processes <- TwoProcesses` | the ports on record are not those the session listens on |
| `OnePerRole` | `ses_peers` | `PipeOf <- OneEach`, no `SYMMETRY` | two drivers of one role are served |
| `PortsAreDistinct` | `ses_peers` | | two drivers have the same ports |
| `IdleDriverBlocksNobody` | `ses_peers` | | a driver with no process is `online` and leased, and its peers are refused |
| `QPUTracksItsProcessDriver` | `ses_peers` | `Operation <- AMonitorToo`, `PipeOf <- OneEach`, no `SYMMETRY` | a monitor that leaves takes the QPU offline under its process driver |
| `MaintenanceStands` | `ses_sessions` | `Spec` | a driver that attaches ends a QPU's maintenance |
| `ClearedQPUIsOnline` | `ses_sessions` | `Spec`, `MaxToggles = 2` | the end of maintenance leaves a served QPU offline |
| `AFailedRefinerLeavesTheValue` | `walk` | | a Ramsey that fails leaves its trial in `clock_freqs.f01` (`single_qubit.py:449`; `dag.py:747` says it does not) |
| `HealthyChipIsLeftAlone` | `walk` | | a diagnosis with every check passed still blames the seed, which has no check |
| `IncumbentIsMeasuredAsItStands` | `experiments` | | the window to be replaced is clamped before it is measured |
| `EscalationStaysInOneSchedule` | `experiments` | | a list axis asked for finer steps grows past 700 points |
| `TunerReadWhatItMarked` | `node_file` | | a write between the reading and the mark is never noticed |
| `FailedSaveLeavesTheBackup` | `node_file` | | a tuner terminated during the copy leaves a torn `.prev`; `operations.md:253` says a failed calibration writes nothing |
| `RunningJobHasTheFilesDevice` | `node_driver` | `Spec` | a job runs on an older device than the file, with nothing left to notice |
| `ServingDriverAnswers` | `node_driver` | `Spec` | a worker that never came up, or a pump that ended, leaves the driver receiving |

Further disagreements met on the way, seen in the models' definitions and not stated as
properties: the `reads` of the CZ routines leave out what a CZ pulse takes from the device,
against what `_ParameterLedger`'s comment says of them; a prior handed back is recorded
as measured (`_record_provenance` goes by `updates`), and so is the discriminator's line
where it is written beside the two-state point; a fit that was refused counts as a result,
so that a run in which every fit was refused still rewrites the file and `.prev`; a
frequency sweep at the point limit is tried again as it was, against `routines.py:727-730`; a
trace whose acquisition fails leaves its own delay and window on the device, against
`spectroscopy.py:221-223`; `fine_amplitude_90` may, in
a later pass, hand back the candidate of its first pass as the value it could not improve;
nothing applies a measured `parking_current` to the tuner's own rack.

### Fairness

`jobs_service`, `cal_liveness`, `ses_sessions`, `experiments` and `node_driver` use
`FairSpec`, the others `Spec`, which has no fairness:

* goroutines, threads, hooks, handlers and workers are weakly fair: the Go and
  Python schedulers run them whenever they have something to do;
* in `JobLifecycle`, `Fetch` is strongly fair. The dispatcher polls again and again,
  and the job it finds is the oldest one, which other jobs cannot displace for ever;
* the recovery engine is fair only to jobs that are not in flight, so that a run in
  which `JobTimeout` is too short for every execution is not what answers depend on;
* operators restart a driver that is down or no longer served, and in `JobLifecycle` one
  that receives and never answers, its worker or its pump having ended
  (`OperatorRestarts`). No driver asks for a second lease by itself (`sdk.py` connects once)
  and none looks after its worker, so nothing in the code would. That such a driver stands
  until somebody notices is `ServingDriverAnswers`; a job that the recovery engine gives it
  meanwhile counts against `MaxFaults`;
* in `CalibrationQueue` operators close rows that are stuck (`operations.md:333`);
* in `DriverSession` they enable a disabled driver and disable one that holds a lease
  with nothing connected (`operations.md:206`), the latter strongly fair, since the
  driver's supervisor may connect at any time in between;
* in `Experiment`, the next-state relation as a whole is weakly fair: a routine runs in
  one thread that waits for nothing but its own acquisition, which times out;
* in `ProcessDriver`, the worker process and the pump thread are weakly fair, each as a
  whole. Nothing makes a server send, an operator stop, or a file stop moving:
  `JobIsAnswered` holds although the file may change before every job. Its other ways
  out (the driver stops, the worker never came up, the pump ended) are the code's own.

What people do is an assumption, and the liveness results are relative to it. Without
it `RunningIsInProgress` and `IdleDriverBlocksNobody` show where a behaviour gets stuck.
Faults, requests of users, and acts of administrators are under no fairness.

## 5. Proofs

`JobLifecycle_proofs` proves, for every finite or infinite set of jobs, users, QPUs,
drivers and sessions and every bound, from `JobsAssumption`:

| theorem | property |
| --- | --- |
| `TypeCorrect` | `TypeOK` |
| `EarlyCancelHolds` | `EarlyCancelIsFinal` |
| `SwitchOffHolds` | `SwitchOffLetsOneThrough` |
| `OldestFirstHolds` | `OldestFirst` |
| `FinishedHolds` | `FinishedJobsRan` |
| `PipelineIsAService` | `ImplementsService`: the refinement |

None of the last five is inductive. What is added to each, and why:

* `SentInv` - every job named by the `running` status, the recovery list, a wire or a
  driver was sent. It is what makes the recovery engine harmless to a job never sent.
* `QuietInv` - no dispatcher holds a job that was cancelled before any had picked it,
  and no record of it says otherwise. With `SentInv` it gives `EarlyCancelIsFinal`:
  each of the four unconditional writers is about a job that was picked or sent.
* `LateInv` - while a QPU serves, no session has sent a job late; one that has holds no
  other. A dispatcher can therefore not send a second one.
* `QueueInv` - jobs are submitted in the order of their names, a cancelled one is on
  record as such, and a dispatcher's job is older than every job of that owner that is
  still pending and unsent. The third is what a failed send and a second dispatcher
  could break.
* `RouteInv` - a job is on its way only to drivers of its target QPU; `ResultInv` -
  results travel from an execution to the listener, the record and nowhere else.
  Together: a finished record has results, from a driver that could have run it.
* `HeardInv` - the results of a job that listeners took and those that none has taken are
  together no more than its executions (`Due` is the set of the latter's places in the
  outboxes, so that a crash, which loses some, is a subset); the results stored and those a
  listener holds are together no more than those taken. It makes each hearing one that
  `JobService` allows, and each answer one that was heard and not yet stored. A charge is
  part of a hearing, or is left out of it.

Each has its lemma for the initial state and one for a step, with a case per action;
the theorems combine them by PTL.

`DeviceFile_proofs`, for every set of versions and every number of saves and mishaps,
from the assumptions of `SharedFile` and `DeviceFile`:

| theorem | property |
| --- | --- |
| `TypeCorrect` | `TypeOK` |
| `FileIsAsShared` | `ImplementsSharedFile`: the refinement, under `AnyTimeMayBeGiven` |
| `FileIsNeverTorn` | `SaveNeverTearsTheFile` |
| `ReplacedIsKept` | `ReplacedVersionIsKept` |

* `TypeInv` adds to `TypeOK` what each place of the tuner implies of what it holds.
* `ClockAhead` - every time there is, of the file, the backup, an edit or the past, is
  behind the clock. It makes each write one with a time the file never had, which is
  the guard of `SharedFile!Write`.
* `OneTextPerTime` - the file said one thing at each time, and so does the backup if it
  bears one of these times. A restore is a `PutBack` because of it.
* `HandHoldsTheFile` - a file that does not load is in an operator's hand, or a torn
  backup was put back; a candidate past its check is a version. It gives `FileIsNeverTorn`.
* `BackupIsTheFile` - between the copy and the move, with nobody else at the file, the
  backup says what the file does. `alone` is what makes it inductive.

`AnyTimeMayBeGiven` says that `Times` and `Inodes` are all the naturals: a clock and a
file system that may give any. The run has more of them than its bounds can use.

`ProcessDriver_proofs`, for every set of versions, currents, jobs, starts and faults, and
beside every writer that keeps to `SharedFile`:

| theorem | property |
| --- | --- |
| `TypeCorrect` | `TypeOK` |
| `SignatureIsEnough` | `SignatureVouches` |
| `AnswersAreInOrder` | `AnswersComeInOrder` |

* `TypeInv` adds that a worker at a job has it at the head of the queue.
* `OneTextPerTime` is the file's; `ReadIsOfThePast` says that what the worker holds is
  what the file said at the time of the signature it read. Together they are
  `SignatureIsEnough`.
* `OrderParts` - the numbers answered, in the result queue and in the job queue follow
  one another and make up those taken (`QueuesInOrder`, `ResultsInOrder`); nothing follows
  a pill that the pump has taken (`PillIsSent`); a driver that is off has nothing in its
  queues (`NothingFromNobody`). None of them is inductive without the others.

With `FileIsAsShared`, `SignatureIsEnough` holds of the process driver beside the tuner
and the operator of `DeviceFile`.

`DriverSession_proofs`, for every set of drivers, processes, sessions, QPUs and ports, from
`SessionAssumption` and `OperationAssumption`:

| theorem | property |
| --- | --- |
| `TypeCorrect` | `TypeOK` |
| `LeaseIsServedHolds` | `LeaseIsServed` |
| `OnlineIsThisServersHolds` | `OnlineIsThisServers` |
| `WithdrawnIsReleasedHolds` | `WithdrawnIsReleased` |
| `LivePeerIsFoundHolds` | `LivePeerIsFound` |

* `OnlineInv` adds to the records the copies that connect requests will write back.
* `WithdrawnInv` - of a driver withdrawn while nobody was connecting, no request that
  could enable or serve it is under way.
* `PeerInv` - a process whose request is under way is not connected, and what pipes it had
  are lost (`RequestInv`); where the only pipe of a driver run once has been marked, and
  nothing is about to take that away, the record reads `online` (`Claimed`). A hook of an older
  pipe, a second process or a stranger on its port are exactly what the premise rules out.

`CalibrationQueue_proofs`, for every set of requests, tuners, chips and sessions and every
bound, from `CalibrationAssumption` and `NamesAssumption` (two model values are no jobs):

| theorem | property |
| --- | --- |
| `TypeCorrect` | `TypeOK` |
| `OldestFirstHolds` | `OldestFirst` |
| `DoneRequestRanHolds` | `DoneRequestRan` |
| `AnnouncedBeforeReportedHolds` | `AnnouncedBeforeReported` |
| `SwitchOffHolds` | `SwitchOffLetsOneThrough` |

* `QueueInv` - requests are queued in order, and one a dispatcher holds is older than any
  of that tuner never sent.
* `RanInv` - whatever a worker runs and whatever is reported as ended, at each place
  between the worker and the row, began.
* `AnnouncedInv` - a row a tuner started by itself is announced, or its announcement is
  ahead of all that concerns it, in the threads, the worker and the socket.
* `SwitchInv`, of behaviours without a fault - a tuner that started is served by one
  session for good (`CalmInv`), each request is at one place (`OnceInv`), and of those
  sent after the switch only one is before the state event (`LateInv`).

`CalibrationRun_proofs`, for every catalog of routines, every chip, and every number of runs
and failures:

| theorem | property |
| --- | --- |
| `SkipsNameAFailureHolds` | `SkipsNameAFailure` |
| `NothingMeasuresOnARefusalHolds` | `NothingMeasuresOnARefusal` |
| `RecordedValueIsInTheFileHolds` | `RecordedValueIsInTheFile` |
| `TypeCorrect` | `TypeOK` |
| `EveryNodeIsReportedHolds` | `EveryNodeIsReported` |
| `FidelityCheckChangesNothingHolds` | `FidelityCheckChangesNothing` |

* `BlameInv` - whoever the ledger blames failed in this walk.
* `RefusalInv` - ledger and report agree: what the ledger calls produced some success
  updates, and what a failed or skipped node was to update is held against somebody.
* `FilesInv` - values are known by a run no later than this one; what the walk measured
  is in the device, and in the file once it is saved; what is on record is no newer than
  either. The lemma `GreatestOf` (a bounded set of numbers has a greatest one) is for
  `Record`, which goes by the last result.
* `WalkInv` - what is to visit are nodes, of a fidelity check benchmarks; of a full walk,
  report and remainder together are the walk, one for one.

The first three properties hold of any list of nodes. `TypeCorrect` and the last two
rest on `WalkAssumption`: a full walk visits every node there is once, a fidelity check
benchmarks, a partial walk only nodes. That is what Kahn's algorithm, `SelectSeq` and the folds come to for a catalog
without a cycle, and it takes an induction over data to prove. TLC evaluates it on the
shipped catalog whenever `walk` runs, and with it `BenchmarkAssumption`: a benchmark
updates nothing and tries nothing. The assumptions on the catalog's shape
(`GraphAssumption`, `TargetAssumption`) are needed by none of the proofs, `BoundAssumption`
by `TypeCorrect`.

`Experiment_proofs`, for every choice of experiments of the table, of configured numbers of
points, of integration times and of currents, from `ExperimentAssumption` and
`ConstantAssumption`:

| theorem | property |
| --- | --- |
| `TypeCorrect` | `TypeOK` |
| `EveryTryIsAnotherSweepHolds` | `EveryTryIsAnotherSweep` |
| `SweepIsPlayableHolds` | `SweepIsPlayable` |
| `BorrowedSettingIsReturnedHolds` | `BorrowedSettingIsReturned` |
| `RowsAreWhatAnalyseFitsHolds` | `RowsAreWhatAnalyseFits` |

* `SweepInv` - the sweep fits its axis after the refusals so far, and each sweep refused in
  this stage is below it, or above it on a ladder: the loops move one way. A span of
  `MAX_SWEEP_POINTS` has nowhere to move, and is the exception the property names.
* `BorrowInv` - only a search can be searching, only traces and couplers borrow, and a
  coupler is parked again before its lines are fitted. The two exceptions the property names
  are ends that neither `analyse` nor the park comes before.
* `HeldRowsInv` - what was acquired is the beginning of the grid as it is played, row by row,
  and at the end the routine holds the rows of the whole grid.
* `TypeInv` - the places of the loops bound their counters (`CountersOK`), and the grid is
  the one the sweep asked for at first (`RowsInv`, `PointsInv`). The lemma `AscendingSorts`
  shows that the windows come out sorted, each once. `Windows` sorts by rank for its sake:
  the library's `SortSeq` is opaque to the prover.

Each invariant has its lemma for the initial state and one for a step, with a case per
action; the theorems combine them by PTL.

Only model-checked: liveness (`AcceptedJobIsAnswered`, `RequestIsSettled`,
`DriverIsServed`, `JobIsAnswered`, `MeasurementEnds`), which is out of the prover's reach
with `ENABLED`; and what the folds and the recursive function of `CalibrationGraph` compute
(`WalkAssumption`), which needs induction over data.

## 6. Running

`tlc -config JobsQueue.cfg MCJobLifecycle` checks a run, `tlapm
JobLifecycle_proofs.tla` a module of proofs. Each passing run takes at most three minutes on two
cores. The definitions that `PROJECT.json` names under `mutants` are plausible mistakes in
the code: with one of them in place of the definition it stands before, TLC finds the
property violated that is named with it, which is how we know that the property says
something.
