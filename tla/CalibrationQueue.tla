-------------------------- MODULE CalibrationQueue --------------------------
(***************************************************************************)
(* The life of a calibration: requests queued by an operator, dispatched   *)
(* to a tuner one at a time per chip, and the drift checks and             *)
(* recalibrations a tuner starts by itself and announces to the server.    *)
(* On the server, the dispatcher and the listener of each session; in the  *)
(* tuner, a receive thread, a timer thread, a pump thread and a worker     *)
(* process around one `_busy` flag.                                        *)
(*                                                                         *)
(* Each database access and each step of a thread between two accesses to  *)
(* shared state is an action.  Progress events and the plan column, which  *)
(* nothing reads back, are left out; the second announcement a plan makes  *)
(* is in.                                                                  *)
(***************************************************************************)
EXTENDS Naturals, Sequences

CONSTANTS
  Requests,       \* calibration_requests an operator queues, by `created`
  Chips,
  Tuners,         \* drivers whose operation is `calibrate`
  Sessions,       \* leases: a dispatcher, a listener and their two sockets
  RequestTuner,   \* calibration_requests.driver
  FidelityChecks, \* the requests of mode fidelity_check
  ChipOf,         \* drivers.qpu
  SessionTuner,
  NoSession,
  NoJob,
  Dead,           \* the worker of a tuner that could not be set up
  MaxSends,       \* bound: times a request is put on a socket
  MaxDrifts,      \* bound: drift checks in a behaviour
  MaxToggles,     \* bound: changes of a chip's service state
  MaxFaults       \* bound: faults of the environment

ASSUME CalibrationAssumption ==
  /\ Requests \subseteq Nat \ {0}
  /\ RequestTuner \in [Requests -> Tuners]
  /\ FidelityChecks \subseteq Requests
  /\ ChipOf \in [Tuners -> Chips]
  /\ SessionTuner \in [Sessions -> Tuners]
  /\ NoSession \notin Sessions
  /\ MaxSends \in Nat /\ MaxDrifts \in Nat /\ MaxToggles \in Nat /\ MaxFaults \in Nat

\* A calibration is named by its job_id: a request's own id, `drift_check`
\* (of = 0), or either of them with `_recalibrate` after it.
DriftCheck == [of |-> 0, again |-> FALSE]
Asked(r) == [of |-> r, again |-> FALSE]
Recalibrate(job) == [of |-> job.of, again |-> TRUE]
IsCheck(job) == ~job.again /\ job.of \in FidelityChecks \cup {0}

RequestJobs == {Asked(r) : r \in Requests}
SelfJobs == {DriftCheck} \cup {[of |-> r, again |-> TRUE] : r \in FidelityChecks \cup {0}}
Jobs == RequestJobs \cup SelfJobs

ASSUME NamesAssumption == NoJob \notin Jobs /\ Dead \notin Jobs \cup {NoJob}

ServiceStates == {"online", "maintenance", "disabled"}
Finished == {"done", "failed"}

VARIABLES
  \* the calibration_requests collection
  request,     \* status of the rows of Requests
  selfRow,     \* status of the rows a tuner's announcements created, by job_id
  service,     \* the chip, as ServiceStateOf reads it from the qpus collection
  \* the server's goroutines
  lease,       \* activeDrivers
  attached,    \* a pipe of the driver has come up: drivers.status is `online`
  broken,      \* the driver's last process is gone and its pipe still looks up
  dpc, ditem,  \* dispatcher: where it is in its loop, and the request it holds
  said,        \* lastStateSent
  lpc, litem,  \* listener: likewise, with the row it is about to create
  open, down,  \* the session's sockets, and the events sent and not received
  \* the tuner processes
  alive,
  told,        \* _qpu_state
  busy,        \* _busy
  receiving,   \* the receive thread: the calibration it found _busy unset for
  ticking,     \* the timer thread is past its checks and has not queued yet
  pumping,     \* the pump thread: the follow-up it has not queued yet
  jobs, work,  \* the worker's queue, and what it runs
  reports, out, \* the pump's queue, and the events on their way to the server
  \* history and bounds
  sent, ran,
  cut,         \* tuners some of whose events were lost on the way up
  lateSent,    \* requests sent since their chip was switched off ...
  lateAccepts, \* ... and how many of them a tuner accepted
  drifts, toggles, faults

rowVars    == <<request, selfRow>>
dispVars   == <<dpc, ditem, said>>
listVars   == <<lpc, litem>>
wireVars   == <<lease, attached, broken, open, down>>
threadVars == <<told, busy, receiving, ticking, pumping>>
workVars   == <<jobs, work, reports>>
tunerVars  == <<alive, threadVars, workVars, out>>
histVars   == <<sent, ran, cut, lateSent, lateAccepts>>
boundVars  == <<drifts, toggles, faults>>
vars == <<rowVars, service, dispVars, listVars, wireVars, tunerVars, histVars, boundVars>>

Leased(s) == lease[SessionTuner[s]] = s
Chip(s) == ChipOf[SessionTuner[s]]
Fault == faults < MaxFaults /\ faults' = faults + 1
Suffixes(q) == {SubSeq(q, k, Len(q)) : k \in 1..(Len(q) + 1)}

Init ==
  /\ request = [r \in Requests |-> "absent"]
  /\ selfRow = [d \in Tuners |-> [j \in SelfJobs |-> "absent"]]
  /\ service = [q \in Chips |-> "online"]
  /\ lease = [d \in Tuners |-> NoSession]
  /\ attached = [d \in Tuners |-> FALSE]
  /\ broken = [d \in Tuners |-> FALSE]
  /\ dpc = [s \in Sessions |-> "off"]
  /\ ditem = [s \in Sessions |-> NoJob]
  /\ said = [s \in Sessions |-> "nothing"]
  /\ lpc = [s \in Sessions |-> "off"]
  /\ litem = [s \in Sessions |-> NoJob]
  /\ open = [s \in Sessions |-> FALSE]
  /\ down = [s \in Sessions |-> <<>>]
  /\ alive = [d \in Tuners |-> FALSE]
  /\ told = [d \in Tuners |-> "online"]
  /\ busy = [d \in Tuners |-> FALSE]
  /\ receiving = [d \in Tuners |-> NoJob]
  /\ ticking = [d \in Tuners |-> FALSE]
  /\ pumping = [d \in Tuners |-> NoJob]
  /\ jobs = [d \in Tuners |-> <<>>]
  /\ work = [d \in Tuners |-> NoJob]
  /\ reports = [d \in Tuners |-> <<>>]
  /\ out = [d \in Tuners |-> <<>>]
  /\ sent = [r \in Requests |-> 0]
  /\ ran = {} /\ cut = {} /\ lateSent = {}
  /\ lateAccepts = [d \in Tuners |-> 0]
  /\ drifts = 0 /\ toggles = 0 /\ faults = 0

-----------------------------------------------------------------------------
(* Operators, over HTTP and in the admin interface. *)

\* handleCalibrateDispatch: refused for a chip that is switched off.  A switch-off
\* between that check and the save is one just after the save.
QueueRequest(r) ==
  /\ request[r] = "absent"
  /\ \A p \in Requests : p < r => request[p] # "absent"
  /\ service[ChipOf[RequestTuner[r]]] # "disabled"
  /\ request' = [request EXCEPT ![r] = "pending"]
  /\ UNCHANGED <<selfRow, service, dispVars, listVars, wireVars, tunerVars, histVars, boundVars>>

\* handleQPUToggle and handleQPUMaintenance.
SetService(q, state) ==
  /\ service[q] # state /\ toggles < MaxToggles
  /\ toggles' = toggles + 1
  /\ service' = [service EXCEPT ![q] = state]
  /\ lateSent' = {r \in lateSent : ChipOf[RequestTuner[r]] # q}
  /\ lateAccepts' = [d \in Tuners |-> IF ChipOf[d] = q THEN 0 ELSE lateAccepts[d]]
  /\ UNCHANGED <<rowVars, dispVars, listVars, wireVars, tunerVars, sent, ran, cut, drifts, faults>>

\* Whether some process or socket still knows of a calibration of tuner d.
InProgress(job, d) ==
  \/ \E s \in Sessions :
       /\ SessionTuner[s] = d
       /\ \/ ditem[s] = job \/ litem[s] = job
          \/ \E i \in DOMAIN down[s] : down[s][i].job = job
  \/ receiving[d] = job \/ pumping[d] = job \/ work[d] = job
  \/ \E i \in DOMAIN jobs[d] : jobs[d][i] = job
  \/ \E i \in DOMAIN reports[d] : reports[d][i].job = job
  \/ \E i \in DOMAIN out[d] : out[d][i].job = job

\* What docs/driver/operations.md prescribes for a row stuck in `running`: an
\* operator sets it to `failed`, once nobody is working on it.
CloseRequest(r) ==
  /\ request[r] = "running" /\ ~InProgress(Asked(r), RequestTuner[r])
  /\ request' = [request EXCEPT ![r] = "failed"]
  /\ UNCHANGED <<selfRow, service, dispVars, listVars, wireVars, tunerVars, histVars, boundVars>>

CloseSelfRow(job, d) ==
  /\ selfRow[d][job] = "running" /\ ~InProgress(job, d)
  /\ selfRow' = [selfRow EXCEPT ![d][job] = "failed"]
  /\ UNCHANGED <<request, service, dispVars, listVars, wireVars, tunerVars, histVars, boundVars>>

-----------------------------------------------------------------------------
(* The dispatcher goroutine of a session. *)

\* Mutant: a request that waits counts as one that runs.
CalibrationWantedOn(q) ==
  \E r \in Requests : request[r] \in {"pending", "running"} /\ ChipOf[RequestTuner[r]] = q
CalibrationRunningOn(q) ==
  \/ \E r \in Requests : request[r] = "running" /\ ChipOf[RequestTuner[r]] = q
  \/ \E j \in SelfJobs, d \in Tuners : selfRow[d][j] = "running" /\ ChipOf[d] = q

Pending(d) == {r \in Requests : request[r] = "pending" /\ RequestTuner[r] = d}

\* The second query of FetchNextCalibration(d).
\* Mutant: the query is not ordered.
NextUnordered(d) == Pending(d)
NextRequests(d) == {r \in Pending(d) : \A p \in Pending(d) : r <= p}

\* Mutant: the state is told once per session.
AssertStateOnce(s) ==
  LET state == service[Chip(s)] IN
  /\ dpc[s] = "top" /\ Leased(s)
  /\ dpc' = [dpc EXCEPT ![s] = "fetch"]
  /\ IF said[s] # "nothing" THEN UNCHANGED <<said, down>>
     ELSE /\ said' = [said EXCEPT ![s] = state]
          /\ down' = [down EXCEPT ![s] = Append(@, [kind |-> state, job |-> NoJob])]
  /\ UNCHANGED <<rowVars, service, ditem, listVars, lease, attached, broken, open, tunerVars,
                 histVars, boundVars>>

\* One pass begins: the state of the chip is told to the driver if it is not what
\* was told last.  A failed send is tried again on the next pass, not waited for.
AssertState(s) ==
  LET state == service[Chip(s)] IN
  /\ dpc[s] = "top" /\ Leased(s)
  /\ dpc' = [dpc EXCEPT ![s] = "fetch"]
  /\ \/ state = said[s] /\ UNCHANGED <<said, down, faults>>
     \/ /\ state # said[s]
        /\ said' = [said EXCEPT ![s] = state]
        /\ down' = [down EXCEPT ![s] = Append(@, [kind |-> state, job |-> NoJob])]
        /\ UNCHANGED faults
     \/ state # said[s] /\ Fault /\ UNCHANGED <<said, down>>
  /\ UNCHANGED <<rowVars, service, ditem, listVars, lease, attached, broken, open, tunerVars,
                 histVars, drifts, toggles>>

\* FetchNextCalibration(d) looks for a calibration that runs on the chip and, finding
\* none, goes on to the requests that wait.  It does not ask whether the chip is
\* switched off.
LookForRunning(s) ==
  /\ dpc[s] = "fetch"
  /\ dpc' = [dpc EXCEPT ![s] = IF CalibrationRunningOn(Chip(s)) THEN "top" ELSE "found_free"]
  /\ UNCHANGED <<rowVars, service, ditem, said, listVars, wireVars, tunerVars, histVars, boundVars>>

Offer(s, r) ==
  /\ dpc[s] = "found_free"
  /\ r \in NextRequests(SessionTuner[s])
  /\ sent[r] < MaxSends
  /\ dpc' = [dpc EXCEPT ![s] = "offered"]
  /\ ditem' = [ditem EXCEPT ![s] = Asked(r)]
  /\ UNCHANGED <<rowVars, service, said, listVars, wireVars, tunerVars, histVars, boundVars>>

\* Nothing to calibrate: the pass goes on with the job queue.
NothingToOffer(s) ==
  /\ dpc[s] = "found_free"
  /\ NextRequests(SessionTuner[s]) = {}
  /\ dpc' = [dpc EXCEPT ![s] = "top"]
  /\ UNCHANGED <<rowVars, service, ditem, said, listVars, wireVars, tunerVars, histVars, boundVars>>

SendRequest(s) ==
  LET r == ditem[s].of IN
  /\ dpc[s] = "offered" /\ open[s]
  /\ sent[r] < MaxSends
  /\ dpc' = [dpc EXCEPT ![s] = "sent"]
  /\ down' = [down EXCEPT ![s] = Append(@, [kind |-> "calibrate", job |-> ditem[s]])]
  /\ sent' = [sent EXCEPT ![r] = @ + 1]
  /\ lateSent' = IF service[Chip(s)] = "disabled" THEN lateSent \cup {r} ELSE lateSent
  /\ UNCHANGED <<rowVars, service, ditem, said, listVars, lease, attached, broken, open, tunerVars,
                 ran, cut, lateAccepts, boundVars>>

\* A failed send leaves the request pending.
SendFails(s) ==
  /\ dpc[s] = "offered"
  /\ IF open[s] THEN Fault ELSE UNCHANGED faults
  /\ dpc' = [dpc EXCEPT ![s] = "top"]
  /\ ditem' = [ditem EXCEPT ![s] = NoJob]
  /\ UNCHANGED <<rowVars, service, said, listVars, wireVars, tunerVars, histVars, drifts, toggles>>

\* Mutant: the dispatcher goes on with the request it had in hand.
MarkRunningKeepsItem(s) ==
  /\ dpc[s] = "sent"
  /\ request' = [request EXCEPT ![ditem[s].of] = "running"]
  /\ dpc' = [dpc EXCEPT ![s] = "top"]
  /\ UNCHANGED <<selfRow, service, ditem, said, listVars, wireVars, tunerVars, histVars, boundVars>>

\* After the send the request is marked running, whatever it is by now.
MarkRunning(s) ==
  /\ dpc[s] = "sent"
  /\ request' = [request EXCEPT ![ditem[s].of] = "running"]
  /\ dpc' = [dpc EXCEPT ![s] = "top"]
  /\ ditem' = [ditem EXCEPT ![s] = NoJob]
  /\ UNCHANGED <<selfRow, service, said, listVars, wireVars, tunerVars, histVars, boundVars>>

DispatcherReturns(s) ==
  /\ dpc[s] = "top" /\ ~Leased(s)
  /\ dpc' = [dpc EXCEPT ![s] = "off"]
  /\ said' = [said EXCEPT ![s] = "nothing"]
  /\ UNCHANGED <<rowVars, service, ditem, listVars, wireVars, tunerVars, histVars, boundVars>>

-----------------------------------------------------------------------------
(* The listener goroutine of a session. *)

Receiving(s) == lpc[s] = "recv" /\ open[s] /\ out[SessionTuner[s]] # <<>>
Arrived(s) == Head(out[SessionTuner[s]])
Taken(s) == out' = [out EXCEPT ![SessionTuner[s]] = Tail(@)]

\* findCalibrationRequest
HasRow(job) == IF job \in RequestJobs THEN request[job.of] # "absent"
               ELSE \E d \in Tuners : selfRow[d][job] # "absent"

\* handleCalibrationQueued, the look-up.  A row that is there is left as it is,
\* whatever its status and whoever's it is.
ReceiveQueued(s) ==
  /\ Receiving(s) /\ Arrived(s).kind = "queued"
  /\ Taken(s)
  /\ IF HasRow(Arrived(s).job) THEN UNCHANGED listVars
     ELSE /\ lpc' = [lpc EXCEPT ![s] = "create"]
          /\ litem' = [litem EXCEPT ![s] = Arrived(s).job]
  /\ UNCHANGED <<rowVars, service, dispVars, wireVars, alive, threadVars, workVars,
                 histVars, boundVars>>

\* handleCalibrationQueued, the save: the row of a calibration nobody dispatched.
CreateRow(s) ==
  /\ lpc[s] = "create"
  /\ selfRow' = [selfRow EXCEPT ![SessionTuner[s]][litem[s]] = "running"]
  /\ lpc' = [lpc EXCEPT ![s] = IF open[s] THEN "recv" ELSE "off"]
  /\ litem' = [litem EXCEPT ![s] = NoJob]
  /\ UNCHANGED <<request, service, dispVars, wireVars, tunerVars, histVars, boundVars>>

\* handleCalibrationResult closes the row whose record id is the job_id: there is
\* none for a calibration the driver queued for itself, nor for `init_error`.
ReceiveResult(s) ==
  /\ Receiving(s) /\ Arrived(s).kind \in Finished
  /\ Taken(s)
  /\ request' = IF Arrived(s).job \in RequestJobs
                THEN [request EXCEPT ![Arrived(s).job.of] = Arrived(s).kind]
                ELSE request
  /\ UNCHANGED <<selfRow, service, dispVars, listVars, wireVars, alive, threadVars, workVars,
                 histVars, boundVars>>

\* Mutant: the report is not validated, and what does not read `failed` is done.
AcceptRefusal(s) ==
  /\ Receiving(s) /\ Arrived(s).kind = "refused"
  /\ Taken(s)
  /\ request' = [request EXCEPT ![Arrived(s).job.of] = "done"]
  /\ UNCHANGED <<selfRow, service, dispVars, listVars, wireVars, alive, threadVars, workVars,
                 histVars, boundVars>>

\* A refusal has neither mode nor status, and handleCalibrationResult rejects it.
ReceiveRefusal(s) ==
  /\ Receiving(s) /\ Arrived(s).kind = "refused"
  /\ Taken(s)
  /\ UNCHANGED <<rowVars, service, dispVars, listVars, wireVars, alive, threadVars, workVars,
                 histVars, boundVars>>

\* The rate limiter drops the event.
DropEvent(s) ==
  /\ Receiving(s) /\ Fault
  /\ Taken(s)
  /\ cut' = cut \cup {SessionTuner[s]}
  /\ UNCHANGED <<rowVars, service, dispVars, listVars, wireVars, alive, threadVars, workVars,
                 sent, ran, lateSent, lateAccepts, drifts, toggles>>

-----------------------------------------------------------------------------
(* The tuner: its receive thread, timer thread and pump thread. *)

Emit(d, kind, job) == out' = [out EXCEPT ![d] = Append(@, [kind |-> kind, job |-> job])]
Enqueue(d, job) == jobs' = [jobs EXCEPT ![d] = Append(@, job)]
Served(s) == open[s] /\ attached[SessionTuner[s]] /\ alive[SessionTuner[s]] /\ down[s] # <<>>

\* A QPUState event.
Hear(s) ==
  LET d == SessionTuner[s] IN
  /\ Served(s) /\ receiving[d] = NoJob
  /\ Head(down[s]).kind \in ServiceStates
  /\ down' = [down EXCEPT ![s] = Tail(@)]
  /\ told' = [told EXCEPT ![d] = Head(down[s]).kind]
  /\ UNCHANGED <<rowVars, service, dispVars, listVars, lease, attached, broken, open, alive, busy,
                 receiving, ticking, pumping, workVars, out, histVars, boundVars>>

\* handle_event looks at `_qpu_state` and at `_busy` ...
Consider(s) ==
  LET d == SessionTuner[s]
      job == Head(down[s]).job IN
  /\ Served(s) /\ receiving[d] = NoJob
  /\ Head(down[s]).kind = "calibrate"
  /\ down' = [down EXCEPT ![s] = Tail(@)]
  /\ IF told[d] = "disabled" \/ busy[d]
     THEN Emit(d, "refused", job) /\ UNCHANGED <<receiving, lateAccepts>>
     ELSE /\ receiving' = [receiving EXCEPT ![d] = job]
          /\ lateAccepts' = IF job.of \in lateSent
                            THEN [lateAccepts EXCEPT ![d] = @ + 1] ELSE lateAccepts
          /\ UNCHANGED out
  /\ UNCHANGED <<rowVars, service, dispVars, listVars, lease, attached, broken, open, alive, told,
                 busy, ticking, pumping, workVars, sent, ran, cut, lateSent, boundVars>>

\* ... and, a moment later, sets the flag and queues the calibration.
Accept(d) ==
  /\ receiving[d] # NoJob
  /\ busy' = [busy EXCEPT ![d] = TRUE]
  /\ Enqueue(d, receiving[d])
  /\ receiving' = [receiving EXCEPT ![d] = NoJob]
  /\ UNCHANGED <<rowVars, service, dispVars, listVars, wireVars, alive, told, ticking,
                 pumping, work, reports, out, histVars, boundVars>>

\* _check_fidelity looks at the same two, on the timer's thread ...
Tick(d) ==
  /\ alive[d] /\ ~ticking[d] /\ drifts < MaxDrifts
  /\ told[d] = "online" /\ ~busy[d]
  /\ drifts' = drifts + 1
  /\ ticking' = [ticking EXCEPT ![d] = TRUE]
  /\ UNCHANGED <<rowVars, service, dispVars, listVars, wireVars, alive, told, busy,
                 receiving, pumping, workVars, out, histVars, toggles, faults>>

\* A calibration of the tuner's own is announced before it is queued.
\* Mutant: it is queued, and announced when it begins.
QueueSilently(d, job) ==
  /\ busy' = [busy EXCEPT ![d] = TRUE]
  /\ Enqueue(d, job)
  /\ UNCHANGED out
QueueOwn(d, job) ==
  /\ busy' = [busy EXCEPT ![d] = TRUE]
  /\ Emit(d, "queued", job)
  /\ Enqueue(d, job)

\* ... and then queues a drift check.
QueueDrift(d) ==
  /\ ticking[d]
  /\ QueueOwn(d, DriftCheck)
  /\ ticking' = [ticking EXCEPT ![d] = FALSE]
  /\ UNCHANGED <<rowVars, service, dispVars, listVars, wireVars, alive, told, receiving,
                 pumping, work, reports, histVars, boundVars>>

\* _pump_one, a plan: the calibration is announced a second time.
PumpPlan(d) ==
  /\ pumping[d] = NoJob /\ reports[d] # <<>>
  /\ Head(reports[d]).kind = "plan"
  /\ reports' = [reports EXCEPT ![d] = Tail(@)]
  /\ Emit(d, "queued", Head(reports[d]).job)
  /\ UNCHANGED <<rowVars, service, dispVars, listVars, wireVars, alive, threadVars, jobs,
                 work, histVars, boundVars>>

\* _pump_one, an outcome: the tuner is free again before a follow-up is queued.
\* The flag is cleared just before the event is emitted: one step, since an event
\* another thread emits in between is of another calibration.
PumpResult(d) ==
  LET report == Head(reports[d]) IN
  /\ pumping[d] = NoJob /\ reports[d] # <<>> /\ report.kind \in Finished
  /\ reports' = [reports EXCEPT ![d] = Tail(@)]
  /\ busy' = [busy EXCEPT ![d] = FALSE]
  /\ Emit(d, report.kind, report.job)
  /\ pumping' = IF report.drifted THEN [pumping EXCEPT ![d] = Recalibrate(report.job)]
                ELSE pumping
  /\ UNCHANGED <<rowVars, service, dispVars, listVars, wireVars, alive, told, receiving,
                 ticking, jobs, work, histVars, boundVars>>

PumpFollowUp(d) ==
  /\ pumping[d] # NoJob
  /\ QueueOwn(d, pumping[d])
  /\ pumping' = [pumping EXCEPT ![d] = NoJob]
  /\ UNCHANGED <<rowVars, service, dispVars, listVars, wireVars, alive, told, receiving,
                 ticking, work, reports, histVars, boundVars>>

\* A socket may refuse an event.  _emit_queued carries on without the announcement ...
QueueUnannounced(d) ==
  /\ Fault
  /\ busy' = [busy EXCEPT ![d] = TRUE]
  /\ cut' = cut \cup {d}
  /\ \/ ticking[d] /\ Enqueue(d, DriftCheck)
        /\ ticking' = [ticking EXCEPT ![d] = FALSE] /\ UNCHANGED pumping
     \/ pumping[d] # NoJob /\ Enqueue(d, pumping[d])
        /\ pumping' = [pumping EXCEPT ![d] = NoJob] /\ UNCHANGED ticking
  /\ UNCHANGED <<rowVars, service, dispVars, listVars, wireVars, alive, told, receiving,
                 work, reports, out, sent, ran, lateSent, lateAccepts, drifts, toggles>>

\* ... and the guard of _pump_results reports a failure in place of an outcome, if
\* the socket takes that; the follow-up of the outcome is not queued.
ReportFails(d) ==
  LET report == Head(reports[d]) IN
  /\ Fault
  /\ pumping[d] = NoJob /\ reports[d] # <<>>
  /\ reports' = [reports EXCEPT ![d] = Tail(@)]
  /\ cut' = cut \cup {d}
  /\ \/ report.kind = "plan" /\ UNCHANGED <<busy, out>>
     \/ /\ report.kind \in Finished
        /\ busy' = [busy EXCEPT ![d] = FALSE]
        /\ Emit(d, "failed", report.job) \/ UNCHANGED out
  /\ UNCHANGED <<rowVars, service, dispVars, listVars, wireVars, alive, told, receiving, ticking,
                 pumping, jobs, work, sent, ran, lateSent, lateAccepts, drifts, toggles>>

-----------------------------------------------------------------------------
(* The worker process. *)

Report(kind, job, drifted) == [kind |-> kind, job |-> job, drifted |-> drifted]

\* A full or partial calibration reports the plan of the walk it begins.
Begin(d) ==
  LET job == Head(jobs[d]) IN
  /\ work[d] = NoJob /\ jobs[d] # <<>>
  /\ work' = [work EXCEPT ![d] = job]
  /\ jobs' = [jobs EXCEPT ![d] = Tail(@)]
  /\ ran' = ran \cup {job}
  /\ reports' = IF IsCheck(job) THEN reports
                ELSE [reports EXCEPT ![d] = Append(@, Report("plan", job, FALSE))]
  /\ UNCHANGED <<rowVars, service, dispVars, listVars, wireVars, alive, threadVars, out,
                 sent, cut, lateSent, lateAccepts, boundVars>>

\* Done, or failed; a fidelity check may have found drift.
Finish(d, outcome, drifted) ==
  /\ work[d] \in Jobs
  /\ drifted => IsCheck(work[d])
  /\ reports' = [reports EXCEPT ![d] = Append(@, Report(outcome, work[d], drifted))]
  /\ work' = [work EXCEPT ![d] = NoJob]
  /\ UNCHANGED <<rowVars, service, dispVars, listVars, wireVars, alive, threadVars, jobs,
                 out, histVars, boundVars>>

-----------------------------------------------------------------------------
(* Sessions. *)

Free(s) == dpc[s] = "off" /\ lpc[s] = "off" /\ ~open[s] /\ ~Leased(s)

\* connectedPeer: another tuner of the chip whose pipe is up and which is served.
Peer(d) == \E e \in Tuners \ {d} : ChipOf[e] = ChipOf[d] /\ attached[e] /\ lease[e] # NoSession

\* A tuner starts and connects; its worker may fail to set itself up, which is
\* reported as `init_error`.  A lease that is still held goes on as it is.
Start(d, s) ==
  /\ ~alive[d] /\ SessionTuner[s] = d /\ ~Peer(d)
  /\ alive' = [alive EXCEPT ![d] = TRUE]
  /\ \/ /\ lease[d] = NoSession /\ Free(s)
        /\ \A t \in Sessions : SessionTuner[t] = d => ~open[t]
        /\ lease' = [lease EXCEPT ![d] = s]
        /\ open' = [open EXCEPT ![s] = TRUE]
        /\ dpc' = [dpc EXCEPT ![s] = "top"]
        /\ lpc' = [lpc EXCEPT ![s] = "recv"]
     \/ lease[d] = s /\ UNCHANGED <<lease, open, dpc, lpc>>
  /\ \/ UNCHANGED <<work, reports, faults>>
     \/ /\ Fault
        /\ work' = [work EXCEPT ![d] = Dead]
        /\ reports' = [reports EXCEPT ![d] = <<Report("failed", NoJob, FALSE)>>]
  /\ UNCHANGED <<rowVars, service, ditem, said, litem, attached, broken, down, threadVars, jobs, out,
                 histVars, drifts, toggles>>

\* The pipe comes up, and the pipe hook marks the driver online.
Attach(d) ==
  /\ alive[d] /\ ~attached[d]
  /\ \E s \in Sessions : SessionTuner[s] = d /\ open[s]
  /\ attached' = [attached EXCEPT ![d] = TRUE]
  /\ UNCHANGED <<rowVars, service, dispVars, listVars, lease, broken, open, down, tunerVars,
                 histVars, boundVars>>

\* The tuner's process ends, with all it held; an operator may end one that the
\* server does not serve, or whose worker is gone.
TunerDies(d) ==
  /\ alive[d]
  /\ IF lease[d] = NoSession \/ work[d] = Dead THEN UNCHANGED faults ELSE Fault
  /\ alive' = [alive EXCEPT ![d] = FALSE]
  /\ told' = [told EXCEPT ![d] = "online"]
  /\ busy' = [busy EXCEPT ![d] = FALSE]
  /\ receiving' = [receiving EXCEPT ![d] = NoJob]
  /\ ticking' = [ticking EXCEPT ![d] = FALSE]
  /\ pumping' = [pumping EXCEPT ![d] = NoJob]
  /\ jobs' = [jobs EXCEPT ![d] = <<>>]
  /\ work' = [work EXCEPT ![d] = NoJob]
  /\ reports' = [reports EXCEPT ![d] = <<>>]
  /\ broken' = [broken EXCEPT ![d] = attached[d]]
  /\ \E k \in 0..Len(out[d]) : out' = [out EXCEPT ![d] = SubSeq(@, 1, k)]
  /\ UNCHANGED <<rowVars, service, dispVars, listVars, lease, attached, open, down, histVars,
                 drifts, toggles>>

\* The pipe hook of a lost pipe: the driver is offline and its lease released, a
\* newer process of the driver on the same lease notwithstanding.
Detach(d) ==
  /\ broken[d]
  /\ broken' = [broken EXCEPT ![d] = FALSE]
  /\ attached' = [attached EXCEPT ![d] = FALSE]
  /\ lease' = [lease EXCEPT ![d] = NoSession]
  /\ UNCHANGED <<rowVars, service, dispVars, listVars, open, down, tunerVars, histVars, boundVars>>

\* handleDriverToggle, or the delete hook.
Release(d) ==
  /\ lease[d] # NoSession
  /\ IF alive[d] THEN Fault ELSE UNCHANGED faults
  /\ lease' = [lease EXCEPT ![d] = NoSession]
  /\ UNCHANGED <<rowVars, service, dispVars, listVars, attached, broken, open, down, tunerVars,
                 histVars, drifts, toggles>>

\* The events of the tuners in D that are in a closed socket are lost, and those of
\* the tuners in handled, which the listener was at work on.
LoseEvents(D, handled) ==
  \E left \in [D -> UNION {Suffixes(out[d]) : d \in D}] :
    /\ \A d \in D : left[d] \in Suffixes(out[d])
    /\ out' = [d \in Tuners |-> IF d \notin D THEN out[d]
                                ELSE IF alive[d] THEN left[d] ELSE <<>>]
    /\ cut' = cut \cup handled \cup {d \in D : left[d] # out[d]}

CloseSockets(s) ==
  /\ open[s] /\ ~Leased(s)
  /\ open' = [open EXCEPT ![s] = FALSE]
  /\ attached' = [attached EXCEPT ![SessionTuner[s]] = FALSE]
  /\ broken' = [broken EXCEPT ![SessionTuner[s]] = FALSE]
  /\ down' = [down EXCEPT ![s] = <<>>]
  /\ lpc' = [lpc EXCEPT ![s] = IF @ = "recv" THEN "off" ELSE @]
  /\ LoseEvents({SessionTuner[s]}, {})
  /\ UNCHANGED <<rowVars, service, dispVars, litem, lease, alive, threadVars, workVars,
                 sent, ran, lateSent, lateAccepts, boundVars>>

\* The server stops and restarts.
ServerCrash ==
  /\ Fault
  /\ lease' = [d \in Tuners |-> NoSession]
  /\ attached' = [d \in Tuners |-> FALSE]
  /\ broken' = [d \in Tuners |-> FALSE]
  /\ dpc' = [s \in Sessions |-> "off"]
  /\ ditem' = [s \in Sessions |-> NoJob]
  /\ said' = [s \in Sessions |-> "nothing"]
  /\ lpc' = [s \in Sessions |-> "off"]
  /\ litem' = [s \in Sessions |-> NoJob]
  /\ open' = [s \in Sessions |-> FALSE]
  /\ down' = [s \in Sessions |-> <<>>]
  /\ LoseEvents(Tuners, {d \in Tuners : \E s \in Sessions : SessionTuner[s] = d /\ lpc[s] = "create"})
  /\ UNCHANGED <<rowVars, service, alive, threadVars, workVars, sent, ran, lateSent,
                 lateAccepts, drifts, toggles>>

-----------------------------------------------------------------------------
Next ==
  \/ \E r \in Requests : QueueRequest(r) \/ CloseRequest(r)
  \/ \E j \in SelfJobs, d \in Tuners : CloseSelfRow(j, d)
  \/ \E q \in Chips, state \in ServiceStates : SetService(q, state)
  \/ \E s \in Sessions, r \in Requests : Offer(s, r)
  \/ \E s \in Sessions :
       \/ AssertState(s) \/ LookForRunning(s) \/ NothingToOffer(s) \/ SendRequest(s)
       \/ SendFails(s) \/ MarkRunning(s) \/ DispatcherReturns(s)
       \/ ReceiveQueued(s) \/ CreateRow(s) \/ ReceiveResult(s) \/ ReceiveRefusal(s)
       \/ DropEvent(s) \/ Hear(s) \/ Consider(s) \/ CloseSockets(s)
  \/ \E d \in Tuners :
       \/ Accept(d) \/ Tick(d) \/ QueueDrift(d) \/ PumpPlan(d) \/ PumpResult(d)
       \/ PumpFollowUp(d) \/ QueueUnannounced(d) \/ ReportFails(d) \/ Begin(d) \/ Attach(d)
       \/ TunerDies(d) \/ Detach(d) \/ Release(d)
  \/ \E d \in Tuners, outcome \in Finished, drifted \in BOOLEAN : Finish(d, outcome, drifted)
  \/ \E d \in Tuners, s \in Sessions : Start(d, s)
  \/ ServerCrash

Spec == Init /\ [][Next]_vars

(***************************************************************************)
(* Fairness, for the liveness run.  Each goroutine, thread and worker goes *)
(* on as long as it has something to do.  Operators restart a tuner that   *)
(* is down, not served or without a worker and close the rows that are     *)
(* stuck, as docs/driver/operations.md tells them to: that is an           *)
(* assumption about people.  Requests, service changes, drift checks and   *)
(* faults are under no fairness.                                           *)
(***************************************************************************)
Dispatcher(s) ==
  \/ AssertState(s) \/ LookForRunning(s) \/ NothingToOffer(s) \/ \E r \in Requests : Offer(s, r)
  \/ SendRequest(s) \/ SendFails(s) \/ MarkRunning(s) \/ DispatcherReturns(s)
Listener(s) ==
  ReceiveQueued(s) \/ CreateRow(s) \/ ReceiveResult(s) \/ ReceiveRefusal(s)
Pump(d) == PumpPlan(d) \/ PumpResult(d) \/ PumpFollowUp(d)
Worker(d) ==
  Begin(d) \/ \E outcome \in Finished, drifted \in BOOLEAN : Finish(d, outcome, drifted)
OperatorRestarts(d) == TunerDies(d) /\ (lease[d] = NoSession \/ work[d] = Dead)

Fairness ==
  /\ \A r \in Requests : WF_vars(CloseRequest(r))
  /\ \A j \in SelfJobs, d \in Tuners : WF_vars(CloseSelfRow(j, d))
  /\ \A s \in Sessions :
       /\ WF_vars(Dispatcher(s)) /\ WF_vars(Listener(s)) /\ WF_vars(CloseSockets(s))
       /\ WF_vars(Hear(s) \/ Consider(s))
  /\ \A d \in Tuners :
       /\ WF_vars(Accept(d)) /\ WF_vars(QueueDrift(d)) /\ WF_vars(Pump(d)) /\ WF_vars(Worker(d))
       /\ WF_vars(\E s \in Sessions : Start(d, s))
       /\ WF_vars(Attach(d)) /\ WF_vars(Detach(d)) /\ WF_vars(OperatorRestarts(d))

FairSpec == Spec /\ Fairness

-----------------------------------------------------------------------------
(* Properties. *)

JobOrNone == Jobs \cup {NoJob}

RowsOK ==
  /\ request \in [Requests -> {"absent", "pending", "running"} \cup Finished]
  /\ selfRow \in [Tuners -> [SelfJobs -> {"absent", "running", "failed"}]]
  /\ service \in [Chips -> ServiceStates]

DispatchersOK ==
  /\ dpc \in [Sessions -> {"off", "top", "fetch", "found_free", "offered", "sent"}]
  /\ ditem \in [Sessions -> RequestJobs \cup {NoJob}]
  /\ \A s \in Sessions : dpc[s] \in {"offered", "sent"} <=> ditem[s] # NoJob
  /\ said \in [Sessions -> ServiceStates \cup {"nothing"}]

ListenersOK ==
  /\ lpc \in [Sessions -> {"off", "recv", "create"}]
  /\ litem \in [Sessions -> SelfJobs \cup {NoJob}]
  /\ \A s \in Sessions : lpc[s] = "create" <=> litem[s] # NoJob

WiresOK ==
  /\ lease \in [Tuners -> Sessions \cup {NoSession}]
  /\ attached \in [Tuners -> BOOLEAN] /\ broken \in [Tuners -> BOOLEAN]
  /\ open \in [Sessions -> BOOLEAN]
  /\ down \in [Sessions -> Seq([kind : ServiceStates \cup {"calibrate"},
                                job : RequestJobs \cup {NoJob}])]

TunersOK ==
  /\ alive \in [Tuners -> BOOLEAN] /\ told \in [Tuners -> ServiceStates]
  /\ busy \in [Tuners -> BOOLEAN] /\ ticking \in [Tuners -> BOOLEAN]
  /\ receiving \in [Tuners -> RequestJobs \cup {NoJob}]
  /\ pumping \in [Tuners -> SelfJobs \cup {NoJob}]
  /\ jobs \in [Tuners -> Seq(Jobs)]
  /\ work \in [Tuners -> Jobs \cup {NoJob, Dead}]
  /\ reports \in [Tuners -> Seq([kind : Finished \cup {"plan"}, job : JobOrNone,
                                 drifted : BOOLEAN])]
  /\ out \in [Tuners -> Seq([kind : Finished \cup {"queued", "refused"}, job : JobOrNone])]

HistoryOK ==
  /\ sent \in [Requests -> 0..MaxSends]
  /\ ran \subseteq Jobs /\ cut \subseteq Tuners /\ lateSent \subseteq Requests
  /\ lateAccepts \in [Tuners -> Nat]
  /\ drifts \in 0..MaxDrifts /\ toggles \in 0..MaxToggles /\ faults \in 0..MaxFaults

\* Type invariant.  A dispatcher holds a request, and a listener a row to create,
\* exactly while it works on it.
TypeOK ==
  /\ RowsOK /\ DispatchersOK /\ ListenersOK
  /\ WiresOK /\ TunersOK /\ HistoryOK

\* The requests of a tuner are first sent in the order they were queued, whatever
\* is lost, refused or stuck in between (FetchNextCalibration sorts by `created`).
OldestFirst ==
  \A p, r \in Requests :
    p < r /\ RequestTuner[p] = RequestTuner[r] /\ sent[r] > 0 => sent[p] > 0

\* A request that reads `done` was calibrated: of the dispatcher's unconditional
\* `running`, the operator's `failed`, refusals and results, only the report of a
\* run closes it so (handleCalibrationResult).
DoneRequestRan ==
  \A r \in Requests : request[r] = "done" => Asked(r) \in ran

\* The outcome of a calibration nobody dispatched never reaches the server before
\* the row that announces it, so long as no event was lost on the way: the timer
\* and the pump announce it before they queue it, and one socket keeps their order
\* (_emit_queued, "so the row exists before any progress reports against it").
Announced(job, d, k) ==
  \/ HasRow(job)
  \/ \E s \in Sessions : litem[s] = job
  \/ \E i \in 1..k : out[d][i] = [kind |-> "queued", job |-> job]
AnnouncedBeforeReported ==
  \A d \in Tuners \ cut : \A i \in DOMAIN out[d] :
    out[d][i].kind \in Finished /\ out[d][i].job \in SelfJobs
      => Announced(out[d][i].job, d, i - 1)

\* Without faults a tuner accepts at most one request that was sent after its chip
\* had been switched off: FetchNextCalibration still offers them, and it is the
\* QPUState event ahead of the next one on the socket that stops the rest.
SwitchOffLetsOneThrough ==
  faults = 0 => \A d \in Tuners : lateAccepts[d] <= 1

\* Every request that is queued is settled in the end, through crashes of both
\* sides, lost events and drift checks, given the operators docs/driver/operations.md
\* speaks of ("a request survives a server restart, is requeued on a send error, and
\* runs when a driver that was offline reconnects").
RequestIsSettled ==
  \A r \in Requests : request[r] = "pending" ~> request[r] \in Finished

\* docs/driver/operations.md: "The request is released when its report arrives".
\* The code does not keep it: setCalibrationStatus looks a row up by record id, and
\* the row of a drift check, or of the recalibration after it, has another.
ReportReleasesItsRow ==
  [][\A s \in Sessions : ReceiveResult(s) /\ Arrived(s).job \in SelfJobs
       => selfRow'[SessionTuner[s]][Arrived(s).job] # "running"]_vars

\* docs/driver/operations.md: "a request that never leaves `running` means the tuner
\* died mid-run".  The code does not keep it: without any fault a request is left
\* running that nobody works on, when its result is applied before the dispatcher's
\* `running`, or when it was refused.
RunningIsInProgress ==
  \A r \in Requests : request[r] = "running" /\ faults = 0 => InProgress(Asked(r), RequestTuner[r])

\* calibrate.py of a calibration that finds the tuner busy or its chip switched off:
\* it is "refused and said so".  The code does not keep it: the server rejects the
\* refusal for having no mode or status.
RefusalIsRecorded ==
  [][\A s \in Sessions : ReceiveRefusal(s)
       => request'[Arrived(s).job.of] # "running"]_vars

\* docs/driver/operations.md of a chip that is switched off: "No jobs, no
\* calibration."  The code does not keep it: FetchNextCalibration does not look.
SwitchedOffIsNotOffered ==
  [][\A s \in Sessions, r \in Requests : Offer(s, r) => service[Chip(s)] # "disabled"]_vars

\* scheduler.go: "one chip cannot be calibrated twice at once".  The code does not
\* keep it: two dispatchers may both find the chip free.
OneCalibrationPerChip ==
  \A d, e \in Tuners : d # e /\ ChipOf[d] = ChipOf[e] => work[d] \notin Jobs \/ work[e] \notin Jobs

\* nng_driver.go of the row of a drift check: "Without it the tab shows a QPU busy
\* for hours and no reason why".  The code does not keep it: the second drift check
\* finds the first one's row, closed, and leaves it so.
OwnRunHasARow ==
  \A d \in Tuners \ cut :
    /\ work[d] \in SelfJobs
    /\ \A i \in DOMAIN out[d] : out[d][i].kind # "queued"
    /\ \A s \in Sessions : SessionTuner[s] = d => litem[s] = NoJob
    => selfRow[d][work[d]] = "running"

\* nng_driver.go: "a new dispatcher asserts the current state once. That is also what
\* a restart does, which is why it cannot wake a QPU somebody switched off".  The
\* code does not keep it: a tuner that restarts before its lease is released is
\* served by the old dispatcher, which has said it all already.
SaidIsHeard ==
  \A s \in Sessions :
    /\ Leased(s) /\ open[s] /\ alive[SessionTuner[s]] /\ down[s] = <<>>
    /\ said[s] # "nothing"
    => told[SessionTuner[s]] = said[s]
=============================================================================
