--------------------------- MODULE ProcessDriver ---------------------------
(***************************************************************************)
(* A chip's process driver, beside whoever writes the device config.  One  *)
(* thread receives jobs and queues them; a worker process takes them one   *)
(* at a time, re-reads the device config when it has changed, and runs     *)
(* them; a pump thread emits the results.  Stopping puts a pill on both    *)
(* queues, waits for the worker two seconds and closes the socket.         *)
(*                                                                         *)
(* The worker also holds the couplers' parking current, which is not part  *)
(* of a schedule: `rack` is what this driver last had the rack deliver.    *)
(***************************************************************************)
EXTENDS SharedFile, Sequences

CONSTANTS Amps,        \* the parking current each version declares; 0 is none
          MaxJobs,     \* jobs the server sends
          MaxStarts,   \* times the driver process is started
          MaxFaults    \* emits and calls on instruments that raise

ASSUME AmpsAreNat == Amps \in [Versions -> Nat]
ASSUME DriverBoundsAreNat ==
    MaxJobs \in Nat /\ MaxStarts \in Nat /\ MaxFaults \in Nat

VARIABLES main,      \* the main thread
          jobs,      \* the job queue
          results,   \* the result queue
          worker,    \* the worker process: its place, its device, its watcher
          pump,      \* the result pump
          rack,      \* the current the coupler is held at
          taken,     \* the jobs this process has received, in order
          answered,  \* the jobs it has emitted a result for, in order
          spent      \* jobs, starts and faults so far

driverVars == <<main, jobs, results, worker, pump, rack, taken, answered, spent>>
vars == <<sharedVars, driverVars>>

Pill == "pill"
InitError == 0
Item(kind, job) == [kind |-> kind, job |-> job]
Stop == Item(Pill, 0)

Idle(pc) == [pc |-> pc, mem |-> CHOOSE v \in Versions : TRUE, seen |-> Unread,
             read |-> Unread, source |-> "recorder"]

Init ==
    /\ SharedInit
    /\ main = "off" /\ pump = "off"
    /\ jobs = <<>> /\ results = <<>>
    /\ worker = Idle("off")
    /\ rack = 0
    /\ taken = <<>> /\ answered = <<>>
    /\ spent = [jobs |-> 0, starts |-> 0, faults |-> 0]

Use(what, max) ==
    /\ spent[what] < max
    /\ spent' = [spent EXCEPT ![what] = @ + 1]

-----------------------------------------------------------------------------
(* The main thread.                                                        *)

\* Connected and dialled: fresh queues, a worker and a pump.
StartDriver ==
    /\ main = "off"
    /\ Use("starts", MaxStarts)
    /\ main' = "serving" /\ pump' = "on"
    /\ jobs' = <<>> /\ results' = <<>>
    /\ worker' = Idle("boot")
    /\ taken' = <<>> /\ answered' = <<>>
    /\ UNCHANGED <<sharedVars, rack>>

Receive ==
    /\ main = "serving"
    /\ Use("jobs", MaxJobs)
    /\ LET job == spent.jobs + 1
       IN  /\ jobs' = Append(jobs, Item("job", job))
           /\ taken' = Append(taken, job)
    /\ UNCHANGED <<sharedVars, main, results, worker, pump, rack, answered>>

\* Shutdown: a pill for the worker behind the jobs, and one for the pump now.
PutPills ==
    /\ main = "serving"
    /\ main' = "joining"
    /\ jobs' = Append(jobs, Stop)
    /\ results' = Append(results, Stop)
    /\ UNCHANGED <<sharedVars, worker, pump, rack, taken, answered, spent>>

\* The worker has ended, or is terminated where it is.
JoinWorker ==
    /\ main = "joining"
    /\ main' = "closing"
    /\ worker' = Idle("exited")
    /\ UNCHANGED <<sharedVars, jobs, results, pump, rack, taken, answered, spent>>

\* The socket is closed and the process ends, the pump with it.
CloseSocket ==
    /\ main = "closing"
    /\ main' = "off" /\ pump' = "off"
    /\ worker' = Idle("off")
    /\ jobs' = <<>> /\ results' = <<>>
    /\ UNCHANGED <<sharedVars, rack, taken, answered, spent>>

-----------------------------------------------------------------------------
(* The worker process.                                                     *)

Smooth == UNCHANGED spent

\* An emit, or a call on an instrument, that raises.
Fault == Use("faults", MaxFaults)

WorkerStep(held) ==
    /\ rack' = held
    /\ UNCHANGED <<sharedVars, main, pump, taken, answered>>

\* The watcher is armed before the device is built.
WorkerWatches ==
    /\ worker.pc = "boot"
    /\ worker' = [worker EXCEPT !.pc = "load", !.seen = Signature(file)]
    /\ WorkerStep(rack) /\ Smooth
    /\ UNCHANGED <<jobs, results>>

\* A file taken for a device whatever it says.
LoadAnything ==
    /\ worker.pc = "load"
    /\ worker' = [worker EXCEPT !.pc = "park", !.mem = file.text, !.read = Signature(file)]
    /\ WorkerStep(rack) /\ Smooth
    /\ UNCHANGED <<jobs, results>>

\* The device config is read into a device and applied.
ReadInto(pc, versions) ==
    \E v \in versions :
        worker' = [worker EXCEPT !.pc = pc, !.mem = v, !.read = Signature(file)]

WorkerLoads ==
    /\ worker.pc = "load"
    /\ ReadInto("park", Readings(file.text))
    /\ WorkerStep(rack) /\ Smooth
    /\ UNCHANGED <<jobs, results>>

\* An executor that cannot be built is reported and the worker ends; the driver
\* keeps receiving.
ExecutorFails ==
    /\ worker.pc = "load"
    /\ IF Loads(file.text) THEN Fault ELSE Smooth
    /\ worker' = Idle("exited")
    /\ results' = Append(results, Item("init", InitError))
    /\ WorkerStep(rack)
    /\ UNCHANGED jobs

\* A current of zero is not applied.
Parked(version, source) ==
    IF source = "rack" /\ Amps[version] > 0 THEN Amps[version] ELSE rack

\* The rack is opened only when some edge declares a current by then.
Source(version) == IF Amps[version] > 0 THEN "rack" ELSE "recorder"

ParkCouplers ==
    /\ worker.pc = "park"
    /\ worker' = [worker EXCEPT !.pc = "idle", !.source = Source(worker.mem)]
    /\ WorkerStep(Parked(worker.mem, Source(worker.mem))) /\ Smooth
    /\ UNCHANGED <<jobs, results>>

\* One that cannot be opened or set is logged, and nothing is parked from then on.
ParkingFails ==
    /\ worker.pc = "park" /\ Amps[worker.mem] > 0
    /\ worker' = [worker EXCEPT !.pc = "idle"]
    /\ WorkerStep(rack) /\ Fault
    /\ UNCHANGED <<jobs, results>>

\* The next job, at the head of the queue until it is done.
HasJob == worker.pc = "idle" /\ jobs # <<>> /\ Head(jobs).kind = "job"

TakeJob ==
    /\ HasJob /\ ~Changed(worker.seen)
    /\ worker' = [worker EXCEPT !.pc = "run"]
    /\ WorkerStep(rack) /\ Smooth
    /\ UNCHANGED <<jobs, results>>

\* A config that changed is applied first and the couplers are parked again, if the
\* rack will have it.
Reload ==
    /\ HasJob /\ Changed(worker.seen)
    /\ ReadInto("mark", Readings(file.text))
    /\ \/ WorkerStep(Parked(worker'.mem, worker.source)) /\ Smooth
       \/ worker.source = "rack" /\ WorkerStep(rack) /\ Fault
    /\ UNCHANGED <<jobs, results>>

\* One that raises, before it is applied or half-way, leaves the couplers as they
\* were and the device as it was or part of the way.
ReloadFails ==
    /\ HasJob /\ Changed(worker.seen) /\ ~Loads(file.text)
    /\ ReadInto("mark", {worker.mem} \cup Readings(file.text))
    /\ WorkerStep(rack) /\ Smooth
    /\ UNCHANGED <<jobs, results>>

\* Marked as read whether it loaded or not.
MarkRead ==
    /\ worker.pc = "mark"
    /\ worker' = [worker EXCEPT !.pc = "run", !.seen = Signature(file)]
    /\ WorkerStep(rack) /\ Smooth
    /\ UNCHANGED <<jobs, results>>

Answer(items) ==
    /\ worker.pc = "run"
    /\ jobs' = Tail(jobs)
    /\ results' = results \o items
    /\ worker' = [worker EXCEPT !.pc = "idle"]
    /\ WorkerStep(rack) /\ Smooth

Result == Item("job", Head(jobs).job)

\* A job that raises and leaves no result, and one that raises after its result.
RunSilently == worker.pc = "run" /\ (Answer(<<>>) \/ Answer(<<Result>>))
RunTwice == worker.pc = "run" /\ (Answer(<<Result>>) \/ Answer(<<Result, Result>>))

\* Whatever the executor does, the job has one result: its counts or an error.
RunJob == worker.pc = "run" /\ Answer(<<Result>>)

TakePill ==
    /\ worker.pc = "idle" /\ jobs # <<>> /\ Head(jobs).kind = Pill
    /\ worker' = Idle("exited")
    /\ jobs' = Tail(jobs)
    /\ WorkerStep(rack) /\ Smooth
    /\ UNCHANGED results

WorkerNext ==
    \/ WorkerWatches \/ WorkerLoads \/ ExecutorFails \/ ParkCouplers \/ ParkingFails
    \/ TakeJob \/ Reload \/ ReloadFails \/ MarkRead \/ RunJob \/ TakePill

-----------------------------------------------------------------------------
(* The result pump.                                                        *)

\* The result of a worker that did not start names no job the server knows.
PumpResult ==
    /\ pump = "on" /\ results # <<>>
    /\ results' = Tail(results)
    /\ LET item == Head(results)
       IN  /\ pump' = IF item.kind = Pill THEN "ended" ELSE "on"
           /\ answered' = IF item.kind = "job" THEN Append(answered, item.job)
                          ELSE answered
    /\ UNCHANGED <<sharedVars, main, jobs, worker, rack, taken, spent>>

\* Nothing catches an emit that raises: the thread ends there.
EmitRaises ==
    /\ pump = "on" /\ results # <<>> /\ Head(results).kind # Pill
    /\ Fault
    /\ results' = Tail(results)
    /\ pump' = "ended"
    /\ UNCHANGED <<sharedVars, main, jobs, worker, rack, taken, answered>>

PumpNext == PumpResult \/ EmitRaises

-----------------------------------------------------------------------------
MainNext == StartDriver \/ Receive \/ PutPills \/ JoinWorker \/ CloseSocket

DriverNext == MainNext \/ WorkerNext \/ PumpNext

Next == \/ DriverNext
        \/ SharedNext /\ UNCHANGED driverVars

Spec == Init /\ [][Next]_vars

\* The worker and the pump are a process and a thread that run while there is
\* something for them; nothing makes a server send or an operator stop.
FairSpec == Spec /\ WF_vars(WorkerNext) /\ WF_vars(PumpNext)

-----------------------------------------------------------------------------
(* Properties.                                                             *)

Numbers == 0 .. MaxJobs
Items == [kind : {"job", "init", Pill}, job : Numbers]
Workers == [pc : {"off", "boot", "load", "park", "idle", "mark", "run", "exited"},
            mem : Versions, seen : Signatures, read : Signatures,
            source : {"recorder", "rack"}]
Counts == [jobs : Nat, starts : Nat, faults : Nat]

TypeOK ==
    /\ SharedTypeOK
    /\ main \in {"off", "serving", "joining", "closing"}
    /\ pump \in {"off", "on", "ended"}
    /\ jobs \in Seq(Items) /\ results \in Seq(Items)
    /\ worker \in Workers
    /\ rack \in Nat
    /\ taken \in Seq(Numbers) /\ answered \in Seq(Numbers)
    /\ spent \in Counts

\* Results leave in the order the jobs came, one for each and none left out: what
\* is answered is a beginning of what was taken, whatever was reloaded, raised or
\* stopped in between (job_worker, _execute_job, _pump_results).
AnswersComeInOrder ==
    /\ Len(answered) <= Len(taken)
    /\ \A i \in DOMAIN answered : answered[i] = taken[i]

\* A signature vouches for one content: when the file bears the signature of the
\* version the worker read, the device holds what the file says, through saves,
\* edits and a restore that carries an old time (ConfigFile).
SignatureVouches ==
    worker.pc \in {"park", "idle", "mark", "run"} /\ worker.read = Signature(file) /\ Loads(file.text)
    => worker.mem = file.text

\* A received job is answered, or the driver stops, or its worker never came up, or
\* its pump ended.
JobIsAnswered ==
    \A job \in 1 .. MaxJobs :
        (\E i \in DOMAIN taken : taken[i] = job) ~>
            \/ \E i \in DOMAIN answered : answered[i] = job
            \/ main # "serving" \/ worker.pc = "exited" \/ pump = "ended"

\* The config is re-read before each job when it has changed
\* (docs/driver/operations.md).  It does not hold: the mark is of the file as it is
\* after the reading, and a reading that failed is marked too.
RunningJobHasTheFilesDevice ==
    [][RunJob /\ ~Changed(worker.seen) /\ Loads(file.text)
         => worker.mem = file.text]_vars

\* A calibration reaches a running driver by the file appearing where it reads
\* (docs/driver/operations.md), and the couplers are held at the reloaded currents
\* (_reapply_coupler_bias); a declared current of zero asks for nothing.  It does not
\* hold when the driver started on a chip that declared none, or when the rack
\* refused one.
CouplerIsParkedAsDeclared ==
    worker.pc = "run" /\ worker.mem = file.text /\ Amps[worker.mem] > 0
    => rack = Amps[worker.mem]

\* A driver that is serving answers.  It does not hold: a worker that never came up
\* and a pump that ended leave the driver receiving.
ServingDriverAnswers ==
    main = "serving" => worker.pc # "exited" /\ pump = "on"

=============================================================================
