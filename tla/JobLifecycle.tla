---------------------------- MODULE JobLifecycle ----------------------------
(***************************************************************************)
(* The life of a quantum job: submission and cancellation over HTTP, the   *)
(* dispatcher and listener goroutines of a connected driver, the driver    *)
(* process that runs the job, and the recovery engine that resets jobs     *)
(* which have been running for too long.                                   *)
(*                                                                         *)
(* Every database access of the server is a step of its own: no handler    *)
(* holds a transaction over its read and its write.  FindAndUpdateOne      *)
(* (db/queries.go) reads a record, changes it in memory and saves the      *)
(* columns that differ from what was read.  Where the value written, or    *)
(* the decision to write, depends on the read, the two are two actions     *)
(* here.  Where it does not (MarkRunning, SendReturnsError), a write that  *)
(* is skipped because the column already held the value is the same as a   *)
(* write at the time of the read, and one action stands for both.          *)
(***************************************************************************)
EXTENDS Naturals, Sequences

CONSTANTS
  Jobs,           \* job records; a smaller id is an earlier `created`
  QPUs,
  Users,
  Drivers,        \* registered drivers, of any operation
  Processors,     \* those whose operation is `process`: they run jobs
  Sessions,       \* leases: a dispatcher, a listener and their two sockets
  Target,         \* quantum_jobs.qpu_target
  Owner,          \* quantum_jobs.user_id
  DriverQPU,      \* drivers.qpu
  SessionDriver,  \* the driver a session serves
  NoSession,
  NoJob,
  NoMessage,
  MaxSends,       \* bound: times one job is put on a socket
  MaxFaults       \* bound: faults of the environment in a behaviour

ASSUME JobsAssumption ==
  /\ Jobs \subseteq Nat
  /\ Processors \subseteq Drivers
  /\ Target \in [Jobs -> QPUs]
  /\ Owner \in [Jobs -> Users]
  /\ DriverQPU \in [Drivers -> QPUs]
  /\ SessionDriver \in [Sessions -> Drivers]
  /\ NoSession \notin Sessions
  /\ NoJob \notin Jobs
  /\ NoMessage \notin [job : Jobs, outcome : {"completed", "failed"}]
  /\ MaxSends \in Nat
  /\ MaxFaults \in Nat

Outcomes == {"completed", "failed"}
Statuses == {"absent", "pending", "running", "cancelled"} \cup Outcomes
Message  == [job : Jobs, outcome : Outcomes]

\* What is left of a channel cut at its far end, or at its near end.
Prefixes(q) == {SubSeq(q, 1, k) : k \in 0..Len(q)}
Suffixes(q) == {SubSeq(q, k, Len(q)) : k \in 1..(Len(q) + 1)}

VARIABLES
  \* the quantum_jobs collection
  status,      \* "absent" before the job is submitted
  result,      \* what the results column holds, "none" when it is empty
  \* requests and background work in the middle of a read-modify-write
  cancelling,  \* jobs a cancel request has read and not yet written
  recovering,  \* the recovery engine's list of stale jobs not yet written
  \* the server's goroutines
  serving,     \* the QPU is enabled, not in maintenance, not calibrating
  lease,       \* activeDrivers: the session that serves a driver
  dpc, djob,   \* dispatcher: where it is in its loop, and the job it holds
  lpc, lmsg,   \* listener: likewise, with the result it applies
  lsnap,       \* the status the listener read before its write
  open,        \* the session's sockets are open
  down,        \* JobDispatch events sent and not yet received
  \* the driver processes
  alive,
  parts,       \* "up", or which of worker and pump ended under the process
  queue, outbox,
  \* history, read by the properties and by the bounds
  sends, execs,
  heard, bills, stores,  \* results listeners took, charged for and stored
  ranOn,       \* the drivers that executed a job
  everCancelled,
  quiet,       \* jobs cancelled before any dispatcher had picked them
  lateSends,   \* jobs a session sent since its QPU stopped serving
  faults

dbVars      == <<status, result>>
handlerVars == <<cancelling, recovering>>
dispVars    == <<dpc, djob>>
listVars    == <<lpc, lmsg, lsnap>>
wireVars    == <<lease, open, down>>
driverVars  == <<alive, parts, queue, outbox>>
paidVars    == <<heard, bills, stores>>
histVars    == <<sends, execs, paidVars, ranOn, everCancelled, quiet, lateSends>>
vars == <<dbVars, handlerVars, serving, dispVars, listVars, wireVars,
          driverVars, histVars, faults>>

Q(s) == DriverQPU[SessionDriver[s]]
Leased(s) == lease[SessionDriver[s]] = s
Connected(d) == \E s \in Sessions : SessionDriver[s] = d /\ open[s]
Fault == faults < MaxFaults /\ faults' = faults + 1

Init ==
  /\ status = [j \in Jobs |-> "absent"]
  /\ result = [j \in Jobs |-> "none"]
  /\ cancelling = {} /\ recovering = {}
  /\ serving = [q \in QPUs |-> TRUE]
  /\ lease = [d \in Drivers |-> NoSession]
  /\ dpc = [s \in Sessions |-> "off"]
  /\ djob = [s \in Sessions |-> NoJob]
  /\ lpc = [s \in Sessions |-> "off"]
  /\ lmsg = [s \in Sessions |-> NoMessage]
  /\ lsnap = [s \in Sessions |-> "absent"]
  /\ open = [s \in Sessions |-> FALSE]
  /\ down = [s \in Sessions |-> <<>>]
  /\ alive = [d \in Drivers |-> FALSE]
  /\ parts = [d \in Drivers |-> "up"]
  /\ queue = [d \in Drivers |-> <<>>]
  /\ outbox = [d \in Drivers |-> <<>>]
  /\ sends = [j \in Jobs |-> 0]
  /\ execs = [j \in Jobs |-> 0]
  /\ heard = [j \in Jobs |-> 0]
  /\ bills = [j \in Jobs |-> 0]
  /\ stores = [j \in Jobs |-> 0]
  /\ ranOn = [j \in Jobs |-> {}]
  /\ everCancelled = {} /\ quiet = {}
  /\ lateSends = [s \in Sessions |-> 0]
  /\ faults = 0

-----------------------------------------------------------------------------
(* HTTP requests. *)

\* handleJobSubmit saves a pending job.  Jobs are named in submission order.
Submit(j) ==
  /\ status[j] = "absent"
  /\ \A i \in Jobs : i < j => status[i] # "absent"
  /\ status' = [status EXCEPT ![j] = "pending"]
  /\ UNCHANGED <<result, handlerVars, serving, dispVars, listVars, wireVars,
                 driverVars, histVars, faults>>

\* handleJobCancel, the filtered read: only a pending or running job is found.
CancelRead(j) ==
  /\ status[j] \in {"pending", "running"}
  /\ j \notin cancelling
  /\ cancelling' = cancelling \cup {j}
  /\ UNCHANGED <<dbVars, recovering, serving, dispVars, listVars, wireVars,
                 driverVars, histVars, faults>>

Held(j) == \E s \in Sessions : dpc[s] \in {"fetched", "sent"} /\ djob[s] = j

\* handleJobCancel, the save: unconditional, whatever happened since the read.
CancelWrite(j) ==
  /\ j \in cancelling
  /\ cancelling' = cancelling \ {j}
  /\ status' = [status EXCEPT ![j] = "cancelled"]
  /\ everCancelled' = everCancelled \cup {j}
  /\ quiet' = IF sends[j] = 0 /\ ~Held(j) THEN quiet \cup {j} ELSE quiet
  /\ UNCHANGED <<result, recovering, serving, dispVars, listVars, wireVars,
                 driverVars, sends, execs, paidVars, ranOn, lateSends, faults>>

\* An operator, or a calibration, takes the QPU out of service and back.
StopServing(q) ==
  /\ serving[q] /\ Fault
  /\ serving' = [serving EXCEPT ![q] = FALSE]
  /\ UNCHANGED <<dbVars, handlerVars, dispVars, listVars, wireVars,
                 driverVars, histVars>>

ResumeServing(q) ==
  /\ ~serving[q]
  /\ serving' = [serving EXCEPT ![q] = TRUE]
  /\ lateSends' = [s \in Sessions |-> IF Q(s) = q THEN 0 ELSE lateSends[s]]
  /\ UNCHANGED <<dbVars, handlerVars, dispVars, listVars, wireVars,
                 driverVars, sends, execs, paidVars, ranOn, everCancelled, quiet, faults>>

-----------------------------------------------------------------------------
(* The recovery engine. *)

InFlight(j) ==
  \/ Held(j)
  \/ \E s \in Sessions : \/ \E i \in DOMAIN down[s] : down[s][i] = j
                         \/ lpc[s] \in {"billed", "loaded"} /\ lmsg[s].job = j
  \/ \E d \in Drivers : \/ \E i \in DOMAIN queue[d] : queue[d][i] = j
                        \/ \E i \in DOMAIN outbox[d] : outbox[d][i].job = j

\* The filter of the engine's query.  Mutants: it takes every unfinished job, or,
\* with the comparison against the cutoff reversed, none that is old enough.
UnfinishedJobs == {j \in Jobs : status[j] \notin Outcomes \cup {"absent"}}
NoStaleJobs == {}
StaleJobs == {j \in Jobs : status[j] = "running"}

\* A process driver that receives jobs and answers none.
Mute(d) == alive[d] /\ parts[d] # "up"

\* One tick reads the jobs that have been `running` for longer than JobTimeout.
\* Time is not modelled: any running job may be that old.  Finding one that is
\* still on its way, or while a mute driver would only swallow it again, is
\* counted as a fault, so that it happens MaxFaults times.
RecoveryScan(S) ==
  /\ recovering = {}
  /\ S \subseteq StaleJobs /\ S # {}
  /\ recovering' = S
  /\ IF (\E j \in S : InFlight(j)) \/ (\E d \in Drivers : Mute(d))
     THEN Fault ELSE UNCHANGED faults
  /\ UNCHANGED <<dbVars, cancelling, serving, dispVars, listVars, wireVars,
                 driverVars, histVars>>

\* The save of one record of that list: it was read `running`, so `pending` is
\* a changed column and is written, whatever the job is by now.
RecoveryWrite(j) ==
  /\ j \in recovering
  /\ recovering' = recovering \ {j}
  /\ status' = [status EXCEPT ![j] = "pending"]
  /\ UNCHANGED <<result, cancelling, serving, dispVars, listVars, wireVars,
                 driverVars, histVars, faults>>

-----------------------------------------------------------------------------
(* The dispatcher goroutine of a session. *)

\* Mutant: the queue query forgets the QPU a job is for.
WaitingAnywhere(q) == {j \in Jobs : status[j] = "pending"}
Waiting(q) == {j \in Jobs : status[j] = "pending" /\ Target[j] = q}

\* The oldest job of each owner among jobs.
Oldest(jobs) == {j \in jobs : \A i \in jobs : Owner[i] = Owner[j] => j <= i}

\* What FetchNextJob(q) may return: nothing while q is not serving, otherwise
\* the oldest pending job of the user who booked the slot, or of anybody.  Who
\* booked it, and whether the booker is idle, is left open.
\* Mutants: the check of UnavailableReason is dropped; the query is not ordered.
NextJobsOfAny(q) == Oldest(Waiting(q))
NextJobsUnordered(q) == IF serving[q] THEN Waiting(q) ELSE {}
NextJobs(q) == IF serving[q] THEN Oldest(Waiting(q)) ELSE {}

\* The check of the context at the top of the loop and the query are one step:
\* a lease released between the two is, to every other step, one released after
\* the query, because nothing another goroutine does before the sockets have
\* closed depends on it, and what is fetched then cannot be sent.
Fetch(s, j) ==
  /\ dpc[s] = "idle" /\ Leased(s)
  /\ j \in NextJobs(Q(s))
  /\ sends[j] < MaxSends
  /\ dpc' = [dpc EXCEPT ![s] = "fetched"]
  /\ djob' = [djob EXCEPT ![s] = j]
  /\ UNCHANGED <<dbVars, handlerVars, serving, listVars, wireVars,
                 driverVars, histVars, faults>>

\* sock.Send succeeds when the socket has taken the message: no driver need be
\* listening at the other end.
Send(s) ==
  /\ dpc[s] = "fetched" /\ open[s]
  /\ sends[djob[s]] < MaxSends
  /\ dpc' = [dpc EXCEPT ![s] = "sent"]
  /\ down' = [down EXCEPT ![s] = Append(@, djob[s])]
  /\ sends' = [sends EXCEPT ![djob[s]] = @ + 1]
  /\ lateSends' = IF serving[Q(s)] THEN lateSends
                  ELSE [lateSends EXCEPT ![s] = @ + 1]
  /\ UNCHANGED <<dbVars, handlerVars, serving, djob, listVars, lease, open,
                 driverVars, execs, paidVars, ranOn, everCancelled, quiet, faults>>

\* A failed Send requeues the job: the status is written without a look at it.
SendReturnsError(s) ==
  /\ dpc[s] = "fetched" /\ Leased(s) /\ Fault
  /\ status' = [status EXCEPT ![djob[s]] = "pending"]
  /\ dpc' = [dpc EXCEPT ![s] = "idle"]
  /\ djob' = [djob EXCEPT ![s] = NoJob]
  /\ UNCHANGED <<result, handlerVars, serving, listVars, wireVars,
                 driverVars, histVars>>

\* Mutant: the dispatcher goes on with the job it had in hand.
MarkRunningKeepsJob(s) ==
  /\ dpc[s] = "sent"
  /\ status' = [status EXCEPT ![djob[s]] = "running"]
  /\ dpc' = [dpc EXCEPT ![s] = "idle"]
  /\ UNCHANGED <<result, handlerVars, serving, djob, listVars, wireVars,
                 driverVars, histVars, faults>>

\* After the send, the job is marked running, whatever it is by now and whether
\* or not the session still holds the lease.
MarkRunning(s) ==
  /\ dpc[s] = "sent"
  /\ status' = [status EXCEPT ![djob[s]] = "running"]
  /\ dpc' = [dpc EXCEPT ![s] = "idle"]
  /\ djob' = [djob EXCEPT ![s] = NoJob]
  /\ UNCHANGED <<result, handlerVars, serving, listVars, wireVars,
                 driverVars, histVars, faults>>

\* The goroutine returns: at the top of its loop once the context is cancelled,
\* or out of a Send that failed on the closed socket.
DispatcherReturns(s) ==
  /\ ~Leased(s)
  /\ dpc[s] = "idle" \/ (dpc[s] = "fetched" /\ ~open[s])
  /\ dpc' = [dpc EXCEPT ![s] = "off"]
  /\ djob' = [djob EXCEPT ![s] = NoJob]
  /\ UNCHANGED <<dbVars, handlerVars, serving, listVars, wireVars,
                 driverVars, histVars, faults>>

-----------------------------------------------------------------------------
(* The listener goroutine of a session: applyJobResult. *)

\* What Recv leaves on the socket.  Mutant: a message is read and not removed.
AfterPeek(d) == outbox[d]
AfterRecv(d) == Tail(outbox[d])

\* Recv, the look-up of the job and the deduction of the owner's QPU-seconds.
\* A deduction that is refused, that fails, or that there is nobody to make from
\* is at most logged, and the result is applied all the same: counted as a fault,
\* so that it happens MaxFaults times.
ReceiveResult(s) ==
  LET d == SessionDriver[s]
      j == Head(outbox[d]).job IN
  /\ lpc[s] = "recv" /\ open[s] /\ outbox[d] # <<>>
  /\ lpc' = [lpc EXCEPT ![s] = "billed"]
  /\ lmsg' = [lmsg EXCEPT ![s] = Head(outbox[d])]
  /\ outbox' = [outbox EXCEPT ![d] = AfterRecv(d)]
  /\ heard' = [heard EXCEPT ![j] = @ + 1]
  /\ \/ bills' = [bills EXCEPT ![j] = @ + 1] /\ UNCHANGED faults
     \/ UNCHANGED bills /\ Fault
  /\ UNCHANGED <<dbVars, handlerVars, serving, dispVars, lsnap, wireVars,
                 alive, parts, queue, sends, execs, stores, ranOn, everCancelled,
                 quiet, lateSends>>

\* The rate limiter drops an event without a trace in the database, or the
\* look-up of the job fails.
DropResult(s) ==
  LET d == SessionDriver[s] IN
  /\ lpc[s] = "recv" /\ open[s] /\ outbox[d] # <<>> /\ Fault
  /\ outbox' = [outbox EXCEPT ![d] = AfterRecv(d)]
  /\ UNCHANGED <<dbVars, handlerVars, serving, dispVars, listVars, wireVars,
                 alive, parts, queue, histVars>>

\* FindAndUpdateOne reads the job a second time ...
LoadJob(s) ==
  /\ lpc[s] = "billed"
  /\ lpc' = [lpc EXCEPT ![s] = "loaded"]
  /\ lsnap' = [lsnap EXCEPT ![s] = status[lmsg[s].job]]
  /\ UNCHANGED <<dbVars, handlerVars, serving, dispVars, lmsg, wireVars,
                 driverVars, histVars, faults>>

\* ... and saves the results, with the status where it differs from that read.
StoreResult(s) ==
  LET j == lmsg[s].job IN
  /\ lpc[s] = "loaded"
  /\ result' = [result EXCEPT ![j] = lmsg[s].outcome]
  /\ status' = IF lsnap[s] = lmsg[s].outcome THEN status
               ELSE [status EXCEPT ![j] = lmsg[s].outcome]
  /\ lpc' = [lpc EXCEPT ![s] = IF open[s] THEN "recv" ELSE "off"]
  /\ lmsg' = [lmsg EXCEPT ![s] = NoMessage]
  /\ lsnap' = [lsnap EXCEPT ![s] = "absent"]
  /\ stores' = [stores EXCEPT ![j] = @ + 1]
  /\ UNCHANGED <<handlerVars, serving, dispVars, wireVars, driverVars, sends,
                 execs, heard, bills, ranOn, everCancelled, quiet, lateSends, faults>>

\* Or that read or that save fails: the result is gone, whatever was charged.
StoreFails(s) ==
  /\ lpc[s] = "loaded" /\ Fault
  /\ lpc' = [lpc EXCEPT ![s] = IF open[s] THEN "recv" ELSE "off"]
  /\ lmsg' = [lmsg EXCEPT ![s] = NoMessage]
  /\ lsnap' = [lsnap EXCEPT ![s] = "absent"]
  /\ UNCHANGED <<dbVars, handlerVars, serving, dispVars, wireVars, driverVars,
                 histVars>>

-----------------------------------------------------------------------------
(* The driver process. *)

Free(s) == dpc[s] = "off" /\ lpc[s] = "off" /\ ~open[s] /\ ~Leased(s)

\* A driver starts and connects.  StartDriverDistribution starts a session
\* unless the driver's last lease is still held, in which case that one goes on.
\* The worker of a process driver ends at once if its executor cannot be built:
\* the main thread goes on receiving, and nobody else is told.
DriverStart(d, s) ==
  /\ ~alive[d] /\ SessionDriver[s] = d
  /\ alive' = [alive EXCEPT ![d] = TRUE]
  /\ \/ parts' = [parts EXCEPT ![d] = "up"] /\ UNCHANGED faults
     \/ parts' = [parts EXCEPT ![d] = "noWorker"] /\ d \in Processors /\ Fault
  /\ \/ /\ lease[d] = NoSession /\ Free(s)
        /\ \A t \in Sessions : SessionDriver[t] = d => ~open[t]
        /\ lease' = [lease EXCEPT ![d] = s]
        /\ open' = [open EXCEPT ![s] = TRUE]
        /\ dpc' = [dpc EXCEPT ![s] = "idle"]
        /\ lpc' = [lpc EXCEPT ![s] = "recv"]
     \/ lease[d] = s /\ UNCHANGED <<lease, open, dpc, lpc>>
  /\ UNCHANGED <<dbVars, handlerVars, serving, djob, lmsg, lsnap, down, queue,
                 outbox, histVars>>

\* The receive loop takes an event off the socket.  A process driver queues the
\* job for its worker; the others do not handle JobDispatch and drop it.
DriverReceive(s) ==
  LET d == SessionDriver[s] IN
  /\ open[s] /\ alive[d] /\ down[s] # <<>>
  /\ down' = [down EXCEPT ![s] = Tail(@)]
  /\ queue' = IF d \in Processors
              THEN [queue EXCEPT ![d] = Append(@, Head(down[s]))]
              ELSE queue
  /\ UNCHANGED <<dbVars, handlerVars, serving, dispVars, listVars, lease, open,
                 alive, parts, outbox, histVars, faults>>

\* The worker runs one job, and the pump, if there still is one, emits its
\* result or its error, or ends because the emit raises.
Execute(d, outcome) ==
  LET j == Head(queue[d]) IN
  /\ alive[d] /\ parts[d] # "noWorker" /\ queue[d] # <<>>
  /\ queue' = [queue EXCEPT ![d] = Tail(@)]
  /\ \/ /\ parts[d] = "up"
        /\ outbox' = [outbox EXCEPT ![d] = Append(@, [job |-> j, outcome |-> outcome])]
        /\ UNCHANGED <<parts, faults>>
     \/ /\ parts[d] = "up" /\ Fault
        /\ parts' = [parts EXCEPT ![d] = "noPump"]
        /\ UNCHANGED outbox
     \/ parts[d] = "noPump" /\ UNCHANGED <<parts, outbox, faults>>
  /\ execs' = [execs EXCEPT ![j] = @ + 1]
  /\ ranOn' = [ranOn EXCEPT ![j] = @ \cup {d}]
  /\ UNCHANGED <<dbVars, handlerVars, serving, dispVars, listVars, wireVars,
                 alive, sends, paidVars, everCancelled, quiet, lateSends>>

\* The process dies, or is stopped: its queue is lost, and so are the results
\* that have not reached the server's socket.
DriverCrash(d) ==
  /\ alive[d]
  /\ IF lease[d] = NoSession \/ Mute(d) THEN UNCHANGED faults ELSE Fault
  /\ alive' = [alive EXCEPT ![d] = FALSE]
  /\ queue' = [queue EXCEPT ![d] = <<>>]
  /\ \E sent \in Prefixes(outbox[d]) :
       outbox' = [outbox EXCEPT ![d] = IF Connected(d) THEN sent ELSE <<>>]
  /\ UNCHANGED <<parts, dbVars, handlerVars, serving, dispVars, listVars, wireVars,
                 histVars>>

-----------------------------------------------------------------------------
(* The lease. *)

\* StopDriverDistribution: on detach, on disable, on delete.  It cancels the
\* context; the goroutines and the sockets go when they notice.
Release(d) ==
  /\ lease[d] # NoSession
  /\ IF alive[d] THEN Fault ELSE UNCHANGED faults
  /\ lease' = [lease EXCEPT ![d] = NoSession]
  /\ UNCHANGED <<dbVars, handlerVars, serving, dispVars, listVars, open, down,
                 driverVars, histVars>>

\* The sockets close with what they hold: jobs the driver had not received,
\* results the listener had not.
CloseSockets(s) ==
  LET d == SessionDriver[s] IN
  /\ open[s] /\ ~Leased(s)
  /\ open' = [open EXCEPT ![s] = FALSE]
  /\ down' = [down EXCEPT ![s] = <<>>]
  /\ lpc' = [lpc EXCEPT ![s] = IF @ = "recv" THEN "off" ELSE @]
  /\ \E unsent \in Suffixes(outbox[d]) :
       outbox' = [outbox EXCEPT ![d] = IF alive[d] THEN unsent ELSE <<>>]
  /\ UNCHANGED <<dbVars, handlerVars, serving, dispVars, lmsg, lsnap, lease,
                 alive, parts, queue, histVars, faults>>

\* The server stops and restarts: the database is all that is left of it.
ServerCrash ==
  /\ Fault
  /\ cancelling' = {} /\ recovering' = {}
  /\ lease' = [d \in Drivers |-> NoSession]
  /\ open' = [s \in Sessions |-> FALSE]
  /\ down' = [s \in Sessions |-> <<>>]
  /\ dpc' = [s \in Sessions |-> "off"]
  /\ djob' = [s \in Sessions |-> NoJob]
  /\ lpc' = [s \in Sessions |-> "off"]
  /\ lmsg' = [s \in Sessions |-> NoMessage]
  /\ lsnap' = [s \in Sessions |-> "absent"]
  /\ \E unsent \in [Drivers -> UNION {Suffixes(outbox[d]) : d \in Drivers}] :
       /\ \A d \in Drivers : unsent[d] \in Suffixes(outbox[d])
       /\ outbox' = [d \in Drivers |-> IF alive[d] THEN unsent[d] ELSE <<>>]
  /\ UNCHANGED <<dbVars, serving, alive, parts, queue, histVars>>

-----------------------------------------------------------------------------
Next ==
  \/ \E j \in Jobs : Submit(j) \/ CancelRead(j) \/ CancelWrite(j) \/ RecoveryWrite(j)
  \/ \E q \in QPUs : StopServing(q) \/ ResumeServing(q)
  \/ \E S \in SUBSET Jobs : RecoveryScan(S)
  \/ \E s \in Sessions, j \in Jobs : Fetch(s, j)
  \/ \E s \in Sessions :
       \/ Send(s) \/ SendReturnsError(s) \/ MarkRunning(s) \/ DispatcherReturns(s)
       \/ ReceiveResult(s) \/ DropResult(s) \/ LoadJob(s)
       \/ StoreResult(s) \/ StoreFails(s) \/ DriverReceive(s) \/ CloseSockets(s)
  \/ \E d \in Drivers, s \in Sessions : DriverStart(d, s)
  \/ \E d \in Drivers, o \in Outcomes : Execute(d, o)
  \/ \E d \in Drivers : DriverCrash(d) \/ Release(d)
  \/ ServerCrash

Spec == Init /\ [][Next]_vars

(***************************************************************************)
(* Fairness, for the liveness run.  The goroutines, the recovery ticker    *)
(* and the driver's own loops, while they exist, run on their own.  A QPU  *)
(* that was taken out of service comes back, and an operator restarts a    *)
(* driver which is down, which the server no longer serves, or which has   *)
(* fallen mute without its worker or its pump: that is an assumption about *)
(* people, not something the code does.  Requests are under no fairness.   *)
(* Fetch is strongly fair: the goroutine polls whenever it is at the top   *)
(* of its loop, and what it finds there is the oldest job.                 *)
(***************************************************************************)
RecoveryScanOfLost(S) == RecoveryScan(S) /\ \A j \in S : ~InFlight(j)
OperatorRestarts(d) == DriverCrash(d) /\ (lease[d] = NoSession \/ Mute(d))

Fairness ==
  /\ \A q \in QPUs : WF_vars(ResumeServing(q))
  /\ \A j \in Jobs : WF_vars(RecoveryWrite(j)) /\ WF_vars(CancelWrite(j))
  /\ WF_vars(\E S \in SUBSET Jobs : RecoveryScanOfLost(S))
  /\ \A s \in Sessions :
       /\ \A j \in Jobs : SF_vars(Fetch(s, j))
       /\ WF_vars(Send(s)) /\ WF_vars(MarkRunning(s))
       /\ WF_vars(DispatcherReturns(s)) /\ WF_vars(CloseSockets(s))
       /\ WF_vars(ReceiveResult(s)) /\ WF_vars(LoadJob(s)) /\ WF_vars(StoreResult(s))
       /\ WF_vars(DriverReceive(s))
  /\ \A d \in Drivers :
       /\ WF_vars(OperatorRestarts(d))
       /\ WF_vars(\E s \in Sessions : DriverStart(d, s))
       /\ WF_vars(\E o \in Outcomes : Execute(d, o))

FairSpec == Spec /\ Fairness

-----------------------------------------------------------------------------
(* Properties. *)

RecordsOK ==
  /\ status \in [Jobs -> Statuses]
  /\ result \in [Jobs -> Outcomes \cup {"none"}]
  /\ cancelling \subseteq Jobs
  /\ recovering \subseteq Jobs
  /\ serving \in [QPUs -> BOOLEAN]

DispatchersOK ==
  /\ dpc \in [Sessions -> {"off", "idle", "fetched", "sent"}]
  /\ djob \in [Sessions -> Jobs \cup {NoJob}]
  /\ \A s \in Sessions : dpc[s] \in {"fetched", "sent"} <=> djob[s] # NoJob

ListenersOK ==
  /\ lpc \in [Sessions -> {"off", "recv", "billed", "loaded"}]
  /\ lmsg \in [Sessions -> Message \cup {NoMessage}]
  /\ \A s \in Sessions : lpc[s] \in {"billed", "loaded"} <=> lmsg[s] # NoMessage
  /\ lsnap \in [Sessions -> Statuses]

WiresOK ==
  /\ lease \in [Drivers -> Sessions \cup {NoSession}]
  /\ open \in [Sessions -> BOOLEAN]
  /\ down \in [Sessions -> Seq(Jobs)]

DriversOK ==
  /\ alive \in [Drivers -> BOOLEAN]
  /\ parts \in [Drivers -> {"up", "noWorker", "noPump"}]
  /\ queue \in [Drivers -> Seq(Jobs)]
  /\ outbox \in [Drivers -> Seq(Message)]

HistoryOK ==
  /\ sends \in [Jobs -> 0..MaxSends]
  /\ execs \in [Jobs -> Nat]
  /\ heard \in [Jobs -> Nat]
  /\ bills \in [Jobs -> Nat]
  /\ stores \in [Jobs -> Nat]
  /\ ranOn \in [Jobs -> SUBSET Drivers]
  /\ everCancelled \subseteq Jobs /\ quiet \subseteq Jobs
  /\ lateSends \in [Sessions -> Nat]
  /\ faults \in 0..MaxFaults

\* Type invariant.  A dispatcher holds a job exactly from the query to the end
\* of the loop's pass, and a listener a result while it applies it.
TypeOK ==
  /\ RecordsOK /\ DispatchersOK /\ ListenersOK
  /\ WiresOK /\ DriversOK /\ HistoryOK

\* A job that reads completed or failed has results, was executed, and only by
\* process drivers of the QPU it targets: whatever is lost, repeated or written
\* late by the dispatcher, the listener, the recovery engine and the cancel
\* request, no job is finished that no driver ran (applyJobResult is the only
\* writer of these two statuses, and the other four writers are unconditional).
FinishedJobsRan ==
  \A j \in Jobs : status[j] \in Outcomes =>
    /\ result[j] # "none"
    /\ ranOn[j] # {}
    /\ \A d \in ranOn[j] : d \in Processors /\ DriverQPU[d] = Target[j]

\* Cancelling a job that no dispatcher has picked yet is final: it is never sent
\* to a driver and no later write of FindAndUpdateOne or of the recovery engine
\* takes it out of `cancelled` (handleJobCancel).
EarlyCancelIsFinal ==
  \A j \in quiet : status[j] = "cancelled" /\ sends[j] = 0

\* Switching a QPU off, putting it in maintenance or calibrating it lets each
\* dispatcher send at most the one job it had already fetched: FetchNextJob is
\* asked before every send, and not again before the send itself.
SwitchOffLetsOneThrough ==
  \A s \in Sessions : ~serving[Q(s)] => lateSends[s] <= 1

\* Jobs of one user for one QPU are first sent in the order they were submitted,
\* a cancelled one aside, whatever else the slots decide and however often the
\* recovery engine puts some of them back (FetchNextJob sorts by `created`).
OldestFirst ==
  \A i, j \in Jobs :
    /\ i < j /\ Owner[i] = Owner[j] /\ Target[i] = Target[j]
    /\ sends[j] > 0 /\ sends[i] = 0
    => i \in everCancelled

\* Every job that is accepted gets results in the end or is cancelled: lost jobs
\* and lost results are made up for by RunRecoveryEngine and another dispatch, if
\* operators restart drivers that fell mute (Fairness above).
AcceptedJobIsAnswered ==
  \A j \in Jobs :
    status[j] # "absent" ~> result[j] # "none" \/ j \in everCancelled

Service == INSTANCE JobService WITH
  submitted <- {j \in Jobs : status[j] # "absent"},
  runs <- execs, charges <- bills, answers <- stores

\* The pipeline keeps the promises of JobService: through overlapping sessions,
\* resends of a job that still runs, losses and crashes, each result of a run is
\* taken once, charged for at most once and stored at most once (applyJobResult).
ImplementsService == Service!SSpec

\* What the clients take for granted: "Poll until the job reaches a terminal
\* state" (qpi-client/go/README.md), after which they stop polling.  The code
\* does not keep it: MarkRunning and RecoveryWrite overwrite a terminal status.
Terminal == Outcomes \cup {"cancelled"}
TerminalIsFinal ==
  [][\A j \in Jobs : status[j] \in Terminal => status'[j] \in Terminal]_vars

\* What README.md says of the recovery engine: it "monitors running jobs and
\* resets them to `pending` if their driver hangs or disconnects".  The code
\* does not keep it: the engine saves a list it read earlier.
RecoveryResetsOnlyRunning ==
  [][\A j \in Jobs : j \in recovering /\ j \notin recovering' /\ status'[j] = "pending"
       => status[j] = "running"]_vars

\* What qpi-ui/internal/drivers/catalog.go says of a driver kind: it receives the
\* events it lists, and only the kinds that process jobs list JobDispatch.  The
\* code does not keep it: every driver's dispatcher takes jobs off the queue.
OnlyProcessorsAreSentJobs ==
  \A s \in Sessions : down[s] # <<>> => SessionDriver[s] \in Processors
=============================================================================
