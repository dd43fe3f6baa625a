---------------------------- MODULE DriverSession ----------------------------
(***************************************************************************)
(* How a driver gets a session and loses it: the connect handler, the      *)
(* lease in activeDrivers, the two sockets of a session, the pipe hooks    *)
(* that write the records of the driver and of its QPU, and the operators  *)
(* who disable, delete and restart drivers and take QPUs out of service.   *)
(*                                                                         *)
(* Each database access, each change of activeDrivers and each socket      *)
(* operation is a step.  A write of a constant is one step although        *)
(* FindAndUpdateOne reads first.  The look-up of connected peers is one    *)
(* step: it is a query and, for each record, a look at activeDrivers.      *)
(*                                                                         *)
(* A socket of the driver dials again by itself, so that a process may     *)
(* have a new pipe while the hook of an old one is still at work: only the *)
(* attach hook of a pipe ends before the detach hook of the same pipe      *)
(* begins (mangos).                                                        *)
(***************************************************************************)
EXTENDS Naturals

CONSTANTS
  Drivers,        \* registered before the behaviour begins
  QPUs,
  Processes,      \* runs of a driver's program, one after another in each
  Sessions,       \* leases: a dispatcher and a listener with a socket each
  DriverQPU,      \* drivers.qpu
  Operation,      \* drivers.Default.OperationOf; "" for a custom driver
  DriverOf,       \* whose token a process holds
  Pipes,          \* bound: connections to a dispatcher with a hook to run
  PipeOf,         \* the process at the other end
  SessionDriver,
  NoSession,
  Pairs,          \* port pairs of the configured range, in the order of search
  MaxToggles,     \* bound: acts of the administrator
  MaxFaults       \* bound: faults of the environment

ASSUME SessionAssumption ==
  /\ DriverQPU \in [Drivers -> QPUs]
  /\ DriverOf \in [Processes -> Drivers]
  /\ PipeOf \in [Pipes -> Processes]
  /\ SessionDriver \in [Sessions -> Drivers]
  /\ NoSession \notin Sessions
  /\ Pairs \subseteq Nat \ {0}
  /\ MaxToggles \in Nat /\ MaxFaults \in Nat
ASSUME OperationAssumption ==
  Operation \in [Drivers -> {"", "process", "monitor", "calibrate"}]

VARIABLES
  \* the drivers collection
  record,      \* "there", "gone", or "ghost": re-created under a token nobody has
  enabled, status,
  ports,       \* nng_in_port and nng_out_port, 0 when none are allocated
  \* the qpus collection
  qpuEnabled, qpuStatus,
  \* requests in the middle of their work
  handler,     \* where the connect request of a process is
  snap,        \* the driver as that request read it: its status and its ports
  stopping,    \* a disable or a delete is written and has not released the lease
  \* sessions
  lease,       \* activeDrivers
  disp, lstn,  \* the dispatcher's and the listener's socket
  pair,        \* the ports the session was started with
  \* processes, and their pipes to a dispatcher's socket
  proc,
  dialled,     \* the ports the process was told to dial
  pipe, hook,  \* the session a pipe is of, and where its hook is
  lost,        \* the pipes that are closed at one of their ends
  \* history and bounds
  seen,        \* drivers a pipe of which came up since the server started
  withdrawn,   \* drivers disabled or deleted while none of them was connecting
  worked,      \* QPUs under maintenance, as the administrator left them
  toggles, faults

recordVars  == <<record, enabled, status, ports>>
qpuVars     == <<qpuEnabled, qpuStatus>>
requestVars == <<handler, snap, stopping>>
sessionVars == <<lease, disp, lstn, pair>>
pipeVars    == <<pipe, hook, lost>>
procVars    == <<proc, dialled>>
histVars    == <<seen, withdrawn, worked>>
boundVars   == <<toggles, faults>>
vars == <<recordVars, qpuVars, requestVars, sessionVars, procVars, pipeVars, histVars, boundVars>>

Leased(s) == lease[SessionDriver[s]] = s
PipesOf(p) == {c \in Pipes : PipeOf[c] = p}
ConnectingTo(d) == \E p \in Processes : DriverOf[p] = d /\ handler[p] # "none"
Fault == faults < MaxFaults /\ faults' = faults + 1
Act == toggles < MaxToggles /\ toggles' = toggles + 1

Init ==
  /\ record = [d \in Drivers |-> "there"]
  /\ enabled = [d \in Drivers |-> TRUE]
  /\ status = [d \in Drivers |-> "offline"]
  /\ ports = [d \in Drivers |-> 0]
  /\ qpuEnabled = [q \in QPUs |-> TRUE]
  /\ qpuStatus = [q \in QPUs |-> "offline"]
  /\ handler = [p \in Processes |-> "none"]
  /\ snap = [p \in Processes |-> [status |-> "offline", ports |-> 0]]
  /\ stopping = {}
  /\ lease = [d \in Drivers |-> NoSession]
  /\ disp = [s \in Sessions |-> "off"]
  /\ lstn = [s \in Sessions |-> "off"]
  /\ pair = [s \in Sessions |-> 0]
  /\ proc = [p \in Processes |-> "down"]
  /\ dialled = [p \in Processes |-> 0]
  /\ pipe = [c \in Pipes |-> NoSession]
  /\ hook = [c \in Pipes |-> "none"]
  /\ lost = {}
  /\ seen = {} /\ withdrawn = {} /\ worked = {}
  /\ toggles = 0 /\ faults = 0

-----------------------------------------------------------------------------
(* handleDriverConnect. *)

\* Nothing of an earlier connection of this driver is still going on: no release
\* under way, no socket of a session that is over or failed, no other process.
Settled(p) ==
  LET d == DriverOf[p] IN
  /\ d \notin stopping
  /\ \A s \in Sessions : SessionDriver[s] = d =>
       IF Leased(s) THEN disp[s] # "failed" ELSE disp[s] = "off" /\ lstn[s] = "off"
  /\ \A o \in Processes \ {p} : DriverOf[o] = d => proc[o] = "down"
  /\ \A c \in Pipes : DriverOf[PipeOf[c]] = d => hook[c] = "none"

\* A process that starts before that is counted as a fault.
OnItsOwn(p) == IF Settled(p) THEN UNCHANGED faults ELSE Fault

\* A process starts and asks to connect; the handler reads the driver of its token.
\* A disabled one is answered 403, an unknown token 401: the process ends.
\* Mutant: `enabled` is not looked at.
ConnectUnasked(p) ==
  LET d == DriverOf[p] IN
  /\ proc[p] = "down" /\ handler[p] = "none"
  /\ record[d] = "there"
  /\ proc' = [proc EXCEPT ![p] = "waiting"]
  /\ handler' = [handler EXCEPT ![p] = "read"]
  /\ snap' = [snap EXCEPT ![p] = [status |-> status[d], ports |-> ports[d]]]
  /\ OnItsOwn(p)
  /\ UNCHANGED <<recordVars, qpuVars, stopping, sessionVars, dialled, pipeVars, histVars, toggles>>
Connect(p) ==
  LET d == DriverOf[p] IN
  /\ proc[p] = "down" /\ handler[p] = "none"
  /\ record[d] = "there" /\ enabled[d]
  /\ proc' = [proc EXCEPT ![p] = "waiting"]
  /\ handler' = [handler EXCEPT ![p] = "read"]
  /\ snap' = [snap EXCEPT ![p] = [status |-> status[d], ports |-> ports[d]]]
  /\ OnItsOwn(p)
  /\ UNCHANGED <<recordVars, qpuVars, stopping, sessionVars, dialled, pipeVars, histVars, toggles>>

\* connectedPeer.  Mutant: it asks of the driver itself whether it is dispatching.
PeerOfItself(d) ==
  \E e \in Drivers \ {d} :
    /\ DriverQPU[e] = DriverQPU[d] /\ Operation[e] = Operation[d] /\ Operation[d] # ""
    /\ record[e] # "gone" /\ status[e] = "online" /\ enabled[e]
    /\ lease[d] # NoSession
Peer(d) ==
  \E e \in Drivers \ {d} :
    /\ DriverQPU[e] = DriverQPU[d] /\ Operation[e] = Operation[d] /\ Operation[d] # ""
    /\ record[e] # "gone" /\ status[e] = "online" /\ enabled[e]
    /\ lease[e] # NoSession

Refuse(p) ==
  /\ handler[p] = "read" /\ Peer(DriverOf[p])
  /\ handler' = [handler EXCEPT ![p] = "none"]
  /\ proc' = [proc EXCEPT ![p] = "down"]
  /\ UNCHANGED <<recordVars, qpuVars, snap, stopping, sessionVars, dialled, pipeVars, histVars,
                 boundVars>>

Admit(p) ==
  /\ handler[p] = "read" /\ ~Peer(DriverOf[p])
  /\ handler' = [handler EXCEPT ![p] = "admitted"]
  /\ UNCHANGED <<recordVars, qpuVars, snap, stopping, sessionVars, procVars, pipeVars, histVars,
                 boundVars>>

\* The query fails, and connectedPeer answers that there is no peer.
AdmitUnknown(p) ==
  /\ handler[p] = "read" /\ Operation[DriverOf[p]] # "" /\ Fault
  /\ handler' = [handler EXCEPT ![p] = "admitted"]
  /\ UNCHANGED <<recordVars, qpuVars, snap, stopping, sessionVars, procVars, pipeVars, histVars,
                 toggles>>

\* findFreePorts: those no record claims and that can be bound just now.
FreePairs ==
  {k \in Pairs :
     /\ \A d \in Drivers : record[d] = "gone" \/ ports[d] # k
     /\ \A s \in Sessions : pair[s] = k => disp[s] # "bound" /\ lstn[s] # "bound"}

\* Mutant: a driver without ports gets none.
AllocateNothing(p) ==
  /\ handler[p] = "admitted"
  /\ handler' = [handler EXCEPT ![p] = "allocated"]
  /\ UNCHANGED <<recordVars, qpuVars, snap, stopping, sessionVars, procVars, pipeVars, histVars,
                 boundVars>>
Allocate(p) ==
  /\ handler[p] = "admitted"
  /\ \/ snap[p].ports # 0 /\ UNCHANGED snap
     \/ /\ snap[p].ports = 0
        /\ \E k \in FreePairs :
             /\ \A i \in FreePairs : k <= i
             /\ snap' = [snap EXCEPT ![p].ports = k]
  /\ handler' = [handler EXCEPT ![p] = "allocated"]
  /\ UNCHANGED <<recordVars, qpuVars, stopping, sessionVars, procVars, pipeVars, histVars, boundVars>>

\* No pair is left, or other programs of the host hold those that are: the handler
\* answers 500.
AllocateFails(p) ==
  /\ handler[p] = "admitted" /\ snap[p].ports = 0
  /\ IF FreePairs = {} THEN UNCHANGED faults ELSE Fault
  /\ handler' = [handler EXCEPT ![p] = "none"]
  /\ proc' = [proc EXCEPT ![p] = "down"]
  /\ UNCHANGED <<recordVars, qpuVars, snap, stopping, sessionVars, dialled, pipeVars, histVars,
                 toggles>>

\* saveToDb(driver): Driver.ToRecord sets every column to what the handler read,
\* `enabled` and `status` too.  A record deleted since is created again, with the
\* stored hash of its token hashed once more, so that no process can present it.
SaveDriver(p) ==
  LET d == DriverOf[p] IN
  /\ handler[p] = "allocated"
  /\ handler' = [handler EXCEPT ![p] = "saved"]
  /\ record' = [record EXCEPT ![d] = IF @ = "gone" THEN "ghost" ELSE @]
  /\ enabled' = [enabled EXCEPT ![d] = TRUE]
  /\ status' = [status EXCEPT ![d] = snap[p].status]
  /\ ports' = [ports EXCEPT ![d] = snap[p].ports]
  /\ UNCHANGED <<qpuVars, snap, stopping, sessionVars, procVars, pipeVars, histVars, boundVars>>

Free(s) ==
  /\ disp[s] = "off" /\ lstn[s] = "off" /\ ~Leased(s)
  /\ \A c \in Pipes : pipe[c] # s

\* StartDriverDistribution, and the answer: a lease that is held goes on as it is.
StartDistribution(p, s) ==
  LET d == DriverOf[p] IN
  /\ handler[p] = "saved" /\ SessionDriver[s] = d
  /\ \/ lease[d] = s /\ UNCHANGED sessionVars
     \/ /\ lease[d] = NoSession /\ Free(s)
        /\ lease' = [lease EXCEPT ![d] = s]
        /\ disp' = [disp EXCEPT ![s] = "binding"]
        /\ lstn' = [lstn EXCEPT ![s] = "binding"]
        /\ pair' = [pair EXCEPT ![s] = snap[p].ports]
  /\ handler' = [handler EXCEPT ![p] = "none"]
  /\ proc' = [proc EXCEPT ![p] = IF @ = "waiting" THEN "dialling" ELSE @]
  /\ dialled' = [dialled EXCEPT ![p] = snap[p].ports]
  /\ UNCHANGED <<recordVars, qpuVars, snap, stopping, pipeVars, histVars, boundVars>>

-----------------------------------------------------------------------------
(* The two goroutines of a session. *)

PortTaken(sockets, s) == \E t \in Sessions \ {s} : sockets[t] = "bound" /\ pair[t] = pair[s]

BindDispatcher(s) ==
  /\ disp[s] = "binding"
  /\ disp' = [disp EXCEPT ![s] = IF PortTaken(disp, s) THEN "failed" ELSE "bound"]
  /\ UNCHANGED <<recordVars, qpuVars, requestVars, lease, lstn, pair, procVars, pipeVars, histVars,
                 boundVars>>

\* The dispatcher could not listen: StopDriverDistribution, and it returns.
\* Mutant: it only returns.
GiveUpQuietly(s) ==
  /\ disp[s] = "failed"
  /\ disp' = [disp EXCEPT ![s] = "off"]
  /\ UNCHANGED <<recordVars, qpuVars, requestVars, lease, lstn, pair, procVars, pipeVars, histVars,
                 boundVars>>
GiveUp(s) ==
  /\ disp[s] = "failed"
  /\ disp' = [disp EXCEPT ![s] = "off"]
  /\ lease' = [lease EXCEPT ![SessionDriver[s]] = NoSession]
  /\ UNCHANGED <<recordVars, qpuVars, requestVars, lstn, pair, procVars, pipeVars, histVars,
                 boundVars>>

\* The listener that could not listen returns and says nothing.
BindListener(s) ==
  /\ lstn[s] = "binding"
  /\ lstn' = [lstn EXCEPT ![s] = IF PortTaken(lstn, s) THEN "off" ELSE "bound"]
  /\ UNCHANGED <<recordVars, qpuVars, requestVars, lease, disp, pair, procVars, pipeVars, histVars,
                 boundVars>>

\* The context is cancelled: each goroutine closes its socket, and with the
\* dispatcher's go the pipes it had.
CloseDispatcher(s) ==
  /\ disp[s] = "bound" /\ ~Leased(s)
  /\ disp' = [disp EXCEPT ![s] = "off"]
  /\ lost' = lost \cup {c \in Pipes : pipe[c] = s}
  /\ UNCHANGED <<recordVars, qpuVars, requestVars, lease, lstn, pair, procVars, pipe, hook, histVars,
                 boundVars>>

CloseListener(s) ==
  /\ lstn[s] = "bound" /\ ~Leased(s)
  /\ lstn' = [lstn EXCEPT ![s] = "off"]
  /\ UNCHANGED <<recordVars, qpuVars, requestVars, lease, disp, pair, procVars, pipeVars, histVars,
                 boundVars>>

-----------------------------------------------------------------------------
(* The driver's process, and the pipe hook of the dispatcher's socket. *)

ListenerAt(k) == \E s \in Sessions : lstn[s] = "bound" /\ pair[s] = k

\* The outbound socket is dialled first, and a refused connection ends the process.
DialOut(p) ==
  /\ proc[p] = "dialling"
  /\ proc' = [proc EXCEPT ![p] = IF ListenerAt(dialled[p]) THEN "dialled" ELSE "down"]
  /\ UNCHANGED <<recordVars, qpuVars, requestVars, sessionVars, dialled, pipeVars, histVars, boundVars>>

\* So does a refused inbound connection.
DialInRefused(p) ==
  /\ proc[p] = "dialled"
  /\ \A s \in Sessions : disp[s] = "bound" => pair[s] # dialled[p]
  /\ proc' = [proc EXCEPT ![p] = "down"]
  /\ UNCHANGED <<recordVars, qpuVars, requestVars, sessionVars, dialled, pipeVars, histVars, boundVars>>

\* A pipe comes up: at the first dial, or when the socket dials again by itself,
\* with no new handshake.  The hooks of the pipes before it may still be at work.
Attach(c, s) ==
  LET p == PipeOf[c] IN
  /\ proc[p] \in {"dialled", "running"} /\ hook[c] = "none"
  /\ \A o \in PipesOf(p) : hook[o] # "none" => o \in lost
  /\ disp[s] = "bound" /\ pair[s] = dialled[p]
  /\ proc' = [proc EXCEPT ![p] = "running"]
  /\ pipe' = [pipe EXCEPT ![c] = s]
  /\ hook' = [hook EXCEPT ![c] = "attached"]
  /\ UNCHANGED <<recordVars, qpuVars, requestVars, sessionVars, dialled, lost, histVars, boundVars>>

\* The network drops a connection.
LinkBreaks(c) ==
  /\ hook[c] # "none" /\ c \notin lost /\ Fault
  /\ lost' = lost \cup {c}
  /\ UNCHANGED <<recordVars, qpuVars, requestVars, sessionVars, procVars, pipe, hook, histVars,
                 toggles>>

\* markDriverStatus(state): the driver's record, which may be gone by now, ...
MarkDriver(c, at, next, state) ==
  LET d == SessionDriver[pipe[c]] IN
  /\ hook[c] = at
  /\ hook' = [hook EXCEPT ![c] = next]
  /\ status' = IF record[d] = "gone" THEN status ELSE [status EXCEPT ![d] = state]
  /\ seen' = IF state = "online" THEN seen \cup {d} ELSE seen
  /\ UNCHANGED <<record, enabled, ports, qpuVars, requestVars, sessionVars, procVars, pipe, lost,
                 withdrawn, worked, boundVars>>

\* ... and then its QPU's, whatever it holds and whatever the driver is for.
MarkQPU(c, at, next, state) ==
  /\ hook[c] = at
  /\ hook' = [hook EXCEPT ![c] = next]
  /\ qpuStatus' = [qpuStatus EXCEPT ![DriverQPU[SessionDriver[pipe[c]]]] = state]
  /\ UNCHANGED <<recordVars, qpuEnabled, requestVars, sessionVars, procVars, pipe, lost, histVars,
                 boundVars>>

DriverOnline(c)  == MarkDriver(c, "attached", "mirror online", "online")
QPUOnline(c)     == MarkQPU(c, "mirror online", "up", "online")
DriverOffline(c) == c \in lost /\ MarkDriver(c, "up", "mirror offline", "offline")
QPUOffline(c)    == MarkQPU(c, "mirror offline", "release", "offline")

\* The end of the detach hook: StopDriverDistribution, whichever session of the
\* driver holds the lease by now.
ReleaseOnDetach(c) ==
  LET d == SessionDriver[pipe[c]] IN
  /\ hook[c] = "release"
  /\ hook' = [hook EXCEPT ![c] = "none"]
  /\ pipe' = [pipe EXCEPT ![c] = NoSession]
  /\ lost' = lost \ {c}
  /\ lease' = [lease EXCEPT ![d] = NoSession]
  /\ UNCHANGED <<recordVars, qpuVars, requestVars, disp, lstn, pair, procVars, histVars, boundVars>>

\* A process ends; operators end those whose lease was taken away, since no process
\* ever asks for another.
Stranded(p) == proc[p] = "running" /\ lease[DriverOf[p]] = NoSession
ProcessEnds(p) ==
  /\ proc[p] # "down"
  /\ IF Stranded(p) THEN UNCHANGED faults ELSE Fault
  /\ proc' = [proc EXCEPT ![p] = "down"]
  /\ lost' = lost \cup {c \in PipesOf(p) : pipe[c] # NoSession}
  /\ UNCHANGED <<recordVars, qpuVars, requestVars, sessionVars, dialled, pipe, hook, histVars, toggles>>

-----------------------------------------------------------------------------
(* The administrator, and the server's own restart. *)

\* A session without its listener: no driver can dial it, and no other gets in.
HalfServed(d) ==
  \E s \in Sessions : lease[d] = s /\ disp[s] = "bound" /\ lstn[s] = "off"

\* handleDriverToggle and OnDriverUpdate, the write.  It is also how operators
\* release a lease that serves nobody.
Disable(d) ==
  /\ record[d] # "gone" /\ d \notin stopping
  /\ IF HalfServed(d) /\ ~ConnectingTo(d) THEN UNCHANGED toggles ELSE Act
  /\ status' = IF enabled[d] THEN [status EXCEPT ![d] = "offline"] ELSE status
  /\ enabled' = [enabled EXCEPT ![d] = FALSE]
  /\ stopping' = stopping \cup {d}
  /\ withdrawn' = IF ConnectingTo(d) THEN withdrawn ELSE withdrawn \cup {d}
  /\ UNCHANGED <<record, ports, qpuVars, handler, snap, sessionVars, procVars, pipeVars, seen, worked,
                 faults>>

Enable(d) ==
  /\ record[d] # "gone" /\ ~enabled[d]
  /\ IF d \in stopping THEN Act ELSE UNCHANGED toggles
  /\ enabled' = [enabled EXCEPT ![d] = TRUE]
  /\ withdrawn' = withdrawn \ {d}
  /\ UNCHANGED <<record, status, ports, qpuVars, requestVars, sessionVars, procVars, pipeVars, seen,
                 worked, faults>>

Delete(d) ==
  /\ record[d] # "gone" /\ d \notin stopping /\ Act
  /\ record' = [record EXCEPT ![d] = "gone"]
  /\ stopping' = stopping \cup {d}
  /\ withdrawn' = IF ConnectingTo(d) THEN withdrawn \ {d} ELSE withdrawn \cup {d}
  /\ UNCHANGED <<enabled, status, ports, qpuVars, handler, snap, sessionVars, procVars, pipeVars, seen,
                 worked, faults>>

\* ... and the release that follows it, in the handler or in the delete hook.
Stop(d) ==
  /\ d \in stopping
  /\ stopping' = stopping \ {d}
  /\ lease' = [lease EXCEPT ![d] = NoSession]
  /\ UNCHANGED <<recordVars, qpuVars, handler, snap, disp, lstn, pair, procVars, pipeVars, histVars,
                 boundVars>>

\* db.ConnectedQpuStatus looks at two ports of the QPU that no code sets any more.
ConnectedQpuStatus == "offline"

\* handleQPUToggle and OnQpuUpdate.
ToggleQPU(q) ==
  /\ Act
  /\ qpuEnabled' = [qpuEnabled EXCEPT ![q] = ~@]
  /\ qpuStatus' = [qpuStatus EXCEPT ![q] = IF qpuEnabled[q] THEN "offline" ELSE ConnectedQpuStatus]
  /\ worked' = worked \ {q}
  /\ UNCHANGED <<recordVars, requestVars, sessionVars, procVars, pipeVars, seen, withdrawn, faults>>

\* handleQPUMaintenance.
BeginMaintenance(q) ==
  /\ Act
  /\ qpuStatus' = [qpuStatus EXCEPT ![q] = "maintenance"]
  /\ worked' = worked \cup {q}
  /\ UNCHANGED <<recordVars, qpuEnabled, requestVars, sessionVars, procVars, pipeVars, seen, withdrawn,
                 faults>>

EndMaintenance(q) ==
  /\ Act
  /\ qpuStatus' = [qpuStatus EXCEPT ![q] = ConnectedQpuStatus]
  /\ worked' = worked \ {q}
  /\ UNCHANGED <<recordVars, qpuEnabled, requestVars, sessionVars, procVars, pipeVars, seen, withdrawn,
                 faults>>

\* MarkEveryDriverOffline.  Mutant: it changes nothing.
AsTheyWere == status
AllOffline == [d \in Drivers |-> "offline"]

\* The server stops, starts, and resets the drivers before it serves a request.
\* A process that waited for an answer ends; one that is connected goes on dialling.
ServerRestart ==
  /\ Fault
  /\ status' = AllOffline
  /\ handler' = [p \in Processes |-> "none"]
  /\ stopping' = {}
  /\ lease' = [d \in Drivers |-> NoSession]
  /\ disp' = [s \in Sessions |-> "off"]
  /\ lstn' = [s \in Sessions |-> "off"]
  /\ proc' = [p \in Processes |-> IF proc[p] = "waiting" THEN "down" ELSE proc[p]]
  /\ pipe' = [c \in Pipes |-> NoSession]
  /\ hook' = [c \in Pipes |-> "none"]
  /\ lost' = {} /\ seen' = {}
  /\ UNCHANGED <<record, enabled, ports, qpuVars, snap, pair, dialled, withdrawn, worked, toggles>>

-----------------------------------------------------------------------------
Next ==
  \/ \E p \in Processes :
       \/ Connect(p) \/ Refuse(p) \/ Admit(p) \/ AdmitUnknown(p)
       \/ Allocate(p) \/ AllocateFails(p) \/ SaveDriver(p)
       \/ DialOut(p) \/ DialInRefused(p) \/ ProcessEnds(p)
  \/ \E c \in Pipes :
       \/ DriverOnline(c) \/ QPUOnline(c) \/ DriverOffline(c) \/ QPUOffline(c)
       \/ ReleaseOnDetach(c) \/ LinkBreaks(c)
  \/ \E p \in Processes, s \in Sessions : StartDistribution(p, s)
  \/ \E c \in Pipes, s \in Sessions : Attach(c, s)
  \/ \E s \in Sessions :
       \/ BindDispatcher(s) \/ GiveUp(s) \/ BindListener(s)
       \/ CloseDispatcher(s) \/ CloseListener(s)
  \/ \E d \in Drivers : Disable(d) \/ Enable(d) \/ Delete(d) \/ Stop(d)
  \/ \E q \in QPUs : ToggleQPU(q) \/ BeginMaintenance(q) \/ EndMaintenance(q)
  \/ ServerRestart

Spec == Init /\ [][Next]_vars

(***************************************************************************)
(* Fairness, for the liveness run: requests, goroutines, hooks and         *)
(* processes go on by themselves.  Operators start a driver that is down   *)
(* and on its own, end one whose lease was taken away, and enable what is  *)
(* disabled; docs/driver/operations.md tells them to disable a driver that *)
(* holds its lease with nothing connected, which they do between connects  *)
(* (strong fairness: the driver's supervisor may connect at any time).     *)
(***************************************************************************)
Request(p) ==
  \/ Refuse(p) \/ Admit(p) \/ Allocate(p) \/ AllocateFails(p) \/ SaveDriver(p)
  \/ \E s \in Sessions : StartDistribution(p, s)
Goroutines(s) ==
  BindDispatcher(s) \/ GiveUp(s) \/ BindListener(s) \/ CloseDispatcher(s) \/ CloseListener(s)
Hook(c) ==
  DriverOnline(c) \/ QPUOnline(c) \/ DriverOffline(c) \/ QPUOffline(c) \/ ReleaseOnDetach(c)
Dial(p) ==
  \/ DialOut(p) \/ DialInRefused(p)
  \/ \E c \in PipesOf(p), s \in Sessions : Attach(c, s)

Fairness ==
  /\ \A p \in Processes :
       /\ WF_vars(Request(p)) /\ WF_vars(Dial(p))
       /\ WF_vars(Connect(p) /\ UNCHANGED faults)
       /\ WF_vars(Stranded(p) /\ ProcessEnds(p))
  /\ \A c \in Pipes : WF_vars(Hook(c))
  /\ \A s \in Sessions :
       /\ WF_vars(BindDispatcher(s) \/ GiveUp(s) \/ CloseDispatcher(s))
       /\ WF_vars(BindListener(s) \/ CloseListener(s))
  /\ \A d \in Drivers :
       WF_vars(Stop(d)) /\ WF_vars(Enable(d)) /\ SF_vars(Disable(d) /\ UNCHANGED toggles)

FairSpec == Spec /\ Fairness

-----------------------------------------------------------------------------
(* Properties. *)

RecordsOK ==
  /\ record \in [Drivers -> {"there", "gone", "ghost"}]
  /\ enabled \in [Drivers -> BOOLEAN]
  /\ status \in [Drivers -> {"offline", "online"}]
  /\ ports \in [Drivers -> Pairs \cup {0}]
  /\ qpuEnabled \in [QPUs -> BOOLEAN]
  /\ qpuStatus \in [QPUs -> {"offline", "online", "maintenance"}]

RequestsOK ==
  /\ handler \in [Processes -> {"none", "read", "admitted", "allocated", "saved"}]
  /\ snap \in [Processes -> [status : {"offline", "online"}, ports : Pairs \cup {0}]]
  /\ \A p \in Processes : handler[p] \in {"allocated", "saved"} => snap[p].ports # 0
  /\ stopping \subseteq Drivers

SessionsOK ==
  /\ lease \in [Drivers -> Sessions \cup {NoSession}]
  /\ disp \in [Sessions -> {"off", "binding", "bound", "failed"}]
  /\ lstn \in [Sessions -> {"off", "binding", "bound"}]
  /\ pair \in [Sessions -> Pairs \cup {0}]
  /\ \A s \in Sessions : disp[s] # "off" \/ lstn[s] # "off" => pair[s] # 0
  /\ \A d \in Drivers : lease[d] # NoSession => SessionDriver[lease[d]] = d

ProcessesOK ==
  /\ proc \in [Processes -> {"down", "waiting", "dialling", "dialled", "running"}]
  /\ dialled \in [Processes -> Pairs \cup {0}]
  /\ pipe \in [Pipes -> Sessions \cup {NoSession}]
  /\ hook \in [Pipes ->
       {"none", "attached", "mirror online", "up", "mirror offline", "release"}]
  /\ lost \subseteq Pipes
  /\ \A c \in Pipes : hook[c] = "none" <=> pipe[c] = NoSession

\* Type invariant: a pipe has a session from its attach to the end of its detach
\* hook, a handler has ports from their allocation on, a lease is of its driver.
TypeOK ==
  /\ RecordsOK /\ RequestsOK /\ SessionsOK /\ ProcessesOK
  /\ seen \subseteq Drivers /\ withdrawn \subseteq Drivers /\ worked \subseteq QPUs
  /\ toggles \in 0..MaxToggles /\ faults \in 0..MaxFaults

\* A lease is never left behind by its dispatcher, although every release is by
\* driver and may take the lease of another session: a driver is treated as
\* served only while a goroutine of that very lease listens or is about to
\* (StartDriverDistribution, "treats this driver as served and never retries").
LeaseIsServed ==
  \A s \in Sessions : Leased(s) => disp[s] # "off"

\* `online` in the database is of a pipe that came up in this run of the server: no
\* restart, and no connect request that read the record before one, leaves a claim
\* of the server that is gone (MarkEveryDriverOffline).
OnlineIsThisServers ==
  \A d \in Drivers : record[d] # "gone" /\ status[d] = "online" => d \in seen

\* A driver that is disabled or deleted while none of its processes is connecting
\* stays so, and once the release that follows has run it is not served, whatever
\* hooks of old pipes and processes that keep dialling do afterwards.
WithdrawnIsReleased ==
  \A d \in withdrawn :
    /\ record[d] = "gone" \/ ~enabled[d]
    /\ d \notin stopping => lease[d] = NoSession

Serving(d, c) ==
  hook[c] = "up" /\ c \notin lost /\ pipe[c] = lease[d] /\ lease[d] # NoSession

Served(d) == \E c \in Pipes : Serving(d, c)

OnlyPipe(d, c) == \A o \in Pipes : pipe[o] # NoSession /\ SessionDriver[pipe[o]] = d => o = c

\* d is served by a pipe of its own, and no other is on a session of d: findFreePorts
\* may give one pair to two drivers, and either dials the other's socket; and the
\* detach hook of an older pipe is about to write `offline` and to take the lease.
ServedAlone(d) ==
  \E c \in Pipes : Serving(d, c) /\ DriverOf[PipeOf[c]] = d /\ OnlyPipe(d, c)

OneProcessOf(d) == \A o, r \in Processes : DriverOf[o] = d /\ DriverOf[r] = d => o = r

\* connectedPeer: "Registering a standby is fine; connecting it while the first is live
\* is not."  A registered driver that is enabled, not being released, run once and
\* served alone is found by every look-up that is answered, whatever was written of it
\* by connects, hooks of its earlier pipes and restarts.  A driver without an operation
\* has no peers; a look-up that fails admits (AdmitUnknown).
LivePeerIsFound ==
  [][\A p \in Processes : \A e \in Drivers \ {DriverOf[p]} :
       /\ Admit(p) /\ ServedAlone(e) /\ record[e] = "there" /\ enabled[e] /\ e \notin stopping
       /\ OneProcessOf(e)
       => \/ DriverQPU[e] # DriverQPU[DriverOf[p]]
          \/ Operation[e] # Operation[DriverOf[p]] \/ Operation[e] = ""]_vars

\* A driver that stays registered is served again and again, through crashes of
\* both sides, sockets that could not be bound, stale releases and a disable, given
\* operators who restart it.
DriverIsServed ==
  \A d \in Drivers : []<>(Served(d) \/ record[d] # "there")

\* RFC 0001: "`enabled` is admin intent".  The code does not keep it: a connect
\* request saves the whole record it read, and enables a driver that was disabled
\* in between.
EnabledIsAdminIntent ==
  [][\A p \in Processes : SaveDriver(p) => enabled' = enabled]_vars

\* main.go of the delete hook: "A deleted driver's goroutines and listener would
\* otherwise run forever against an id that no longer exists".  The code does not
\* prevent it: a connect request may start them after the hook.
DeletedIsReleased ==
  \A d \in Drivers : record[d] = "gone" /\ d \notin stopping => lease[d] = NoSession

\* RFC 0001 of the lease: it "is released ... when the listener fails to bind".  The
\* code does not keep it: the listener goroutine that fails to bind just returns.
LeaseHasItsListener ==
  \A s \in Sessions : Leased(s) => lstn[s] # "off"

\* api.go: "neither a stale `online` from a crash nor a restart can wedge a QPU no
\* driver is on".  The code does not keep it: a connect request writes back the
\* `online` it read, and starts a session that nobody may come to.
IdleDriverBlocksNobody ==
  \A d, e \in Drivers :
    /\ d # e
    /\ \A p \in Processes : DriverOf[p] = e => proc[p] = "down" /\ handler[p] = "none"
    /\ (\A c \in Pipes : DriverOf[PipeOf[c]] = e => hook[c] = "none")
    => ~(status[e] = "online" /\ lease[e] # NoSession /\ enabled[e] /\ record[e] # "gone"
         /\ DriverQPU[e] = DriverQPU[d] /\ Operation[e] = Operation[d])

\* nng_driver.go: "the port pair stays reserved on the record, so a reconnect rebinds
\* the same two".  The code does not keep it: of two first connects of one driver the
\* second records a pair of its own, and the session goes on listening on the first.
SessionIsWhereRecorded ==
  \A s \in Sessions :
    Leased(s) /\ ~ConnectingTo(SessionDriver[s]) => pair[s] = ports[SessionDriver[s]]

\* RFC 0001: "One driver per role per QPU".  The code does not keep it: a driver that
\* was admitted and has not attached yet is no peer of the next.
OnePerRole ==
  \A d, e \in Drivers :
    d # e /\ DriverQPU[d] = DriverQPU[e] /\ Operation[d] = Operation[e] => ~Served(d) \/ ~Served(e)

\* docs/driver/operations.md of a QPU in maintenance: "being worked on. No jobs".  The
\* code does not keep it there: the hooks of every driver's pipe overwrite it.
MaintenanceStands ==
  \A q \in worked : qpuStatus[q] = "maintenance"

\* db/hooks.go of a QPU nothing is overriding: "online if it holds a port pair on this
\* server".  The code does not keep it: the two ports it looks at are never set.
ClearedQPUIsOnline ==
  [][\A q \in QPUs :
       /\ EndMaintenance(q) /\ qpuStatus[q] = "maintenance"
       /\ \E d \in Drivers : DriverQPU[d] = q /\ Operation[d] = "process" /\ Served(d)
       => qpuStatus'[q] = "online"]_vars

\* nng_driver.go: "A QPU driver's connection is what makes the QPU available, so the
\* QPU status tracks the driver's pipe events".  The code does not keep it: it tracks
\* those of every other driver of the QPU as well.
QPUTracksItsProcessDriver ==
  \A d \in Drivers :
    /\ Operation[d] = "process" /\ Served(d) /\ toggles = 0
    /\ \A c \in Pipes : hook[c] \in {"none", "up"} /\ c \notin lost
    => qpuStatus[DriverQPU[d]] = "online"

\* findFreePorts: drivers and QPUs "both bind on the same host, so neither may steal
\* the other's port".  The code does not keep it between two drivers: when both connect
\* for the first time they find the same pair free.
PortsAreDistinct ==
  \A d, e \in Drivers : d # e /\ ports[d] = ports[e] => ports[d] = 0
=============================================================================
