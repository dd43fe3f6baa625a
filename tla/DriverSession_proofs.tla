------------------------- MODULE DriverSession_proofs -------------------------
(***************************************************************************)
(* Theorems about DriverSession, for every set of drivers, processes and   *)
(* sessions, every range of ports and every value of the bounds.           *)
(***************************************************************************)
EXTENDS DriverSession, TLAPS

-----------------------------------------------------------------------------
(* Type correctness. *)

HistoryOK ==
  /\ seen \subseteq Drivers /\ withdrawn \subseteq Drivers /\ worked \subseteq QPUs
  /\ toggles \in 0..MaxToggles /\ faults \in 0..MaxFaults

\* A fault, and an act of the administrator, is counted below its bound.
LEMMA Bounded ==
  ASSUME HistoryOK
  PROVE  /\ Fault => faults' \in 0..MaxFaults
         /\ Act => toggles' \in 0..MaxToggles
  BY SessionAssumption DEF HistoryOK, Fault, Act

\* A part of the type invariant whose variables do not change stays true.
LEMMA TypeFrame ==
  ASSUME TypeOK
  PROVE  /\ UNCHANGED <<recordVars, qpuVars>> => RecordsOK'
         /\ UNCHANGED requestVars => RequestsOK'
         /\ UNCHANGED sessionVars => SessionsOK'
         /\ UNCHANGED <<procVars, pipeVars>> => ProcessesOK'
         /\ UNCHANGED <<histVars, boundVars>> => HistoryOK'
<1>1. UNCHANGED <<recordVars, qpuVars>> => RecordsOK'
  BY DEF TypeOK, RecordsOK, recordVars, qpuVars
<1>2. UNCHANGED requestVars => RequestsOK'
  BY DEF TypeOK, RequestsOK, requestVars
<1>3. UNCHANGED sessionVars => SessionsOK'
  BY DEF TypeOK, SessionsOK, sessionVars
<1>4. UNCHANGED <<procVars, pipeVars>> => ProcessesOK'
  BY DEF TypeOK, ProcessesOK, procVars, pipeVars
<1>5. UNCHANGED <<histVars, boundVars>> => HistoryOK'
  BY DEF TypeOK, HistoryOK, histVars, boundVars
<1> QED
  BY <1>1, <1>2, <1>3, <1>4, <1>5

LEMMA TypeParts ==
  TypeOK <=> RecordsOK /\ RequestsOK /\ SessionsOK /\ ProcessesOK /\ HistoryOK
  BY DEF TypeOK, HistoryOK

LEMMA TypeInit == Init => TypeOK
  BY SessionAssumption DEF Init, TypeOK, RecordsOK, RequestsOK, SessionsOK, ProcessesOK

\* The pipe of a hook that is at work has a session, and that a driver.
LEMMA HookedDriver ==
  ASSUME TypeOK, NEW c \in Pipes, hook[c] # "none"
  PROVE  /\ pipe[c] \in Sessions /\ pipe[c] # NoSession
         /\ SessionDriver[pipe[c]] \in Drivers
         /\ DriverQPU[SessionDriver[pipe[c]]] \in QPUs
  BY SessionAssumption DEF TypeOK, ProcessesOK

LEMMA TypeStep == TypeOK /\ [Next]_vars => TypeOK'
<1> SUFFICES ASSUME TypeOK, [Next]_vars PROVE TypeOK'
  OBVIOUS
<1> USE SessionAssumption DEF recordVars, qpuVars, requestVars, sessionVars, procVars,
      pipeVars, histVars, boundVars
<1>1. ASSUME NEW p \in Processes, Connect(p) PROVE TypeOK'
  <2>1. RequestsOK'
    BY <1>1 DEF TypeOK, RequestsOK, RecordsOK, requestVars, Connect, OnItsOwn
  <2>2. ProcessesOK'
    BY <1>1 DEF TypeOK, ProcessesOK, procVars, pipeVars, Connect, OnItsOwn
  <2>3. HistoryOK'
    BY <1>1, Bounded DEF TypeOK, HistoryOK, histVars, boundVars, Connect, OnItsOwn
  <2> QED
    BY <1>1, TypeFrame, <2>1, <2>2, <2>3 DEF TypeOK, HistoryOK, Connect, OnItsOwn
<1>2. ASSUME NEW p \in Processes, Refuse(p) PROVE TypeOK'
  <2>1. RequestsOK'
    BY <1>2 DEF TypeOK, RequestsOK, requestVars, Refuse
  <2>2. ProcessesOK'
    BY <1>2 DEF TypeOK, ProcessesOK, procVars, pipeVars, Refuse
  <2> QED
    BY <1>2, TypeFrame, <2>1, <2>2 DEF TypeOK, HistoryOK, Refuse
<1>3. ASSUME NEW p \in Processes, Admit(p) PROVE TypeOK'
  <2>1. RequestsOK'
    BY <1>3 DEF TypeOK, RequestsOK, requestVars, Admit
  <2> QED
    BY <1>3, TypeFrame, <2>1 DEF TypeOK, HistoryOK, Admit
<1>4. ASSUME NEW p \in Processes, Allocate(p) PROVE TypeOK'
  <2>1. RequestsOK'
    <3>1. CASE snap[p].ports # 0 /\ UNCHANGED snap
      BY <1>4, <3>1 DEF TypeOK, RequestsOK, Allocate
    <3>2. CASE \E k \in Pairs : snap' = [snap EXCEPT ![p].ports = k]
      <4>1. PICK k \in Pairs : snap' = [snap EXCEPT ![p].ports = k]
        BY <3>2
      <4>2. k # 0 /\ handler' = [handler EXCEPT ![p] = "allocated"] /\ UNCHANGED stopping
        BY <1>4 DEF Allocate
      <4> QED
        BY <4>1, <4>2 DEF TypeOK, RequestsOK
    <3>3. \/ snap[p].ports # 0 /\ UNCHANGED snap
          \/ \E k \in Pairs : snap' = [snap EXCEPT ![p].ports = k]
      BY <1>4 DEF Allocate, FreePairs
    <3> QED
      BY <3>1, <3>2, <3>3
  <2> QED
    BY <1>4, TypeFrame, <2>1 DEF TypeOK, HistoryOK, Allocate, FreePairs
<1>5. ASSUME NEW p \in Processes, AllocateFails(p) PROVE TypeOK'
  <2>1. RequestsOK'
    BY <1>5 DEF TypeOK, RequestsOK, requestVars, AllocateFails
  <2>2. ProcessesOK'
    BY <1>5 DEF TypeOK, ProcessesOK, procVars, pipeVars, AllocateFails
  <2>3. HistoryOK'
    BY <1>5, Bounded DEF TypeOK, HistoryOK, histVars, boundVars, AllocateFails
  <2> QED
    BY <1>5, TypeFrame, <2>1, <2>2, <2>3 DEF TypeOK, HistoryOK, AllocateFails
<1>6. ASSUME NEW p \in Processes, SaveDriver(p) PROVE TypeOK'
  <2>1. RecordsOK'
    BY <1>6 DEF TypeOK, RecordsOK, RequestsOK, recordVars, qpuVars, SaveDriver
  <2>2. RequestsOK'
    BY <1>6 DEF TypeOK, RequestsOK, requestVars, SaveDriver
  <2> QED
    BY <1>6, TypeFrame, <2>1, <2>2 DEF TypeOK, HistoryOK, SaveDriver
<1>7. ASSUME NEW p \in Processes, NEW s \in Sessions, StartDistribution(p, s) PROVE TypeOK'
  <2>1. RequestsOK'
    BY <1>7 DEF TypeOK, RequestsOK, requestVars, StartDistribution
  <2>2. SessionsOK'
    <3>1. snap[p].ports \in Pairs \cup {0} /\ snap[p].ports # 0
      BY <1>7 DEF TypeOK, RequestsOK, StartDistribution
    <3>2. CASE UNCHANGED sessionVars
      BY <3>2 DEF TypeOK, SessionsOK
    <3>3. CASE ~UNCHANGED sessionVars
      BY <1>7, <3>1, <3>3 DEF TypeOK, SessionsOK, StartDistribution
    <3> QED
      BY <3>2, <3>3
  <2>3. ProcessesOK'
    BY <1>7 DEF TypeOK, ProcessesOK, RequestsOK, procVars, pipeVars, StartDistribution
  <2> QED
    BY <1>7, TypeFrame, <2>1, <2>2, <2>3 DEF TypeOK, HistoryOK, StartDistribution
<1>8. ASSUME NEW s \in Sessions, BindDispatcher(s) PROVE TypeOK'
  <2>1. SessionsOK'
    BY <1>8 DEF TypeOK, SessionsOK, sessionVars, BindDispatcher
  <2> QED
    BY <1>8, TypeFrame, <2>1 DEF TypeOK, HistoryOK, BindDispatcher
<1>9. ASSUME NEW s \in Sessions, GiveUp(s) PROVE TypeOK'
  <2>1. SessionsOK'
    BY <1>9 DEF TypeOK, SessionsOK, sessionVars, GiveUp
  <2> QED
    BY <1>9, TypeFrame, <2>1 DEF TypeOK, HistoryOK, GiveUp
<1>10. ASSUME NEW s \in Sessions, BindListener(s) PROVE TypeOK'
  <2>1. SessionsOK'
    BY <1>10 DEF TypeOK, SessionsOK, sessionVars, BindListener
  <2> QED
    BY <1>10, TypeFrame, <2>1 DEF TypeOK, HistoryOK, BindListener
<1>11. ASSUME NEW s \in Sessions, CloseDispatcher(s) PROVE TypeOK'
  <2>1. SessionsOK'
    BY <1>11 DEF TypeOK, SessionsOK, sessionVars, CloseDispatcher
  <2>2. ProcessesOK'
    BY <1>11 DEF TypeOK, ProcessesOK, procVars, pipeVars, CloseDispatcher
  <2> QED
    BY <1>11, TypeFrame, <2>1, <2>2 DEF TypeOK, HistoryOK, CloseDispatcher
<1>12. ASSUME NEW s \in Sessions, CloseListener(s) PROVE TypeOK'
  <2>1. SessionsOK'
    BY <1>12 DEF TypeOK, SessionsOK, sessionVars, CloseListener
  <2> QED
    BY <1>12, TypeFrame, <2>1 DEF TypeOK, HistoryOK, CloseListener
<1>13. ASSUME NEW p \in Processes, DialOut(p) PROVE TypeOK'
  <2>1. ProcessesOK'
    BY <1>13 DEF TypeOK, ProcessesOK, procVars, pipeVars, DialOut
  <2> QED
    BY <1>13, TypeFrame, <2>1 DEF TypeOK, HistoryOK, DialOut
<1>14. ASSUME NEW p \in Processes, DialInRefused(p) PROVE TypeOK'
  <2>1. ProcessesOK'
    BY <1>14 DEF TypeOK, ProcessesOK, procVars, pipeVars, DialInRefused
  <2> QED
    BY <1>14, TypeFrame, <2>1 DEF TypeOK, HistoryOK, DialInRefused
<1>15. ASSUME NEW c \in Pipes, NEW s \in Sessions, Attach(c, s) PROVE TypeOK'
  <2>1. ProcessesOK'
    BY <1>15 DEF TypeOK, ProcessesOK, procVars, pipeVars, Attach, PipesOf
  <2> QED
    BY <1>15, TypeFrame, <2>1 DEF TypeOK, HistoryOK, Attach
<1>16. ASSUME NEW c \in Pipes, DriverOnline(c) PROVE TypeOK'
  <2>0. pipe[c] \in Sessions /\ SessionDriver[pipe[c]] \in Drivers
        /\ DriverQPU[SessionDriver[pipe[c]]] \in QPUs /\ NoSession # pipe[c]
    BY <1>16, HookedDriver DEF DriverOnline, MarkDriver
  <2>1. RecordsOK'
    BY <1>16, <2>0 DEF TypeOK, RecordsOK, recordVars, qpuVars, DriverOnline, MarkDriver
  <2>2. ProcessesOK'
    BY <1>16, <2>0 DEF TypeOK, ProcessesOK, procVars, pipeVars, DriverOnline, MarkDriver
  <2>3. HistoryOK'
    BY <1>16, <2>0, Bounded DEF TypeOK, HistoryOK, histVars, boundVars, DriverOnline, MarkDriver
  <2> QED
    BY <1>16, TypeFrame, <2>1, <2>2, <2>3 DEF TypeOK, HistoryOK, DriverOnline, MarkDriver
<1>17. ASSUME NEW c \in Pipes, QPUOnline(c) PROVE TypeOK'
  <2>0. pipe[c] \in Sessions /\ SessionDriver[pipe[c]] \in Drivers
        /\ DriverQPU[SessionDriver[pipe[c]]] \in QPUs /\ NoSession # pipe[c]
    BY <1>17, HookedDriver DEF QPUOnline, MarkQPU
  <2>1. RecordsOK'
    BY <1>17, <2>0 DEF TypeOK, RecordsOK, recordVars, qpuVars, QPUOnline, MarkQPU
  <2>2. ProcessesOK'
    BY <1>17, <2>0 DEF TypeOK, ProcessesOK, procVars, pipeVars, QPUOnline, MarkQPU
  <2> QED
    BY <1>17, TypeFrame, <2>1, <2>2 DEF TypeOK, HistoryOK, QPUOnline, MarkQPU
<1>18. ASSUME NEW c \in Pipes, DriverOffline(c) PROVE TypeOK'
  <2>0. pipe[c] \in Sessions /\ SessionDriver[pipe[c]] \in Drivers
        /\ DriverQPU[SessionDriver[pipe[c]]] \in QPUs /\ NoSession # pipe[c]
    BY <1>18, HookedDriver DEF DriverOffline, MarkDriver
  <2>1. RecordsOK'
    BY <1>18, <2>0 DEF TypeOK, RecordsOK, recordVars, qpuVars, DriverOffline, MarkDriver
  <2>2. ProcessesOK'
    BY <1>18, <2>0 DEF TypeOK, ProcessesOK, procVars, pipeVars, DriverOffline, MarkDriver
  <2>3. HistoryOK'
    BY <1>18, <2>0, Bounded DEF TypeOK, HistoryOK, histVars, boundVars, DriverOffline, MarkDriver
  <2> QED
    BY <1>18, TypeFrame, <2>1, <2>2, <2>3 DEF TypeOK, HistoryOK, DriverOffline, MarkDriver
<1>19. ASSUME NEW c \in Pipes, QPUOffline(c) PROVE TypeOK'
  <2>0. pipe[c] \in Sessions /\ SessionDriver[pipe[c]] \in Drivers
        /\ DriverQPU[SessionDriver[pipe[c]]] \in QPUs /\ NoSession # pipe[c]
    BY <1>19, HookedDriver DEF QPUOffline, MarkQPU
  <2>1. RecordsOK'
    BY <1>19, <2>0 DEF TypeOK, RecordsOK, recordVars, qpuVars, QPUOffline, MarkQPU
  <2>2. ProcessesOK'
    BY <1>19, <2>0 DEF TypeOK, ProcessesOK, procVars, pipeVars, QPUOffline, MarkQPU
  <2> QED
    BY <1>19, TypeFrame, <2>1, <2>2 DEF TypeOK, HistoryOK, QPUOffline, MarkQPU
<1>20. ASSUME NEW c \in Pipes, ReleaseOnDetach(c) PROVE TypeOK'
  <2>0. pipe[c] \in Sessions /\ SessionDriver[pipe[c]] \in Drivers
        /\ DriverQPU[SessionDriver[pipe[c]]] \in QPUs /\ NoSession # pipe[c]
    BY <1>20, HookedDriver DEF ReleaseOnDetach
  <2>1. SessionsOK'
    BY <1>20, <2>0 DEF TypeOK, SessionsOK, sessionVars, ReleaseOnDetach
  <2>2. ProcessesOK'
    BY <1>20, <2>0 DEF TypeOK, ProcessesOK, procVars, pipeVars, ReleaseOnDetach
  <2> QED
    BY <1>20, TypeFrame, <2>1, <2>2 DEF TypeOK, HistoryOK, ReleaseOnDetach
<1>21. ASSUME NEW p \in Processes, ProcessEnds(p) PROVE TypeOK'
  <2>1. ProcessesOK'
    BY <1>21 DEF TypeOK, ProcessesOK, procVars, pipeVars, ProcessEnds, PipesOf
  <2>2. HistoryOK'
    BY <1>21, Bounded DEF TypeOK, HistoryOK, histVars, boundVars, ProcessEnds
  <2> QED
    BY <1>21, TypeFrame, <2>1, <2>2 DEF TypeOK, HistoryOK, ProcessEnds
<1>22. ASSUME NEW d \in Drivers, Disable(d) PROVE TypeOK'
  <2>1. RecordsOK'
    BY <1>22 DEF TypeOK, RecordsOK, recordVars, qpuVars, Disable
  <2>2. RequestsOK'
    BY <1>22 DEF TypeOK, RequestsOK, requestVars, Disable
  <2>3. HistoryOK'
    BY <1>22, Bounded DEF TypeOK, HistoryOK, histVars, boundVars, Disable
  <2> QED
    BY <1>22, TypeFrame, <2>1, <2>2, <2>3 DEF TypeOK, HistoryOK, Disable
<1>23. ASSUME NEW d \in Drivers, Enable(d) PROVE TypeOK'
  <2>1. RecordsOK'
    BY <1>23 DEF TypeOK, RecordsOK, recordVars, qpuVars, Enable
  <2>2. HistoryOK'
    BY <1>23, Bounded DEF TypeOK, HistoryOK, histVars, boundVars, Enable
  <2> QED
    BY <1>23, TypeFrame, <2>1, <2>2 DEF TypeOK, HistoryOK, Enable
<1>24. ASSUME NEW d \in Drivers, Delete(d) PROVE TypeOK'
  <2>1. RecordsOK'
    BY <1>24 DEF TypeOK, RecordsOK, recordVars, qpuVars, Delete
  <2>2. RequestsOK'
    BY <1>24 DEF TypeOK, RequestsOK, requestVars, Delete
  <2>3. HistoryOK'
    BY <1>24, Bounded DEF TypeOK, HistoryOK, histVars, boundVars, Delete
  <2> QED
    BY <1>24, TypeFrame, <2>1, <2>2, <2>3 DEF TypeOK, HistoryOK, Delete
<1>25. ASSUME NEW d \in Drivers, Stop(d) PROVE TypeOK'
  <2>1. RequestsOK'
    BY <1>25 DEF TypeOK, RequestsOK, requestVars, Stop
  <2>2. SessionsOK'
    BY <1>25 DEF TypeOK, SessionsOK, sessionVars, Stop
  <2> QED
    BY <1>25, TypeFrame, <2>1, <2>2 DEF TypeOK, HistoryOK, Stop
<1>26. ASSUME NEW q \in QPUs, ToggleQPU(q) PROVE TypeOK'
  <2>1. RecordsOK'
    BY <1>26 DEF TypeOK, RecordsOK, recordVars, qpuVars, ToggleQPU, ConnectedQpuStatus
  <2>2. HistoryOK'
    BY <1>26, Bounded DEF TypeOK, HistoryOK, histVars, boundVars, ToggleQPU, ConnectedQpuStatus
  <2> QED
    BY <1>26, TypeFrame, <2>1, <2>2 DEF TypeOK, HistoryOK, ToggleQPU, ConnectedQpuStatus
<1>27. ASSUME NEW q \in QPUs, BeginMaintenance(q) PROVE TypeOK'
  <2>1. RecordsOK'
    BY <1>27 DEF TypeOK, RecordsOK, recordVars, qpuVars, BeginMaintenance
  <2>2. HistoryOK'
    BY <1>27, Bounded DEF TypeOK, HistoryOK, histVars, boundVars, BeginMaintenance
  <2> QED
    BY <1>27, TypeFrame, <2>1, <2>2 DEF TypeOK, HistoryOK, BeginMaintenance
<1>28. ASSUME NEW q \in QPUs, EndMaintenance(q) PROVE TypeOK'
  <2>1. RecordsOK'
    BY <1>28 DEF TypeOK, RecordsOK, recordVars, qpuVars, EndMaintenance, ConnectedQpuStatus
  <2>2. HistoryOK'
    BY <1>28, Bounded DEF TypeOK, HistoryOK, histVars, boundVars, EndMaintenance, ConnectedQpuStatus
  <2> QED
    BY <1>28, TypeFrame, <2>1, <2>2 DEF TypeOK, HistoryOK, EndMaintenance, ConnectedQpuStatus
<1>29. ASSUME NEW p \in Processes, AdmitUnknown(p) PROVE TypeOK'
  <2>1. RequestsOK'
    BY <1>29 DEF TypeOK, RequestsOK, requestVars, AdmitUnknown
  <2>2. HistoryOK'
    BY <1>29, Bounded DEF TypeOK, HistoryOK, histVars, boundVars, AdmitUnknown
  <2> QED
    BY <1>29, TypeFrame, <2>1, <2>2 DEF TypeOK, HistoryOK, AdmitUnknown
<1>30. ASSUME NEW c \in Pipes, LinkBreaks(c) PROVE TypeOK'
  <2>1. ProcessesOK'
    BY <1>30 DEF TypeOK, ProcessesOK, procVars, pipeVars, LinkBreaks
  <2>2. HistoryOK'
    BY <1>30, Bounded DEF TypeOK, HistoryOK, histVars, boundVars, LinkBreaks
  <2> QED
    BY <1>30, TypeFrame, <2>1, <2>2 DEF TypeOK, HistoryOK, LinkBreaks
<1>31. CASE ServerRestart
  <2>1. RecordsOK'
    BY <1>31 DEF TypeOK, RecordsOK, recordVars, qpuVars, ServerRestart, AllOffline
  <2>2. RequestsOK'
    BY <1>31 DEF TypeOK, RequestsOK, requestVars, ServerRestart, AllOffline
  <2>3. SessionsOK'
    BY <1>31 DEF TypeOK, SessionsOK, sessionVars, ServerRestart, AllOffline
  <2>4. ProcessesOK'
    BY <1>31 DEF TypeOK, ProcessesOK, procVars, pipeVars, ServerRestart, AllOffline
  <2>5. HistoryOK'
    BY <1>31, Bounded DEF TypeOK, HistoryOK, histVars, boundVars, ServerRestart, AllOffline
  <2> QED
    BY <1>31, TypeFrame, <2>1, <2>2, <2>3, <2>4, <2>5 DEF TypeOK, HistoryOK, ServerRestart, AllOffline
<1>32. CASE UNCHANGED vars
  BY <1>32, TypeFrame DEF TypeOK, HistoryOK, vars
<1> QED
  BY <1>1, <1>2, <1>3, <1>4, <1>5, <1>6, <1>7, <1>8, <1>9, <1>10, <1>11, <1>12, <1>13, <1>14, <1>15, <1>16, <1>17, <1>18, <1>19, <1>20, <1>21, <1>22, <1>23, <1>24, <1>25, <1>26, <1>27, <1>28, <1>29, <1>30, <1>31, <1>32 DEF Next

\* Every reachable state is well typed: a pipe has a session from its attach to the
\* end of its detach hook, a handler has ports from their allocation on, and a lease
\* is held by a session of its own driver.
THEOREM TypeCorrect == Spec => []TypeOK
  BY TypeInit, TypeStep, PTL DEF Spec

-----------------------------------------------------------------------------
(* A lease is never left behind. *)

LEMMA LeaseInit == Init => LeaseIsServed
  BY SessionAssumption DEF Init, LeaseIsServed, Leased

LEMMA LeaseStep == TypeOK /\ LeaseIsServed /\ [Next]_vars => LeaseIsServed'
<1> SUFFICES ASSUME TypeOK, LeaseIsServed, [Next]_vars PROVE LeaseIsServed'
  OBVIOUS
<1> USE DEF LeaseIsServed, Leased
<1>1. CASE UNCHANGED <<lease, disp>>
  BY <1>1
<1>2. ASSUME NEW p \in Processes, NEW s \in Sessions, StartDistribution(p, s)
      PROVE  LeaseIsServed'
  BY <1>2, SessionAssumption DEF StartDistribution, TypeOK, SessionsOK, sessionVars
<1>3. ASSUME NEW s \in Sessions, BindDispatcher(s) \/ GiveUp(s) \/ CloseDispatcher(s)
      PROVE  LeaseIsServed'
  BY <1>3, SessionAssumption DEF BindDispatcher, GiveUp, CloseDispatcher, TypeOK, SessionsOK
<1>4. ASSUME NEW c \in Pipes, ReleaseOnDetach(c) PROVE LeaseIsServed'
  BY <1>4, HookedDriver, SessionAssumption DEF ReleaseOnDetach, TypeOK, SessionsOK
<1>5. ASSUME NEW d \in Drivers, Stop(d) PROVE LeaseIsServed'
  BY <1>5, SessionAssumption DEF Stop, TypeOK, SessionsOK
<1>6. CASE ServerRestart
  BY <1>6, SessionAssumption DEF ServerRestart
<1>7. ASSUME NEW p \in Processes,
             \/ Connect(p) \/ Refuse(p) \/ Admit(p) \/ AdmitUnknown(p) \/ Allocate(p)
             \/ AllocateFails(p) \/ SaveDriver(p) \/ DialOut(p) \/ DialInRefused(p)
             \/ ProcessEnds(p)
      PROVE  UNCHANGED <<lease, disp>>
  BY <1>7 DEF Connect, Refuse, Admit, AdmitUnknown, Allocate, AllocateFails, SaveDriver, DialOut,
     DialInRefused, ProcessEnds, sessionVars
<1>8. ASSUME NEW c \in Pipes,
              \/ DriverOnline(c) \/ QPUOnline(c) \/ DriverOffline(c) \/ QPUOffline(c)
              \/ LinkBreaks(c) \/ \E s \in Sessions : Attach(c, s)
       PROVE  UNCHANGED <<lease, disp>>
  BY <1>8 DEF DriverOnline, QPUOnline, DriverOffline, QPUOffline, MarkDriver, MarkQPU, LinkBreaks,
     Attach, sessionVars
<1>9. ASSUME NEW s \in Sessions, BindListener(s) \/ CloseListener(s)
      PROVE  UNCHANGED <<lease, disp>>
  BY <1>9 DEF BindListener, CloseListener
<1>10. ASSUME NEW d \in Drivers, Disable(d) \/ Enable(d) \/ Delete(d)
      PROVE  UNCHANGED <<lease, disp>>
  BY <1>10 DEF Disable, Enable, Delete, sessionVars
<1>11. ASSUME NEW q \in QPUs, ToggleQPU(q) \/ BeginMaintenance(q) \/ EndMaintenance(q)
       PROVE  UNCHANGED <<lease, disp>>
  BY <1>11 DEF ToggleQPU, BeginMaintenance, EndMaintenance, sessionVars
<1>12. CASE UNCHANGED vars
  BY <1>12 DEF vars, sessionVars
<1> QED
  BY <1>1, <1>2, <1>3, <1>4, <1>5, <1>6, <1>7, <1>8, <1>9, <1>10, <1>11, <1>12 DEF Next

\* A driver is treated as served only while a goroutine of that very lease listens or
\* is about to, for any number of sessions that follow and overlap each other.
THEOREM LeaseIsServedHolds == Spec => []LeaseIsServed
  BY TypeInit, TypeStep, LeaseInit, LeaseStep, PTL DEF Spec

-----------------------------------------------------------------------------
(* `online` is of this run of the server. *)

\* No record says more than this run of the server has seen, and no connect request
\* that has yet to save its record read more.
OnlineInv ==
  /\ \A d \in Drivers : status[d] = "online" => d \in seen
  /\ \A p \in Processes :
       handler[p] \in {"read", "admitted", "allocated"} /\ snap[p].status = "online"
         => DriverOf[p] \in seen

LEMMA OnlineInit == Init => OnlineInv
  BY DEF Init, OnlineInv

LEMMA OnlineStep == TypeOK /\ OnlineInv /\ [Next]_vars => OnlineInv'
<1> SUFFICES ASSUME TypeOK, OnlineInv, [Next]_vars PROVE OnlineInv'
  OBVIOUS
<1> USE DEF OnlineInv
<1>1. CASE UNCHANGED <<status, seen, handler, snap>>
  BY <1>1
<1>2. ASSUME NEW p \in Processes, Connect(p) PROVE OnlineInv'
  BY <1>2, SessionAssumption
     DEF Connect, recordVars, histVars, TypeOK, RecordsOK, RequestsOK
<1>3. ASSUME NEW p \in Processes,
             \/ Refuse(p) \/ Admit(p) \/ AdmitUnknown(p) \/ AllocateFails(p)
             \/ \E s \in Sessions : StartDistribution(p, s)
      PROVE  OnlineInv'
  BY <1>3 DEF Refuse, Admit, AdmitUnknown, AllocateFails, StartDistribution, recordVars, histVars, TypeOK,
     RequestsOK
<1>4. ASSUME NEW p \in Processes, Allocate(p) PROVE OnlineInv'
  BY <1>4 DEF Allocate, recordVars, histVars, TypeOK, RequestsOK
<1>5. ASSUME NEW p \in Processes, SaveDriver(p) PROVE OnlineInv'
  BY <1>5, SessionAssumption DEF SaveDriver, histVars, TypeOK, RecordsOK, RequestsOK
<1>6. ASSUME NEW c \in Pipes, DriverOnline(c) \/ DriverOffline(c) PROVE OnlineInv'
  BY <1>6, HookedDriver
     DEF DriverOnline, DriverOffline, MarkDriver, requestVars, TypeOK, RecordsOK
<1>7. ASSUME NEW d \in Drivers, Disable(d) PROVE OnlineInv'
  BY <1>7 DEF Disable, TypeOK, RecordsOK
<1>8. CASE ServerRestart
  BY <1>8 DEF ServerRestart, AllOffline
<1>9. ASSUME NEW p \in Processes, DialOut(p) \/ DialInRefused(p) \/ ProcessEnds(p)
      PROVE  UNCHANGED <<status, seen, handler, snap>>
  BY <1>9 DEF DialOut, DialInRefused, ProcessEnds, recordVars, requestVars, histVars
<1>10. ASSUME NEW c \in Pipes,
              \/ QPUOnline(c) \/ QPUOffline(c) \/ ReleaseOnDetach(c) \/ LinkBreaks(c)
              \/ \E s \in Sessions : Attach(c, s)
       PROVE  UNCHANGED <<status, seen, handler, snap>>
  BY <1>10 DEF QPUOnline, QPUOffline, MarkQPU, ReleaseOnDetach, LinkBreaks, Attach, recordVars,
     requestVars, histVars
<1>11. ASSUME NEW s \in Sessions,
              \/ BindDispatcher(s) \/ GiveUp(s) \/ BindListener(s)
              \/ CloseDispatcher(s) \/ CloseListener(s)
       PROVE  UNCHANGED <<status, seen, handler, snap>>
  BY <1>11 DEF BindDispatcher, GiveUp, BindListener, CloseDispatcher, CloseListener, recordVars,
     requestVars, histVars
<1>12. ASSUME NEW d \in Drivers, Enable(d) \/ Delete(d) \/ Stop(d)
       PROVE  UNCHANGED <<status, seen, handler, snap>>
  BY <1>12 DEF Enable, Delete, Stop, recordVars, requestVars, histVars
<1>13. ASSUME NEW q \in QPUs, ToggleQPU(q) \/ BeginMaintenance(q) \/ EndMaintenance(q)
       PROVE  UNCHANGED <<status, seen, handler, snap>>
  BY <1>13 DEF ToggleQPU, BeginMaintenance, EndMaintenance, recordVars, requestVars
<1>14. CASE UNCHANGED vars
  BY <1>14 DEF vars, recordVars, requestVars, histVars
<1> QED
  BY <1>1, <1>2, <1>3, <1>4, <1>5, <1>6, <1>7, <1>8, <1>9, <1>10, <1>11, <1>12, <1>13,
     <1>14 DEF Next

\* A record that reads `online` is of a driver that attached since the server's last
\* start, although a connect request writes back a status it read long before.
THEOREM OnlineIsThisServersHolds == Spec => []OnlineIsThisServers
<1>1. OnlineInv => OnlineIsThisServers
  BY DEF OnlineInv, OnlineIsThisServers
<1> QED
  BY <1>1, TypeInit, TypeStep, OnlineInit, OnlineStep, PTL DEF Spec

-----------------------------------------------------------------------------
(* A withdrawn driver stays released. *)

\* ... since no request that could enable or serve it again is under way or begins.
WithdrawnInv ==
  /\ WithdrawnIsReleased
  /\ \A d \in withdrawn : ~ConnectingTo(d)

LEMMA WithdrawnInit == Init => WithdrawnInv
  BY DEF Init, WithdrawnInv, WithdrawnIsReleased

LEMMA WithdrawnStep == TypeOK /\ WithdrawnInv /\ [Next]_vars => WithdrawnInv'
<1> SUFFICES ASSUME TypeOK, WithdrawnInv, [Next]_vars PROVE WithdrawnInv'
  OBVIOUS
<1> USE DEF WithdrawnInv, WithdrawnIsReleased, ConnectingTo
<1>1. CASE UNCHANGED <<withdrawn, record, enabled, stopping, lease, handler>>
  BY <1>1
<1>2. ASSUME NEW p \in Processes, Connect(p) PROVE WithdrawnInv'
  BY <1>2 DEF Connect, recordVars, sessionVars, histVars, TypeOK, RequestsOK
<1>3. ASSUME NEW p \in Processes,
             Refuse(p) \/ Admit(p) \/ AdmitUnknown(p) \/ Allocate(p) \/ AllocateFails(p)
      PROVE  WithdrawnInv'
  BY <1>3 DEF Refuse, Admit, AdmitUnknown, Allocate, AllocateFails, recordVars, sessionVars, histVars, TypeOK,
     RequestsOK
<1>4. ASSUME NEW p \in Processes, SaveDriver(p) PROVE WithdrawnInv'
  BY <1>4, SessionAssumption
     DEF SaveDriver, sessionVars, histVars, TypeOK, RecordsOK, RequestsOK
<1>5. ASSUME NEW p \in Processes, NEW s \in Sessions, StartDistribution(p, s)
      PROVE  WithdrawnInv'
  BY <1>5, SessionAssumption
     DEF StartDistribution, recordVars, sessionVars, histVars, TypeOK, RequestsOK, SessionsOK
<1>6. ASSUME NEW s \in Sessions, GiveUp(s) PROVE WithdrawnInv'
  BY <1>6, SessionAssumption
     DEF GiveUp, recordVars, requestVars, histVars, TypeOK, SessionsOK
<1>7. ASSUME NEW c \in Pipes, ReleaseOnDetach(c) PROVE WithdrawnInv'
  BY <1>7, HookedDriver
     DEF ReleaseOnDetach, recordVars, requestVars, histVars, TypeOK, SessionsOK
<1>8. ASSUME NEW d \in Drivers, Disable(d) PROVE WithdrawnInv'
  BY <1>8 DEF Disable, sessionVars, TypeOK, RecordsOK, RequestsOK
<1>9. ASSUME NEW d \in Drivers, Enable(d) PROVE WithdrawnInv'
  BY <1>9 DEF Enable, requestVars, sessionVars, TypeOK, RecordsOK
<1>10. ASSUME NEW d \in Drivers, Delete(d) PROVE WithdrawnInv'
  BY <1>10 DEF Delete, sessionVars, TypeOK, RecordsOK, RequestsOK
<1>11. ASSUME NEW d \in Drivers, Stop(d) PROVE WithdrawnInv'
  BY <1>11 DEF Stop, recordVars, histVars, TypeOK, SessionsOK
<1>12. CASE ServerRestart
  BY <1>12 DEF ServerRestart, TypeOK
<1>13. ASSUME NEW p \in Processes, DialOut(p) \/ DialInRefused(p) \/ ProcessEnds(p)
       PROVE  UNCHANGED <<withdrawn, record, enabled, stopping, lease, handler>>
  BY <1>13 DEF DialOut, DialInRefused, ProcessEnds, recordVars, requestVars, sessionVars, histVars
<1>14. ASSUME NEW c \in Pipes,
              \/ DriverOnline(c) \/ QPUOnline(c) \/ DriverOffline(c) \/ QPUOffline(c)
              \/ LinkBreaks(c) \/ \E s \in Sessions : Attach(c, s)
       PROVE  UNCHANGED <<withdrawn, record, enabled, stopping, lease, handler>>
  BY <1>14 DEF DriverOnline, QPUOnline, DriverOffline, QPUOffline, MarkDriver, MarkQPU, LinkBreaks,
     Attach, recordVars, requestVars, sessionVars, histVars
<1>15. ASSUME NEW s \in Sessions,
              BindDispatcher(s) \/ BindListener(s) \/ CloseDispatcher(s) \/ CloseListener(s)
       PROVE  UNCHANGED <<withdrawn, record, enabled, stopping, lease, handler>>
  BY <1>15 DEF BindDispatcher, BindListener, CloseDispatcher, CloseListener, recordVars,
     requestVars, histVars
<1>16. ASSUME NEW q \in QPUs, ToggleQPU(q) \/ BeginMaintenance(q) \/ EndMaintenance(q)
       PROVE  UNCHANGED <<withdrawn, record, enabled, stopping, lease, handler>>
  BY <1>16 DEF ToggleQPU, BeginMaintenance, EndMaintenance, recordVars, requestVars, sessionVars
<1>17. CASE UNCHANGED vars
  BY <1>17 DEF vars, recordVars, requestVars, sessionVars, histVars
<1> QED
  BY <1>1, <1>2, <1>3, <1>4, <1>5, <1>6, <1>7, <1>8, <1>9, <1>10, <1>11, <1>12, <1>13, <1>14,
     <1>15, <1>16, <1>17 DEF Next

\* A driver disabled or deleted while nobody was connecting stays so and is not served
\* after its release, whatever old hooks and processes that keep dialling do.
THEOREM WithdrawnIsReleasedHolds == Spec => []WithdrawnIsReleased
<1>1. WithdrawnInv => WithdrawnIsReleased
  BY DEF WithdrawnInv
<1> QED
  BY <1>1, TypeInit, TypeStep, WithdrawnInit, WithdrawnStep, PTL DEF Spec

-----------------------------------------------------------------------------
(* A live peer is found. *)

\* A process whose request is under way is not connected, and one that is not
\* connected has lost its pipes.
RequestInv ==
  \A p \in Processes :
    /\ handler[p] # "none" => proc[p] \in {"waiting", "down"}
    /\ proc[p] # "running" => \A c \in PipesOf(p) : pipe[c] # NoSession => c \in lost

\* The only pipe of a driver's only process is marked, it is of the session in force,
\* and nothing is about to take that away: then the record says so.
Claimed(c) ==
  LET e == DriverOf[PipeOf[c]] IN
  hook[c] \in {"mirror online", "up"} /\ c \notin lost /\ pipe[c] = lease[e]
    /\ record[e] = "there" /\ e \notin stopping /\ OneProcessOf(e) /\ OnlyPipe(e, c)
    => status[e] = "online"

PeerInv == RequestInv /\ \A c \in Pipes : Claimed(c)

LEMMA RequestInit == Init => RequestInv
  BY DEF Init, RequestInv, PipesOf

LEMMA RequestStep == TypeOK /\ RequestInv /\ [Next]_vars => RequestInv'
<1> SUFFICES ASSUME TypeOK, RequestInv, [Next]_vars PROVE RequestInv'
  OBVIOUS
<1> USE DEF RequestInv, PipesOf
<1>1. CASE UNCHANGED <<handler, proc, pipe, lost>>
  BY <1>1
<1>2. ASSUME NEW p \in Processes, Connect(p) PROVE RequestInv'
  BY <1>2 DEF Connect, pipeVars, TypeOK, RequestsOK, ProcessesOK
<1>3. ASSUME NEW p \in Processes, Refuse(p) \/ AllocateFails(p) PROVE RequestInv'
  <2>1. /\ handler[p] # "none" /\ handler' = [handler EXCEPT ![p] = "none"]
        /\ proc' = [proc EXCEPT ![p] = "down"]
        /\ UNCHANGED <<pipe, lost>>
    BY <1>3 DEF Refuse, AllocateFails, pipeVars
  <2>2. proc[p] # "running"
    BY <2>1
  <2> QED
    BY <2>1, <2>2 DEF TypeOK, RequestsOK, ProcessesOK
<1>4. ASSUME NEW p \in Processes, Admit(p) \/ AdmitUnknown(p) \/ SaveDriver(p) PROVE RequestInv'
  BY <1>4 DEF Admit, AdmitUnknown, SaveDriver, procVars, pipeVars, TypeOK, RequestsOK
<1>5. ASSUME NEW p \in Processes, Allocate(p) PROVE RequestInv'
  <2>1. /\ handler[p] = "admitted" /\ handler' = [handler EXCEPT ![p] = "allocated"]
        /\ UNCHANGED <<proc, pipe, lost>>
    BY <1>5 DEF Allocate, procVars, pipeVars
  <2> QED
    BY <2>1 DEF TypeOK, RequestsOK
<1>6. ASSUME NEW p \in Processes, NEW s \in Sessions, StartDistribution(p, s)
       PROVE  RequestInv'
  BY <1>6 DEF StartDistribution, pipeVars, TypeOK, RequestsOK, ProcessesOK
<1>7. ASSUME NEW p \in Processes, DialOut(p) \/ DialInRefused(p) PROVE RequestInv'
  BY <1>7 DEF DialOut, DialInRefused, requestVars, pipeVars, TypeOK, ProcessesOK
<1>8. ASSUME NEW p \in Processes, ProcessEnds(p) PROVE RequestInv'
  BY <1>8 DEF ProcessEnds, requestVars, TypeOK, ProcessesOK
<1>9. ASSUME NEW c \in Pipes, NEW s \in Sessions, Attach(c, s) PROVE RequestInv'
  <2>1. /\ proc[PipeOf[c]] \in {"dialled", "running"}
        /\ proc' = [proc EXCEPT ![PipeOf[c]] = "running"]
        /\ pipe' = [pipe EXCEPT ![c] = s]
        /\ UNCHANGED <<handler, lost>>
    BY <1>9 DEF Attach, requestVars
  <2> QED
    BY <2>1 DEF TypeOK, ProcessesOK
<1>10. ASSUME NEW c \in Pipes, ReleaseOnDetach(c) PROVE RequestInv'
  BY <1>10 DEF ReleaseOnDetach, requestVars, procVars, TypeOK, ProcessesOK
<1>11. ASSUME NEW c \in Pipes, LinkBreaks(c) PROVE RequestInv'
  BY <1>11 DEF LinkBreaks, requestVars, procVars
<1>12. ASSUME NEW s \in Sessions, CloseDispatcher(s) PROVE RequestInv'
  BY <1>12 DEF CloseDispatcher, requestVars, procVars
<1>13. CASE ServerRestart
  BY <1>13 DEF ServerRestart
<1>14. ASSUME NEW c \in Pipes,
              DriverOnline(c) \/ QPUOnline(c) \/ DriverOffline(c) \/ QPUOffline(c)
       PROVE  UNCHANGED <<handler, proc, pipe, lost>>
  BY <1>14 DEF DriverOnline, QPUOnline, DriverOffline, QPUOffline, MarkDriver, MarkQPU,
     requestVars, procVars
<1>15. ASSUME NEW s \in Sessions,
              BindDispatcher(s) \/ GiveUp(s) \/ BindListener(s) \/ CloseListener(s)
       PROVE  UNCHANGED <<handler, proc, pipe, lost>>
  BY <1>15 DEF BindDispatcher, GiveUp, BindListener, CloseListener, requestVars, procVars, pipeVars
<1>16. ASSUME NEW d \in Drivers, Disable(d) \/ Enable(d) \/ Delete(d) \/ Stop(d)
       PROVE  UNCHANGED <<handler, proc, pipe, lost>>
  BY <1>16 DEF Disable, Enable, Delete, Stop, requestVars, procVars, pipeVars
<1>17. ASSUME NEW q \in QPUs, ToggleQPU(q) \/ BeginMaintenance(q) \/ EndMaintenance(q)
       PROVE  UNCHANGED <<handler, proc, pipe, lost>>
  BY <1>17 DEF ToggleQPU, BeginMaintenance, EndMaintenance, requestVars, procVars, pipeVars
<1>18. CASE UNCHANGED vars
  BY <1>18 DEF vars, requestVars, procVars, pipeVars
<1> QED
  BY <1>1, <1>2, <1>3, <1>4, <1>5, <1>6, <1>7, <1>8, <1>9, <1>10, <1>11, <1>12, <1>13, <1>14,
     <1>15, <1>16, <1>17, <1>18 DEF Next

LEMMA ClaimedInit == Init => \A c \in Pipes : Claimed(c)
  BY DEF Init, Claimed

\* What writes a record, gives a lease or ends a pipe leaves the claim of another
\* driver's pipe alone, and that of its own driver's true or without its premises.
LEMMA ClaimedStep ==
  ASSUME TypeOK, RequestInv, [Next]_vars, NEW c \in Pipes, Claimed(c)
  PROVE  Claimed(c)'
<1> DEFINE e == DriverOf[PipeOf[c]]
<1>0. e \in Drivers /\ PipeOf[c] \in Processes
  BY SessionAssumption
<1> SUFFICES ASSUME hook'[c] \in {"mirror online", "up"}, c \notin lost', pipe'[c] = lease'[e],
                    record'[e] = "there", e \notin stopping', OneProcessOf(e), OnlyPipe(e, c)'
             PROVE  status'[e] = "online"
  BY DEF Claimed, OneProcessOf
<1>own. /\ \A o, r \in Processes : DriverOf[o] = e /\ DriverOf[r] = e => o = r
        /\ \A o \in Pipes : pipe'[o] # NoSession /\ SessionDriver[pipe'[o]] = e => o = c
  BY DEF OneProcessOf, OnlyPipe
<1>was. ASSUME hook[c] \in {"mirror online", "up"}, c \notin lost, pipe[c] = lease[e],
               record[e] = "there", e \notin stopping,
               \A o \in Pipes : pipe[o] # NoSession /\ SessionDriver[pipe[o]] = e => o = c
        PROVE  status[e] = "online"
  BY <1>was DEF Claimed, OnlyPipe
<1> HIDE DEF e
<1>1. CASE UNCHANGED <<hook, pipe, lease, record, stopping, status>> /\ lost \subseteq lost'
  BY <1>1, <1>own, <1>was
<1>2. ASSUME NEW o \in Processes,
             \/ Connect(o) \/ Refuse(o) \/ Admit(o) \/ AdmitUnknown(o) \/ Allocate(o)
             \/ AllocateFails(o) \/ DialOut(o) \/ DialInRefused(o) \/ ProcessEnds(o)
      PROVE  UNCHANGED <<hook, pipe, lease, record, stopping, status>> /\ lost \subseteq lost'
  BY <1>2 DEF Connect, Refuse, Admit, AdmitUnknown, Allocate, AllocateFails, DialOut, DialInRefused,
     ProcessEnds, recordVars, requestVars, sessionVars, pipeVars
<1>3. ASSUME NEW o \in Processes, SaveDriver(o) PROVE status'[e] = "online"
  <2>1. /\ handler[o] # "none"
        /\ UNCHANGED <<hook, pipe, lost, lease, stopping>>
    BY <1>3 DEF SaveDriver, sessionVars, pipeVars
  <2>2. pipe[c] # NoSession
    BY <2>1 DEF TypeOK, ProcessesOK
  <2>3. o # PipeOf[c]
    BY <2>1, <2>2 DEF RequestInv, PipesOf
  <2>4. DriverOf[o] # e
    BY <2>3, <1>0, <1>own DEF e
  <2>5. status'[e] = status[e] /\ record'[e] = record[e]
    BY <1>3, <2>4, <1>0, SessionAssumption DEF SaveDriver, TypeOK, RecordsOK
  <2> QED
    BY <2>1, <2>5, <1>own, <1>was
<1>4. ASSUME NEW o \in Processes, NEW s \in Sessions, StartDistribution(o, s)
      PROVE  status'[e] = "online"
  <2>1. UNCHANGED <<hook, pipe, lost, record, stopping, status>>
    BY <1>4 DEF StartDistribution, pipeVars, recordVars
  <2>2. pipe[c] # NoSession /\ pipe[c] \in Sessions
    BY <2>1 DEF TypeOK, ProcessesOK
  <2>3. lease'[e] = lease[e]
    <3>1. CASE UNCHANGED sessionVars
      BY <3>1 DEF sessionVars
    <3>2. CASE lease' = [lease EXCEPT ![DriverOf[o]] = s] /\ Free(s)
      BY <3>2, <2>1, <1>0 DEF Free, TypeOK, SessionsOK
    <3> QED
      BY <1>4, <3>1, <3>2 DEF StartDistribution
  <2> QED
    BY <2>1, <2>3, <1>own, <1>was
<1>5. ASSUME NEW s \in Sessions,
             \/ BindDispatcher(s) \/ BindListener(s) \/ CloseDispatcher(s) \/ CloseListener(s)
      PROVE  UNCHANGED <<hook, pipe, lease, record, stopping, status>> /\ lost \subseteq lost'
  BY <1>5 DEF BindDispatcher, BindListener, CloseDispatcher, CloseListener, recordVars,
     requestVars, pipeVars
<1>6. ASSUME NEW s \in Sessions, GiveUp(s) PROVE status'[e] = "online"
  <2>1. UNCHANGED <<hook, pipe, lost, record, stopping, status>>
    BY <1>6 DEF GiveUp, pipeVars, recordVars, requestVars
  <2>2. pipe[c] # NoSession
    BY <2>1 DEF TypeOK, ProcessesOK
  <2>3. lease'[e] = lease[e]
    BY <1>6, <2>1, <2>2, <1>0 DEF GiveUp, TypeOK, SessionsOK
  <2> QED
    BY <2>1, <2>3, <1>own, <1>was
<1>7. ASSUME NEW o \in Pipes, NEW s \in Sessions, Attach(o, s) PROVE status'[e] = "online"
  <2>0. /\ hook[o] = "none" /\ hook' = [hook EXCEPT ![o] = "attached"]
        /\ pipe' = [pipe EXCEPT ![o] = s]
        /\ UNCHANGED <<lost, lease, record, stopping, status>>
    BY <1>7 DEF Attach, sessionVars, recordVars, requestVars
  <2>1. o # c /\ hook'[c] = hook[c] /\ pipe'[c] = pipe[c]
    BY <2>0 DEF TypeOK, ProcessesOK
  <2>2. \A r \in Pipes : pipe[r] # NoSession => pipe'[r] = pipe[r]
    BY <2>0 DEF TypeOK, ProcessesOK
  <2> QED
    BY <2>0, <2>1, <2>2, <1>own, <1>was
<1>8. ASSUME NEW o \in Pipes, DriverOnline(o) PROVE status'[e] = "online"
  <2>1. UNCHANGED <<pipe, lost, lease, record, stopping>>
    BY <1>8 DEF DriverOnline, MarkDriver, sessionVars, requestVars
  <2>2. CASE SessionDriver[pipe[o]] = e
    BY <1>8, <1>0, <2>1, <2>2 DEF DriverOnline, MarkDriver, TypeOK, RecordsOK
  <2>3. CASE SessionDriver[pipe[o]] # e
    <3>1. status'[e] = status[e]
      BY <1>8, <1>0, <2>3 DEF DriverOnline, MarkDriver, TypeOK, RecordsOK
    <3>2. SessionDriver[pipe[c]] = e
      <4>1. hook[c] # "none"
        BY <1>8 DEF DriverOnline, MarkDriver, TypeOK, ProcessesOK
      <4>2. pipe[c] = lease[e] /\ pipe[c] # NoSession
        BY <4>1, <2>1 DEF TypeOK, ProcessesOK
      <4> QED
        BY <4>2, <1>0 DEF TypeOK, SessionsOK
    <3>3. hook'[c] = hook[c]
      BY <1>8, <2>3, <3>2 DEF DriverOnline, MarkDriver, TypeOK, ProcessesOK
    <3> QED
      BY <2>1, <3>1, <3>3, <1>own, <1>was
  <2> QED
    BY <2>2, <2>3
<1>9. ASSUME NEW o \in Pipes, DriverOffline(o) PROVE status'[e] = "online"
  <2>1. UNCHANGED <<pipe, lost, lease, record, stopping>>
    BY <1>9 DEF DriverOffline, MarkDriver, sessionVars, requestVars
  <2>2. pipe[o] # NoSession
    BY <1>9 DEF DriverOffline, MarkDriver, TypeOK, ProcessesOK
  <2>3. o # c
    BY <1>9 DEF DriverOffline, MarkDriver, TypeOK, ProcessesOK
  <2>4. SessionDriver[pipe[o]] # e
    BY <2>1, <2>2, <2>3, <1>own
  <2>5. status'[e] = status[e] /\ hook'[c] = hook[c]
    BY <1>9, <1>0, <2>3, <2>4 DEF DriverOffline, MarkDriver, TypeOK, RecordsOK, ProcessesOK
  <2> QED
    BY <2>1, <2>5, <1>own, <1>was
<1>10. ASSUME NEW o \in Pipes, QPUOnline(o) \/ QPUOffline(o) PROVE status'[e] = "online"
  <2>1. UNCHANGED <<pipe, lost, lease, record, stopping, status>>
    BY <1>10 DEF QPUOnline, QPUOffline, MarkQPU, recordVars, sessionVars, requestVars
  <2>2. hook[c] \in {"mirror online", "up"}
    BY <1>10 DEF QPUOnline, QPUOffline, MarkQPU, TypeOK, ProcessesOK
  <2> QED
    BY <2>1, <2>2, <1>own, <1>was
<1>11. ASSUME NEW o \in Pipes, LinkBreaks(o)
       PROVE  UNCHANGED <<hook, pipe, lease, record, stopping, status>> /\ lost \subseteq lost'
  BY <1>11 DEF LinkBreaks, recordVars, requestVars, sessionVars
<1>12. ASSUME NEW o \in Pipes, ReleaseOnDetach(o) PROVE status'[e] = "online"
  <2>0. /\ hook[o] = "release" /\ hook' = [hook EXCEPT ![o] = "none"]
        /\ pipe' = [pipe EXCEPT ![o] = NoSession] /\ lost' = lost \ {o}
        /\ lease' = [lease EXCEPT ![SessionDriver[pipe[o]]] = NoSession]
        /\ UNCHANGED <<record, stopping, status>>
    BY <1>12 DEF ReleaseOnDetach, recordVars, requestVars
  <2>1. o # c /\ pipe'[c] = pipe[c] /\ hook'[c] = hook[c] /\ c \notin lost
    BY <2>0 DEF TypeOK, ProcessesOK
  <2>2. pipe[c] # NoSession
    BY <2>1 DEF TypeOK, ProcessesOK
  <2>3. SessionDriver[pipe[o]] # e /\ lease'[e] = lease[e]
    BY <2>0, <1>0, <2>1, <2>2 DEF TypeOK, SessionsOK
  <2>4. \A r \in Pipes \ {o} : pipe'[r] = pipe[r]
    BY <2>0 DEF TypeOK, ProcessesOK
  <2> QED
    BY <2>0, <2>1, <2>3, <2>4, <1>own, <1>was
<1>13. ASSUME NEW d \in Drivers, Disable(d) PROVE status'[e] = "online"
  <2>1. d # e /\ e \notin stopping
    BY <1>13 DEF Disable
  <2>2. status'[e] = status[e] /\ UNCHANGED <<hook, pipe, lost, lease, record>>
    BY <1>13, <1>0, <2>1 DEF Disable, TypeOK, RecordsOK, sessionVars, pipeVars
  <2> QED
    BY <2>1, <2>2, <1>own, <1>was
<1>14. ASSUME NEW d \in Drivers, Enable(d)
       PROVE  UNCHANGED <<hook, pipe, lease, record, stopping, status>> /\ lost \subseteq lost'
  BY <1>14 DEF Enable, requestVars, sessionVars, pipeVars
<1>15. ASSUME NEW d \in Drivers, Delete(d) PROVE status'[e] = "online"
  <2>1. e \notin stopping /\ record[e] = "there"
    BY <1>15, <1>0 DEF Delete, TypeOK, RecordsOK
  <2>2. UNCHANGED <<hook, pipe, lost, lease, status>>
    BY <1>15 DEF Delete, sessionVars, pipeVars
  <2> QED
    BY <2>1, <2>2, <1>own, <1>was
<1>16. ASSUME NEW d \in Drivers, Stop(d) PROVE status'[e] = "online"
  <2>1. UNCHANGED <<hook, pipe, lost, record, status>>
    BY <1>16 DEF Stop, pipeVars, recordVars
  <2>2. pipe[c] # NoSession
    BY <2>1 DEF TypeOK, ProcessesOK
  <2>3. d # e /\ lease'[e] = lease[e] /\ e \notin stopping
    BY <1>16, <1>0, <2>1, <2>2 DEF Stop, TypeOK, SessionsOK
  <2> QED
    BY <2>1, <2>3, <1>own, <1>was
<1>17. ASSUME NEW q \in QPUs, ToggleQPU(q) \/ BeginMaintenance(q) \/ EndMaintenance(q)
       PROVE  UNCHANGED <<hook, pipe, lease, record, stopping, status>> /\ lost \subseteq lost'
  BY <1>17 DEF ToggleQPU, BeginMaintenance, EndMaintenance, recordVars, requestVars, sessionVars,
     pipeVars
<1>18. CASE ServerRestart
  BY <1>18 DEF ServerRestart
<1>19. CASE UNCHANGED vars
  BY <1>19, <1>1 DEF vars, recordVars, requestVars, sessionVars, pipeVars
<1> QED
  BY <1>1, <1>2, <1>3, <1>4, <1>5, <1>6, <1>7, <1>8, <1>9, <1>10, <1>11, <1>12, <1>13, <1>14,
     <1>15, <1>16, <1>17, <1>18, <1>19 DEF Next

LEMMA PeerInit == Init => PeerInv
  BY RequestInit, ClaimedInit DEF PeerInv

LEMMA PeerStep == TypeOK /\ PeerInv /\ [Next]_vars => PeerInv'
  BY RequestStep, ClaimedStep DEF PeerInv

\* The record of a driver served alone says `online`, and a look-up that is answered
\* finds it.
LEMMA ServedIsPeer ==
  ASSUME TypeOK, PeerInv, NEW p \in Processes, NEW e \in Drivers \ {DriverOf[p]},
         Admit(p), ServedAlone(e), record[e] = "there", enabled[e], e \notin stopping,
         OneProcessOf(e)
  PROVE  \/ DriverQPU[e] # DriverQPU[DriverOf[p]]
         \/ Operation[e] # Operation[DriverOf[p]] \/ Operation[e] = ""
<1>1. PICK c \in Pipes : Serving(e, c) /\ DriverOf[PipeOf[c]] = e /\ OnlyPipe(e, c)
  BY DEF ServedAlone
<1>2. status[e] = "online" /\ lease[e] # NoSession
  BY <1>1 DEF Serving, PeerInv, Claimed
<1> QED
  BY <1>2 DEF Admit, Peer

\* No connect request of another driver of the same QPU and role whose look-up is
\* answered is let past a driver that is enabled and served by its only pipe, for any
\* number of drivers, and of connections each of them dials again.
THEOREM LivePeerIsFoundHolds == Spec => LivePeerIsFound
<1>1. TypeOK /\ PeerInv =>
        \A p \in Processes : \A e \in Drivers \ {DriverOf[p]} :
          /\ Admit(p) /\ ServedAlone(e) /\ record[e] = "there" /\ enabled[e] /\ e \notin stopping
          /\ OneProcessOf(e)
          => \/ DriverQPU[e] # DriverQPU[DriverOf[p]]
             \/ Operation[e] # Operation[DriverOf[p]] \/ Operation[e] = ""
  BY ServedIsPeer
<1> QED
  BY <1>1, TypeInit, TypeStep, PeerInit, PeerStep, PTL DEF Spec, LivePeerIsFound

=============================================================================
