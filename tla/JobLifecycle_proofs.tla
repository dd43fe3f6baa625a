------------------------- MODULE JobLifecycle_proofs -------------------------
(***************************************************************************)
(* Theorems about JobLifecycle, for every set of jobs, QPUs, drivers and   *)
(* sessions and every value of the bounds.                                 *)
(***************************************************************************)
EXTENDS JobLifecycle, SequenceTheorems, FiniteSetTheorems, TLAPS

-----------------------------------------------------------------------------
(* Channels. *)

\* What is left of a channel cut at its far end holds what the channel held.
LEMMA PrefixesOfSeq ==
  ASSUME NEW S, NEW q \in Seq(S), NEW p \in Prefixes(q)
  PROVE  p \in Seq(S)
<1>1. PICK k \in 0..Len(q) : p = SubSeq(q, 1, k)
  BY DEF Prefixes
<1>2. Len(q) \in Nat
  BY LenProperties
<1>3. \A i \in 1..k : q[i] \in S
  BY <1>2, ElementOfSeq
<1> QED
  BY <1>1, <1>2, <1>3, SubSeqProperties

\* Likewise for a channel cut at its near end.
LEMMA SuffixesOfSeq ==
  ASSUME NEW S, NEW q \in Seq(S), NEW p \in Suffixes(q)
  PROVE  p \in Seq(S)
<1>1. PICK k \in 1..(Len(q) + 1) : p = SubSeq(q, k, Len(q))
  BY Zenon DEF Suffixes
<1>2. Len(q) \in Nat
  BY LenProperties
<1>3. \A i \in k..Len(q) : q[i] \in S
  BY <1>2, ElementOfSeq
<1> QED
  BY <1>1, <1>2, <1>3, SubSeqProperties

-----------------------------------------------------------------------------
(* Type correctness. *)

\* A counter of something per job, or per session, stays one.
LEMMA Incremented ==
  ASSUME NEW S, NEW f \in [S -> Nat], NEW x \in S
  PROVE  [f EXCEPT ![x] = @ + 1] \in [S -> Nat]
  OBVIOUS

\* A send is counted below its bound.
LEMMA SendCounted ==
  ASSUME NEW f \in [Jobs -> 0..MaxSends], NEW j \in Jobs, f[j] < MaxSends
  PROVE  [f EXCEPT ![j] = @ + 1] \in [Jobs -> 0..MaxSends]
  BY JobsAssumption

\* A fault is counted below its bound.
LEMMA FaultBounded == HistoryOK /\ Fault => faults' \in 0..MaxFaults
  BY JobsAssumption DEF HistoryOK, Fault

\* Between the query and the end of the pass, the dispatcher's job is a job.
LEMMA HeldJob ==
  ASSUME DispatchersOK, NEW s \in Sessions, dpc[s] \in {"fetched", "sent"}
  PROVE  djob[s] \in Jobs
  BY DEF DispatchersOK

\* A message names a job, and says how its run ended.
LEMMA MessageFields ==
  ASSUME NEW m \in Message
  PROVE  /\ m.job \in Jobs
         /\ m.outcome \in Outcomes
         /\ m # NoMessage
  BY JobsAssumption DEF Message, Outcomes

\* While it applies a result, the listener's message is a message.
LEMMA AppliedMessage ==
  ASSUME ListenersOK, NEW s \in Sessions, lpc[s] \in {"billed", "loaded"}
  PROVE  /\ lmsg[s] \in Message
         /\ lmsg[s].job \in Jobs
         /\ lmsg[s].outcome \in Outcomes
  BY MessageFields DEF ListenersOK

\* What a listener takes off its socket is a message, and leaves messages.
LEMMA FirstResult ==
  ASSUME DriversOK, NEW d \in Drivers, outbox[d] # <<>>
  PROVE  /\ Head(outbox[d]) \in Message
         /\ Head(outbox[d]).job \in Jobs
         /\ AfterRecv(d) \in Seq(Message)
<1>1. outbox[d] \in Seq(Message)
  BY DEF DriversOK
<1> QED
  BY <1>1, HeadTailProperties, MessageFields DEF AfterRecv

\* What a driver takes off its queue or its socket is a job, and leaves jobs.
LEMMA FirstJob ==
  ASSUME NEW q \in Seq(Jobs), q # <<>>
  PROVE  Head(q) \in Jobs /\ Tail(q) \in Seq(Jobs)
  BY HeadTailProperties

\* A part of the type invariant whose variables do not change stays true.
LEMMA TypeFrame ==
  ASSUME TypeOK
  PROVE  /\ UNCHANGED <<dbVars, handlerVars, serving>> => RecordsOK'
         /\ UNCHANGED dispVars => DispatchersOK'
         /\ UNCHANGED listVars => ListenersOK'
         /\ UNCHANGED wireVars => WiresOK'
         /\ UNCHANGED driverVars => DriversOK'
         /\ UNCHANGED <<histVars, faults>> => HistoryOK'
<1>1. UNCHANGED <<dbVars, handlerVars, serving>> => RecordsOK'
  BY DEF TypeOK, RecordsOK, dbVars, handlerVars
<1>2. UNCHANGED dispVars => DispatchersOK'
  BY DEF TypeOK, DispatchersOK, dispVars
<1>3. UNCHANGED listVars => ListenersOK'
  BY DEF TypeOK, ListenersOK, listVars
<1>4. UNCHANGED wireVars => WiresOK'
  BY DEF TypeOK, WiresOK, wireVars
<1>5. UNCHANGED driverVars => DriversOK'
  BY DEF TypeOK, DriversOK, driverVars
<1>6. UNCHANGED <<histVars, faults>> => HistoryOK'
  BY DEF TypeOK, HistoryOK, histVars, paidVars
<1> QED
  BY <1>1, <1>2, <1>3, <1>4, <1>5, <1>6

LEMMA TypeInit == Init => TypeOK
<1> SUFFICES ASSUME Init PROVE TypeOK
  OBVIOUS
<1> USE JobsAssumption DEF Init
<1>1. RecordsOK
  BY DEF RecordsOK, Statuses
<1>2. DispatchersOK
  BY DEF DispatchersOK
<1>3. ListenersOK
  BY DEF ListenersOK, Statuses
<1>4. WiresOK /\ DriversOK
  BY DEF WiresOK, DriversOK
<1>5. HistoryOK
  BY DEF HistoryOK
<1> QED
  BY <1>1, <1>2, <1>3, <1>4, <1>5 DEF TypeOK

LEMMA TypeStep == TypeOK /\ [Next]_vars => TypeOK'
<1> SUFFICES ASSUME TypeOK, [Next]_vars PROVE TypeOK'
  OBVIOUS
<1> USE JobsAssumption
<1>1. ASSUME NEW j \in Jobs, Submit(j) PROVE TypeOK'
  <2>1. RecordsOK'
    BY <1>1 DEF TypeOK, RecordsOK, Submit, dbVars, handlerVars, Statuses
  <2> QED
    BY <1>1, TypeFrame, <2>1 DEF TypeOK, Submit
<1>2. ASSUME NEW j \in Jobs, CancelRead(j) PROVE TypeOK'
  <2>1. RecordsOK'
    BY <1>2 DEF TypeOK, RecordsOK, CancelRead, dbVars, handlerVars, Statuses
  <2> QED
    BY <1>2, TypeFrame, <2>1 DEF TypeOK, CancelRead
<1>3. ASSUME NEW j \in Jobs, CancelWrite(j) PROVE TypeOK'
  <2>1. RecordsOK'
    BY <1>3 DEF TypeOK, RecordsOK, CancelWrite, dbVars, handlerVars, Statuses
  <2>2. HistoryOK'
    BY <1>3 DEF TypeOK, HistoryOK, CancelWrite, histVars, paidVars
  <2> QED
    BY <1>3, TypeFrame, <2>1, <2>2 DEF TypeOK, CancelWrite
<1>4. ASSUME NEW j \in Jobs, RecoveryWrite(j) PROVE TypeOK'
  <2>1. RecordsOK'
    BY <1>4 DEF TypeOK, RecordsOK, RecoveryWrite, dbVars, handlerVars,
         Statuses
  <2> QED
    BY <1>4, TypeFrame, <2>1 DEF TypeOK, RecoveryWrite
<1>5. ASSUME NEW q \in QPUs, StopServing(q) PROVE TypeOK'
  <2>1. RecordsOK'
    BY <1>5 DEF TypeOK, RecordsOK, StopServing, dbVars, handlerVars, Statuses
  <2>2. HistoryOK'
    BY <1>5, FaultBounded DEF TypeOK, HistoryOK, StopServing, histVars, paidVars
  <2> QED
    BY <1>5, TypeFrame, <2>1, <2>2 DEF TypeOK, StopServing
<1>6. ASSUME NEW q \in QPUs, ResumeServing(q) PROVE TypeOK'
  <2>1. RecordsOK'
    BY <1>6 DEF TypeOK, RecordsOK, ResumeServing, dbVars, handlerVars,
         Statuses
  <2>2. HistoryOK'
    BY <1>6 DEF TypeOK, HistoryOK, ResumeServing, histVars, paidVars
  <2> QED
    BY <1>6, TypeFrame, <2>1, <2>2 DEF TypeOK, ResumeServing
<1>7. ASSUME NEW S \in SUBSET Jobs, RecoveryScan(S) PROVE TypeOK'
  <2>1. RecordsOK'
    BY <1>7 DEF TypeOK, RecordsOK, RecoveryScan, dbVars, handlerVars, Statuses
  <2>2. HistoryOK'
    BY <1>7, FaultBounded DEF TypeOK, HistoryOK, RecoveryScan, histVars, paidVars
  <2> QED
    BY <1>7, TypeFrame, <2>1, <2>2 DEF TypeOK, RecoveryScan
<1>8. ASSUME NEW s \in Sessions, NEW j \in Jobs, Fetch(s, j) PROVE TypeOK'
  <2>1. DispatchersOK'
    BY <1>8 DEF TypeOK, DispatchersOK, Fetch, dispVars
  <2> QED
    BY <1>8, TypeFrame, <2>1 DEF TypeOK, Fetch
<1>9. ASSUME NEW s \in Sessions, Send(s) PROVE TypeOK'
  <2>1. DispatchersOK'
    BY <1>9 DEF TypeOK, DispatchersOK, Send, dispVars
  <2>2. WiresOK'
    BY <1>9, HeldJob, AppendProperties DEF TypeOK, WiresOK, Send
  <2>3. djob[s] \in Jobs
    BY <1>9, HeldJob DEF TypeOK, Send
  <2>4. sends' \in [Jobs -> 0..MaxSends]
    BY <1>9, <2>3, SendCounted DEF TypeOK, HistoryOK, Send
  <2>5. lateSends' \in [Sessions -> Nat]
    BY <1>9 DEF TypeOK, HistoryOK, Send
  <2>6. HistoryOK'
    BY <1>9, <2>4, <2>5 DEF TypeOK, HistoryOK, Send, paidVars
  <2> QED
    BY <1>9, TypeFrame, <2>1, <2>2, <2>6 DEF TypeOK, Send
<1>10. ASSUME NEW s \in Sessions, SendReturnsError(s) PROVE TypeOK'
  <2>1. RecordsOK'
    BY <1>10 DEF TypeOK, RecordsOK, SendReturnsError, dbVars, handlerVars,
         Statuses
  <2>2. DispatchersOK'
    BY <1>10 DEF TypeOK, DispatchersOK, SendReturnsError, dispVars
  <2>3. HistoryOK'
    BY <1>10, FaultBounded DEF TypeOK, HistoryOK, SendReturnsError, histVars, paidVars
  <2> QED
    BY <1>10, TypeFrame, <2>1, <2>2, <2>3 DEF TypeOK, SendReturnsError
<1>11. ASSUME NEW s \in Sessions, MarkRunning(s) PROVE TypeOK'
  <2>1. RecordsOK'
    BY <1>11 DEF TypeOK, RecordsOK, MarkRunning, dbVars, handlerVars, Statuses
  <2>2. DispatchersOK'
    BY <1>11 DEF TypeOK, DispatchersOK, MarkRunning, dispVars
  <2> QED
    BY <1>11, TypeFrame, <2>1, <2>2 DEF TypeOK, MarkRunning
<1>12. ASSUME NEW s \in Sessions, DispatcherReturns(s) PROVE TypeOK'
  <2>1. DispatchersOK'
    BY <1>12 DEF TypeOK, DispatchersOK, DispatcherReturns, dispVars
  <2> QED
    BY <1>12, TypeFrame, <2>1 DEF TypeOK, DispatcherReturns
<1>13. ASSUME NEW s \in Sessions, ReceiveResult(s) PROVE TypeOK'
  <2> DEFINE d == SessionDriver[s]
  <2>0. d \in Drivers /\ outbox[d] # <<>>
    BY <1>13 DEF ReceiveResult
  <2>1. ListenersOK'
    BY <1>13, <2>0, FirstResult, MessageFields DEF TypeOK, ListenersOK, ReceiveResult
  <2>2. DriversOK'
    BY <1>13, <2>0, FirstResult DEF TypeOK, DriversOK, ReceiveResult
  <2>3. heard' \in [Jobs -> Nat] /\ bills' \in [Jobs -> Nat]
    <3>1. Head(outbox[d]).job \in Jobs /\ heard \in [Jobs -> Nat] /\ bills \in [Jobs -> Nat]
      BY <2>0, FirstResult DEF TypeOK, HistoryOK
    <3>2. /\ heard' = [heard EXCEPT ![Head(outbox[d]).job] = @ + 1]
          /\ bills' = [bills EXCEPT ![Head(outbox[d]).job] = @ + 1] \/ bills' = bills
      BY <1>13 DEF ReceiveResult
    <3> DEFINE h == Head(outbox[d]).job
    <3> HIDE DEF h, d
    <3>3. [heard EXCEPT ![h] = @ + 1] \in [Jobs -> Nat]
      BY <3>1, Incremented DEF h
    <3>4. [bills EXCEPT ![h] = @ + 1] \in [Jobs -> Nat]
      BY <3>1, Incremented DEF h
    <3> QED
      BY <3>1, <3>2, <3>3, <3>4 DEF h
  <2>4. faults' \in 0..MaxFaults
    BY <1>13, FaultBounded DEF TypeOK, HistoryOK, ReceiveResult
  <2>5. HistoryOK'
    BY <1>13, <2>3, <2>4 DEF TypeOK, HistoryOK, ReceiveResult
  <2> QED
    BY <1>13, TypeFrame, <2>1, <2>2, <2>5 DEF TypeOK, ReceiveResult
<1>14. ASSUME NEW s \in Sessions, DropResult(s) PROVE TypeOK'
  <2>0. SessionDriver[s] \in Drivers /\ outbox[SessionDriver[s]] # <<>>
    BY <1>14 DEF DropResult
  <2>1. DriversOK'
    BY <1>14, <2>0, FirstResult DEF TypeOK, DriversOK, DropResult
  <2>2. HistoryOK'
    BY <1>14, FaultBounded DEF TypeOK, HistoryOK, DropResult, histVars, paidVars
  <2> QED
    BY <1>14, TypeFrame, <2>1, <2>2 DEF TypeOK, DropResult
<1>15. ASSUME NEW s \in Sessions, LoadJob(s) PROVE TypeOK'
  <2>1. ListenersOK'
    BY <1>15, AppliedMessage DEF TypeOK, ListenersOK, RecordsOK, LoadJob
  <2> QED
    BY <1>15, TypeFrame, <2>1 DEF TypeOK, LoadJob
<1>16. ASSUME NEW s \in Sessions, StoreResult(s) PROVE TypeOK'
  <2>1. RecordsOK'
    BY <1>16, AppliedMessage
    DEF TypeOK, RecordsOK, StoreResult, handlerVars, Statuses, Outcomes
  <2>2. ListenersOK'
    BY <1>16 DEF TypeOK, ListenersOK, StoreResult, listVars, Statuses
  <2>3. stores' \in [Jobs -> Nat]
    <3>1. lmsg[s].job \in Jobs /\ stores' = [stores EXCEPT ![lmsg[s].job] = @ + 1]
      BY <1>16, AppliedMessage DEF TypeOK, StoreResult
    <3> QED
      BY <3>1, Incremented DEF TypeOK, HistoryOK
  <2>4. HistoryOK'
    BY <1>16, <2>3 DEF TypeOK, HistoryOK, StoreResult
  <2> QED
    BY <1>16, TypeFrame, <2>1, <2>2, <2>4 DEF TypeOK, StoreResult
<1>17. ASSUME NEW d \in Drivers, NEW s \in Sessions, DriverStart(d, s) PROVE TypeOK'
  <2>1. DispatchersOK'
    BY <1>17 DEF TypeOK, DispatchersOK, DriverStart, Free
  <2>2. ListenersOK'
    BY <1>17 DEF TypeOK, ListenersOK, DriverStart, Free
  <2>3. WiresOK'
    <3>1. CASE UNCHANGED <<lease, open>>
      BY <1>17, <3>1 DEF TypeOK, WiresOK, DriverStart
    <3>2. CASE lease' = [lease EXCEPT ![d] = s] /\ open' = [open EXCEPT ![s] = TRUE]
      BY <1>17, <3>2 DEF TypeOK, WiresOK, DriverStart
    <3> QED
      BY <1>17, <3>1, <3>2 DEF DriverStart
  <2>4. DriversOK'
    <3>1. alive' \in [Drivers -> BOOLEAN]
      BY <1>17, Zenon DEF TypeOK, DriversOK, DriverStart
    <3>2. parts' \in [Drivers -> {"up", "noWorker", "noPump"}]
      BY <1>17 DEF TypeOK, DriversOK, DriverStart
    <3> QED
      BY <1>17, <3>1, <3>2 DEF TypeOK, DriversOK, DriverStart
  <2>5. faults' \in 0..MaxFaults
    BY <1>17, FaultBounded DEF TypeOK, HistoryOK, DriverStart
  <2>6. HistoryOK'
    BY <1>17, <2>5 DEF TypeOK, HistoryOK, DriverStart, histVars, paidVars
  <2> QED
    BY <1>17, TypeFrame, <2>1, <2>2, <2>3, <2>4, <2>6 DEF TypeOK, DriverStart
<1>18. ASSUME NEW s \in Sessions, DriverReceive(s) PROVE TypeOK'
  <2>1. WiresOK'
    BY <1>18, FirstJob DEF TypeOK, WiresOK, DriverReceive
  <2>2. DriversOK'
    BY <1>18, FirstJob, AppendProperties DEF TypeOK, WiresOK, DriversOK, DriverReceive
  <2> QED
    BY <1>18, TypeFrame, <2>1, <2>2 DEF TypeOK, DriverReceive
<1>19. ASSUME NEW d \in Drivers, NEW o \in Outcomes, Execute(d, o) PROVE TypeOK'
  <2>0. Head(queue[d]) \in Jobs /\ Tail(queue[d]) \in Seq(Jobs)
    BY <1>19, FirstJob DEF TypeOK, DriversOK, Execute
  <2>1. DriversOK'
    <3>1. parts' \in [Drivers -> {"up", "noWorker", "noPump"}]
      BY <1>19 DEF TypeOK, DriversOK, Execute
    <3>2. [job |-> Head(queue[d]), outcome |-> o] \in Message
      BY <2>0 DEF Message
    <3>3. outbox' \in [Drivers -> Seq(Message)]
      <4> DEFINE m == [job |-> Head(queue[d]), outcome |-> o]
      <4>1. outbox' = outbox \/ outbox' = [outbox EXCEPT ![d] = Append(@, m)]
        BY <1>19 DEF Execute
      <4>2. outbox \in [Drivers -> Seq(Message)] /\ m \in Message
        BY <3>2 DEF TypeOK, DriversOK
      <4> HIDE DEF m
      <4>3. Append(outbox[d], m) \in Seq(Message)
        BY <4>2, AppendProperties
      <4> QED
        BY <4>1, <4>2, <4>3
    <3> QED
      BY <1>19, <2>0, <3>1, <3>3 DEF TypeOK, DriversOK, Execute
  <2>2. execs' \in [Jobs -> Nat]
    <3>1. execs' = [execs EXCEPT ![Head(queue[d])] = @ + 1]
      BY <1>19 DEF Execute
    <3> QED
      BY <2>0, <3>1, Incremented DEF TypeOK, HistoryOK
  <2>3. ranOn' \in [Jobs -> SUBSET Drivers]
    BY <1>19, <2>0 DEF TypeOK, HistoryOK, Execute
  <2>5. faults' \in 0..MaxFaults
    BY <1>19, FaultBounded DEF TypeOK, HistoryOK, Execute
  <2>4. HistoryOK'
    BY <1>19, <2>2, <2>3, <2>5 DEF TypeOK, HistoryOK, Execute, paidVars
  <2> QED
    BY <1>19, TypeFrame, <2>1, <2>4 DEF TypeOK, Execute
<1>20. ASSUME NEW d \in Drivers, DriverCrash(d) PROVE TypeOK'
  <2>1. DriversOK'
    BY <1>20, PrefixesOfSeq, EmptySeq DEF TypeOK, DriversOK, DriverCrash
  <2>2. HistoryOK'
    BY <1>20, FaultBounded DEF TypeOK, HistoryOK, DriverCrash, histVars, paidVars
  <2> QED
    BY <1>20, TypeFrame, <2>1, <2>2 DEF TypeOK, DriverCrash
<1>21. ASSUME NEW d \in Drivers, Release(d) PROVE TypeOK'
  <2>1. WiresOK'
    BY <1>21 DEF TypeOK, WiresOK, Release, wireVars
  <2>2. HistoryOK'
    BY <1>21, FaultBounded DEF TypeOK, HistoryOK, Release, histVars, paidVars
  <2> QED
    BY <1>21, TypeFrame, <2>1, <2>2 DEF TypeOK, Release
<1>22. ASSUME NEW s \in Sessions, CloseSockets(s) PROVE TypeOK'
  <2>1. ListenersOK'
    BY <1>22 DEF TypeOK, ListenersOK, CloseSockets, listVars, Statuses
  <2>2. WiresOK'
    BY <1>22 DEF TypeOK, WiresOK, CloseSockets, wireVars
  <2>3. DriversOK'
    BY <1>22, SuffixesOfSeq, EmptySeq DEF TypeOK, DriversOK, CloseSockets
  <2> QED
    BY <1>22, TypeFrame, <2>1, <2>2, <2>3 DEF TypeOK, CloseSockets
<1>23. ASSUME ServerCrash PROVE TypeOK'
  <2>1. RecordsOK'
    BY <1>23 DEF TypeOK, RecordsOK, ServerCrash, dbVars, handlerVars, Statuses
  <2>2. DispatchersOK'
    BY <1>23 DEF TypeOK, DispatchersOK, ServerCrash, dispVars
  <2>3. ListenersOK'
    BY <1>23 DEF TypeOK, ListenersOK, ServerCrash, listVars, Statuses
  <2>4. WiresOK'
    BY <1>23 DEF TypeOK, WiresOK, ServerCrash, wireVars
  <2>5. DriversOK'
    BY <1>23, SuffixesOfSeq, EmptySeq DEF TypeOK, DriversOK, ServerCrash
  <2>6. HistoryOK'
    BY <1>23, FaultBounded DEF TypeOK, HistoryOK, ServerCrash, histVars, paidVars
  <2> QED
    BY <1>23, TypeFrame, <2>1, <2>2, <2>3, <2>4, <2>5, <2>6 DEF TypeOK,
         ServerCrash
<1>24. ASSUME NEW s \in Sessions, StoreFails(s) PROVE TypeOK'
  <2>1. ListenersOK'
    BY <1>24 DEF TypeOK, ListenersOK, StoreFails, listVars, Statuses
  <2>2. HistoryOK'
    BY <1>24, FaultBounded DEF TypeOK, HistoryOK, StoreFails, histVars, paidVars
  <2> QED
    BY <1>24, TypeFrame, <2>1, <2>2 DEF TypeOK, StoreFails
<1>25. CASE UNCHANGED vars
  BY <1>25, TypeFrame DEF TypeOK, vars
<1> QED
  BY <1>1, <1>2, <1>3, <1>4, <1>5, <1>6, <1>7, <1>8, <1>9, <1>10, <1>11,
       <1>12, <1>13, <1>14, <1>15, <1>16, <1>17, <1>18, <1>19, <1>20, <1>21,
       <1>22, <1>23, <1>24, <1>25 DEF Next

\* Every reachable state is well typed, a dispatcher holds a job exactly during a
\* pass of its loop, and a listener a result exactly while it applies it.
THEOREM TypeCorrect == Spec => []TypeOK
  BY TypeInit, TypeStep, PTL DEF Spec

-----------------------------------------------------------------------------
(* Nothing happens to a job that was not sent: the strengthening behind        *)
(* EarlyCancelIsFinal.  The hard part is what the server and the drivers still *)
(* hold of a job when its status is overwritten: a recovery list, a dispatch   *)
(* about to be marked running, a job or a result on its way.  All of them can  *)
(* only name jobs that were sent.                                              *)

Sent == {j \in Jobs : sends[j] > 0}

RecoveredWereSent == recovering \subseteq Sent
StartedWereSent ==
  \A j \in Jobs : status[j] \in {"running"} \cup Outcomes => j \in Sent
MarkedWereSent == \A s \in Sessions : dpc[s] = "sent" => djob[s] \in Sent
DownWereSent == \A s \in Sessions : down[s] \in Seq(Sent)
QueuedWereSent == \A d \in Drivers : queue[d] \in Seq(Sent)
ResultsWereSent ==
  \A d \in Drivers : outbox[d] \in Seq([job : Sent, outcome : Outcomes])
AppliedWereSent ==
  \A s \in Sessions : lmsg[s] # NoMessage => lmsg[s].job \in Sent

SentInv ==
  /\ RecoveredWereSent /\ StartedWereSent /\ MarkedWereSent /\ DownWereSent
  /\ QueuedWereSent /\ ResultsWereSent /\ AppliedWereSent

\* Counting one more send of a job makes it a sent one, and no other less so.
LEMMA SendRaises ==
  ASSUME NEW f \in [Jobs -> 0..MaxSends], NEW j \in Jobs,
         NEW g, g = [f EXCEPT ![j] = @ + 1]
  PROVE  g[j] > 0 /\ \A i \in Jobs : f[i] > 0 => g[i] > 0
<1>1. f[j] \in Nat /\ g[j] = f[j] + 1
  BY JobsAssumption
<1>2. \A i \in Jobs \ {j} : g[i] = f[i]
  OBVIOUS
<1> QED
  BY <1>1, <1>2

\* A job stays sent.
LEMMA SentGrows == TypeOK /\ [Next]_vars => Sent \subseteq Sent'
<1> SUFFICES ASSUME TypeOK, [Next]_vars PROVE Sent \subseteq Sent'
  OBVIOUS
<1>1. CASE UNCHANGED sends
  BY <1>1 DEF Sent
<1>2. ASSUME NEW s \in Sessions, Send(s) PROVE Sent \subseteq Sent'
  <2>1. djob[s] \in Jobs
    BY <1>2, HeldJob DEF TypeOK, Send
  <2>2. sends' = [sends EXCEPT ![djob[s]] = @ + 1]
    BY <1>2 DEF Send
  <2> QED
    BY <2>1, <2>2, SendRaises DEF TypeOK, HistoryOK, Sent
<1>3. UNCHANGED sends \/ \E s \in Sessions : Send(s)
  BY DEF Next, vars, histVars, paidVars, Submit, CancelRead, CancelWrite, RecoveryWrite,
         StopServing, ResumeServing, RecoveryScan, Fetch, SendReturnsError,
         MarkRunning, DispatcherReturns, ReceiveResult, DropResult, LoadJob, StoreFails,
         StoreResult, DriverStart, DriverReceive, Execute, DriverCrash, Release,
         CloseSockets, ServerCrash
<1> QED
  BY <1>1, <1>2, <1>3

\* A part of SentInv whose variables do not change stays true.
LEMMA SentFrame ==
  ASSUME TypeOK, SentInv, [Next]_vars
  PROVE  /\ UNCHANGED recovering => RecoveredWereSent'
         /\ UNCHANGED status => StartedWereSent'
         /\ UNCHANGED dispVars => MarkedWereSent'
         /\ UNCHANGED down => DownWereSent'
         /\ UNCHANGED queue => QueuedWereSent'
         /\ UNCHANGED outbox => ResultsWereSent'
         /\ UNCHANGED lmsg => AppliedWereSent'
<1> DEFINE Results(J) == [job : J, outcome : Outcomes]
<1>1. Sent \subseteq Sent'
  BY SentGrows
<1>2. UNCHANGED recovering => RecoveredWereSent'
  BY <1>1 DEF SentInv, RecoveredWereSent
<1>3. UNCHANGED status => StartedWereSent'
  BY <1>1 DEF SentInv, StartedWereSent
<1>4. UNCHANGED dispVars => MarkedWereSent'
  BY <1>1 DEF SentInv, MarkedWereSent, dispVars
<1>5. UNCHANGED down => DownWereSent'
  BY <1>1, SeqMonotonic DEF SentInv, DownWereSent
<1>6. UNCHANGED queue => QueuedWereSent'
  BY <1>1, SeqMonotonic DEF SentInv, QueuedWereSent
<1>7. Results(Sent) \subseteq Results(Sent')
  BY <1>1
<1>8. UNCHANGED outbox => ResultsWereSent'
  BY <1>7, SeqMonotonic DEF SentInv, ResultsWereSent
<1>9. UNCHANGED lmsg => AppliedWereSent'
  BY <1>1 DEF SentInv, AppliedWereSent
<1> QED
  BY <1>2, <1>3, <1>4, <1>5, <1>6, <1>8, <1>9

LEMMA SentInit == Init => SentInv
<1> SUFFICES ASSUME Init PROVE SentInv
  OBVIOUS
<1> USE DEF Init
<1>1. RecoveredWereSent /\ StartedWereSent /\ MarkedWereSent /\ AppliedWereSent
  BY DEF RecoveredWereSent, StartedWereSent, MarkedWereSent, AppliedWereSent, Outcomes
<1>2. DownWereSent /\ QueuedWereSent /\ ResultsWereSent
  BY EmptySeq DEF DownWereSent, QueuedWereSent, ResultsWereSent
<1> QED
  BY <1>1, <1>2 DEF SentInv

LEMMA SentStep == TypeOK /\ SentInv /\ [Next]_vars => SentInv'
<1> SUFFICES ASSUME TypeOK, SentInv, [Next]_vars PROVE SentInv'
  OBVIOUS
<1>1. ASSUME NEW j \in Jobs, Submit(j) PROVE SentInv'
  <2>1. StartedWereSent'
    BY <1>1, SentFrame, SentGrows DEF TypeOK, RecordsOK, SentInv,
        StartedWereSent, Outcomes, Submit
  <2> QED
    BY <1>1, SentFrame, <2>1 DEF SentInv, dbVars, handlerVars, dispVars,
        listVars, wireVars, driverVars, Submit
<1>2. ASSUME NEW j \in Jobs, CancelRead(j) PROVE SentInv'
  BY <1>2, SentFrame DEF SentInv, dbVars, handlerVars, dispVars, listVars,
      wireVars, driverVars, CancelRead
<1>3. ASSUME NEW j \in Jobs, CancelWrite(j) PROVE SentInv'
  <2>1. StartedWereSent'
    BY <1>3, SentGrows DEF TypeOK, RecordsOK, SentInv, StartedWereSent,
        Outcomes, CancelWrite
  <2> QED
    BY <1>3, SentFrame, <2>1 DEF SentInv, dbVars, handlerVars, dispVars,
        listVars, wireVars, driverVars, CancelWrite
<1>4. ASSUME NEW j \in Jobs, RecoveryWrite(j) PROVE SentInv'
  <2>1. RecoveredWereSent'
    BY <1>4, SentGrows DEF SentInv, RecoveredWereSent, RecoveryWrite
  <2>2. StartedWereSent'
    BY <1>4, SentGrows DEF TypeOK, RecordsOK, SentInv, StartedWereSent,
        Outcomes, RecoveryWrite
  <2> QED
    BY <1>4, SentFrame, <2>1, <2>2 DEF SentInv, dbVars, handlerVars, dispVars,
        listVars, wireVars, driverVars, RecoveryWrite
<1>5. ASSUME NEW q \in QPUs, StopServing(q) PROVE SentInv'
  BY <1>5, SentFrame DEF SentInv, dbVars, handlerVars, dispVars, listVars,
      wireVars, driverVars, StopServing
<1>6. ASSUME NEW q \in QPUs, ResumeServing(q) PROVE SentInv'
  BY <1>6, SentFrame DEF SentInv, dbVars, handlerVars, dispVars, listVars,
      wireVars, driverVars, ResumeServing
<1>7. ASSUME NEW S \in SUBSET Jobs, RecoveryScan(S) PROVE SentInv'
  <2>1. RecoveredWereSent'
    BY <1>7, SentGrows DEF SentInv, StartedWereSent, StaleJobs,
        RecoveredWereSent, RecoveryScan
  <2> QED
    BY <1>7, SentFrame, <2>1 DEF SentInv, dbVars, handlerVars, dispVars,
        listVars, wireVars, driverVars, RecoveryScan
<1>8. ASSUME NEW s \in Sessions, NEW j \in Jobs, Fetch(s, j) PROVE SentInv'
  <2>1. MarkedWereSent'
    BY <1>8, SentGrows DEF TypeOK, DispatchersOK, SentInv, MarkedWereSent,
        Fetch
  <2> QED
    BY <1>8, SentFrame, <2>1 DEF SentInv, dbVars, handlerVars, dispVars,
        listVars, wireVars, driverVars, Fetch
<1>9. ASSUME NEW s \in Sessions, Send(s) PROVE SentInv'
  <2>1. djob[s] \in Jobs /\ djob[s] \in Sent'
    <3>1. djob[s] \in Jobs
      BY <1>9, HeldJob DEF TypeOK, Send
    <3>2. sends' = [sends EXCEPT ![djob[s]] = @ + 1]
      BY <1>9 DEF Send
    <3> QED
      BY <3>1, <3>2, SendRaises DEF TypeOK, HistoryOK, Sent
  <2>2. MarkedWereSent'
    BY <1>9, <2>1, SentGrows DEF TypeOK, DispatchersOK, SentInv,
        MarkedWereSent, Send
  <2>3. DownWereSent'
    <3>1. \A t \in Sessions : down[t] \in Seq(Sent')
      BY SentGrows, SeqMonotonic DEF SentInv, DownWereSent
    <3>2. down' = [down EXCEPT ![s] = Append(@, djob[s])]
      BY <1>9 DEF Send
    <3> QED
      BY <2>1, <3>1, <3>2, AppendProperties DEF TypeOK, WiresOK, DownWereSent
  <2> QED
    BY <1>9, SentFrame, <2>1, <2>2, <2>3 DEF SentInv, dbVars, handlerVars,
        dispVars, listVars, wireVars, driverVars, Send
<1>10. ASSUME NEW s \in Sessions, SendReturnsError(s) PROVE SentInv'
  <2>1. djob[s] \in Jobs
    BY <1>10, HeldJob DEF TypeOK, SendReturnsError
  <2>2. StartedWereSent'
    BY <1>10, <2>1, SentGrows DEF TypeOK, RecordsOK, SentInv, StartedWereSent,
        Outcomes, SendReturnsError
  <2>3. MarkedWereSent'
    BY <1>10, SentGrows DEF TypeOK, DispatchersOK, SentInv, MarkedWereSent,
        SendReturnsError
  <2> QED
    BY <1>10, SentFrame, <2>1, <2>2, <2>3 DEF SentInv, dbVars, handlerVars,
        dispVars, listVars, wireVars, driverVars, SendReturnsError
<1>11. ASSUME NEW s \in Sessions, MarkRunning(s) PROVE SentInv'
  <2>1. djob[s] \in Jobs /\ djob[s] \in Sent'
    BY <1>11, HeldJob, SentGrows DEF TypeOK, SentInv, MarkedWereSent,
        MarkRunning
  <2>2. StartedWereSent'
    BY <1>11, <2>1, SentGrows DEF TypeOK, RecordsOK, SentInv, StartedWereSent,
        MarkRunning
  <2>3. MarkedWereSent'
    BY <1>11, SentGrows DEF TypeOK, DispatchersOK, SentInv, MarkedWereSent,
        MarkRunning
  <2> QED
    BY <1>11, SentFrame, <2>1, <2>2, <2>3 DEF SentInv, dbVars, handlerVars,
        dispVars, listVars, wireVars, driverVars, MarkRunning
<1>12. ASSUME NEW s \in Sessions, DispatcherReturns(s) PROVE SentInv'
  <2>1. MarkedWereSent'
    BY <1>12, SentGrows DEF TypeOK, DispatchersOK, SentInv, MarkedWereSent,
        DispatcherReturns
  <2> QED
    BY <1>12, SentFrame, <2>1 DEF SentInv, dbVars, handlerVars, dispVars,
        listVars, wireVars, driverVars, DispatcherReturns
<1>13. ASSUME NEW s \in Sessions, ReceiveResult(s) PROVE SentInv'
  <2>1. /\ Head(outbox[SessionDriver[s]]).job \in Sent'
        /\ ResultsWereSent'
    <3> DEFINE Results == [job : Sent, outcome : Outcomes]
               d == SessionDriver[s]
    <3>1. d \in Drivers /\ outbox[d] # <<>> /\ outbox[d] \in Seq(Results)
      BY <1>13, JobsAssumption DEF ReceiveResult, SentInv, ResultsWereSent
    <3>2. Head(outbox[d]) \in Results /\ AfterRecv(d) \in Seq(Results)
      BY <3>1, HeadTailProperties DEF AfterRecv
    <3>3. UNCHANGED sends /\ outbox' = [outbox EXCEPT ![d] = AfterRecv(d)]
      BY <1>13 DEF ReceiveResult
    <3> QED
      BY <3>1, <3>2, <3>3 DEF Sent, TypeOK, DriversOK, SentInv, ResultsWereSent
  <2>2. AppliedWereSent'
    BY <1>13, <2>1, SentGrows DEF TypeOK, ListenersOK, SentInv,
        AppliedWereSent, ReceiveResult
  <2> QED
    BY <1>13, SentFrame, <2>1, <2>2 DEF SentInv, dbVars, handlerVars,
        dispVars, listVars, wireVars, driverVars, ReceiveResult
<1>14. ASSUME NEW s \in Sessions, DropResult(s) PROVE SentInv'
  <2>1. ResultsWereSent'
    <3> DEFINE Results == [job : Sent, outcome : Outcomes]
               d == SessionDriver[s]
    <3>1. d \in Drivers /\ outbox[d] # <<>> /\ outbox[d] \in Seq(Results)
      BY <1>14, JobsAssumption DEF DropResult, SentInv, ResultsWereSent
    <3>2. AfterRecv(d) \in Seq(Results)
      BY <3>1, HeadTailProperties DEF AfterRecv
    <3>3. UNCHANGED sends /\ outbox' = [outbox EXCEPT ![d] = AfterRecv(d)]
      BY <1>14 DEF DropResult, histVars, paidVars
    <3> QED
      BY <3>1, <3>2, <3>3 DEF Sent, TypeOK, DriversOK, SentInv, ResultsWereSent
  <2> QED
    BY <1>14, SentFrame, <2>1 DEF SentInv, dbVars, handlerVars, dispVars,
        listVars, wireVars, driverVars, DropResult
<1>15. ASSUME NEW s \in Sessions, LoadJob(s) PROVE SentInv'
  BY <1>15, SentFrame DEF SentInv, dbVars, handlerVars, dispVars, listVars,
      wireVars, driverVars, LoadJob
<1>16. ASSUME NEW s \in Sessions, StoreResult(s) PROVE SentInv'
  <2>1. lmsg[s].job \in Jobs /\ lmsg[s].job \in Sent'
    BY <1>16, AppliedMessage, SentGrows DEF TypeOK, ListenersOK, SentInv,
        AppliedWereSent, StoreResult
  <2>2. StartedWereSent'
    BY <1>16, <2>1, SentGrows DEF TypeOK, RecordsOK, SentInv, StartedWereSent,
        StoreResult
  <2>3. AppliedWereSent'
    BY <1>16, SentGrows DEF TypeOK, ListenersOK, SentInv, AppliedWereSent,
        StoreResult
  <2> QED
    BY <1>16, SentFrame, <2>1, <2>2, <2>3 DEF SentInv, dbVars, handlerVars,
        dispVars, listVars, wireVars, driverVars, StoreResult
<1>17. ASSUME NEW d \in Drivers, NEW s \in Sessions, DriverStart(d, s) PROVE
     SentInv'
  <2>1. MarkedWereSent'
    BY <1>17, SentGrows DEF TypeOK, DispatchersOK, SentInv, MarkedWereSent,
        DriverStart
  <2> QED
    BY <1>17, SentFrame, <2>1 DEF SentInv, dbVars, handlerVars, dispVars,
        listVars, wireVars, driverVars, DriverStart
<1>18. ASSUME NEW s \in Sessions, DriverReceive(s) PROVE SentInv'
  <2>1. DownWereSent' /\ QueuedWereSent'
    <3> DEFINE d == SessionDriver[s]
    <3>1. d \in Drivers /\ down[s] # <<>> /\ down[s] \in Seq(Sent) /\ UNCHANGED sends
      BY <1>18, JobsAssumption DEF DriverReceive, SentInv, DownWereSent, histVars, paidVars
    <3>2. Head(down[s]) \in Sent /\ Tail(down[s]) \in Seq(Sent)
      BY <3>1, HeadTailProperties
    <3>3. Append(queue[d], Head(down[s])) \in Seq(Sent)
      BY <3>1, <3>2, AppendProperties DEF SentInv, QueuedWereSent
    <3>4. DownWereSent'
      BY <1>18, <3>1, <3>2 DEF DriverReceive, Sent, TypeOK, WiresOK, SentInv, DownWereSent
    <3>5. QueuedWereSent'
      BY <1>18, <3>1, <3>3 DEF DriverReceive, Sent, TypeOK, DriversOK, SentInv, QueuedWereSent
    <3> QED
      BY <3>4, <3>5
  <2> QED
    BY <1>18, SentFrame, <2>1 DEF SentInv, dbVars, handlerVars, dispVars,
        listVars, wireVars, driverVars, DriverReceive
<1>19. ASSUME NEW d \in Drivers, NEW o \in Outcomes, Execute(d, o) PROVE
     SentInv'
  <2>1. QueuedWereSent' /\ ResultsWereSent'
    <3> DEFINE Results == [job : Sent, outcome : Outcomes]
               m == [job |-> Head(queue[d]), outcome |-> o]
    <3>1. queue[d] # <<>> /\ queue[d] \in Seq(Sent) /\ UNCHANGED sends
      BY <1>19 DEF Execute, SentInv, QueuedWereSent
    <3>2. Head(queue[d]) \in Sent /\ Tail(queue[d]) \in Seq(Sent)
      BY <3>1, HeadTailProperties
    <3>3. outbox[d] \in Seq(Results) /\ m \in Results
      BY <1>19, <3>2 DEF SentInv, ResultsWereSent
    <3>4. Append(outbox[d], m) \in Seq(Results)
      BY <3>3, AppendProperties
    <3>5. QueuedWereSent'
      BY <1>19, <3>1, <3>2 DEF Execute, Sent, TypeOK, DriversOK, SentInv, QueuedWereSent
    <3>6. ResultsWereSent'
      BY <1>19, <3>1, <3>4 DEF Execute, Sent, TypeOK, DriversOK, SentInv, ResultsWereSent
    <3> QED
      BY <3>5, <3>6
  <2> QED
    BY <1>19, SentFrame, <2>1 DEF SentInv, dbVars, handlerVars, dispVars,
        listVars, wireVars, driverVars, Execute
<1>20. ASSUME NEW d \in Drivers, DriverCrash(d) PROVE SentInv'
  <2>1. QueuedWereSent'
    BY <1>20, EmptySeq, SentGrows, SeqMonotonic DEF TypeOK, DriversOK,
        SentInv, QueuedWereSent, DriverCrash
  <2>2. ResultsWereSent'
    <3>1. UNCHANGED sends
      BY <1>20 DEF DriverCrash, histVars, paidVars
    <3> QED
      BY <1>20, <3>1, PrefixesOfSeq, EmptySeq
          DEF DriverCrash, Sent, TypeOK, DriversOK, SentInv, ResultsWereSent
  <2> QED
    BY <1>20, SentFrame, <2>1, <2>2 DEF SentInv, dbVars, handlerVars,
        dispVars, listVars, wireVars, driverVars, DriverCrash
<1>21. ASSUME NEW d \in Drivers, Release(d) PROVE SentInv'
  BY <1>21, SentFrame DEF SentInv, dbVars, handlerVars, dispVars, listVars,
      wireVars, driverVars, Release
<1>22. ASSUME NEW s \in Sessions, CloseSockets(s) PROVE SentInv'
  <2>1. DownWereSent' /\ ResultsWereSent'
    <3>1. UNCHANGED sends
      BY <1>22 DEF CloseSockets, histVars, paidVars
    <3>2. DownWereSent'
      BY <1>22, <3>1, EmptySeq DEF CloseSockets, Sent, TypeOK, WiresOK, SentInv, DownWereSent
    <3>3. ResultsWereSent'
      BY <1>22, <3>1, SuffixesOfSeq, EmptySeq
          DEF CloseSockets, Sent, TypeOK, DriversOK, SentInv, ResultsWereSent
    <3> QED
      BY <3>2, <3>3
  <2> QED
    BY <1>22, SentFrame, <2>1 DEF SentInv, dbVars, handlerVars, dispVars,
        listVars, wireVars, driverVars, CloseSockets
<1>23. ASSUME ServerCrash PROVE SentInv'
  <2>1. RecoveredWereSent' /\ MarkedWereSent' /\ AppliedWereSent' /\ DownWereSent'
    BY <1>23, EmptySeq DEF RecoveredWereSent, MarkedWereSent, AppliedWereSent,
        DownWereSent, ServerCrash
  <2>2. ResultsWereSent'
    <3>1. UNCHANGED sends
      BY <1>23 DEF ServerCrash, histVars, paidVars
    <3> QED
      BY <1>23, <3>1, SuffixesOfSeq, EmptySeq
          DEF ServerCrash, Sent, TypeOK, DriversOK, SentInv, ResultsWereSent
  <2> QED
    BY <1>23, SentFrame, <2>1, <2>2 DEF SentInv, dbVars, handlerVars,
        dispVars, listVars, wireVars, driverVars, ServerCrash
<1>25. ASSUME NEW s \in Sessions, StoreFails(s) PROVE SentInv'
  <2>1. AppliedWereSent'
    BY <1>25, SentGrows DEF TypeOK, ListenersOK, SentInv, AppliedWereSent, StoreFails
  <2> QED
    BY <1>25, <2>1, SentFrame DEF SentInv, dbVars, handlerVars, dispVars, wireVars,
        driverVars, StoreFails
<1>24. CASE UNCHANGED vars
  BY <1>24, SentFrame DEF SentInv, dbVars, handlerVars, dispVars, listVars,
      wireVars, driverVars, vars
<1> QED
  BY <1>1, <1>2, <1>3, <1>4, <1>5, <1>6, <1>7, <1>8, <1>9, <1>10, <1>11,
      <1>12, <1>13, <1>14, <1>15, <1>16, <1>17, <1>18, <1>19, <1>20, <1>21,
      <1>22, <1>23, <1>24, <1>25 DEF Next
-----------------------------------------------------------------------------
(* An early cancel is final. *)

\* Why: no dispatcher holds the job, and nothing else names a job never sent.
QuietInv ==
  \A j \in quiet :
    /\ status[j] = "cancelled"
    /\ j \notin Sent
    /\ \A s \in Sessions : djob[s] # j

LEMMA QuietFrame ==
  QuietInv /\ UNCHANGED <<status, djob, sends, quiet>> => QuietInv'
  BY DEF QuietInv, Sent

LEMMA QuietInit == Init => QuietInv
  BY DEF Init, QuietInv

LEMMA QuietStep == TypeOK /\ SentInv /\ QuietInv /\ [Next]_vars => QuietInv'
<1> SUFFICES ASSUME TypeOK, SentInv, QuietInv, [Next]_vars PROVE QuietInv'
  OBVIOUS
<1>1. ASSUME NEW j \in Jobs, Submit(j) PROVE QuietInv'
  <2>1. QuietInv'
    BY <1>1 DEF TypeOK, RecordsOK, QuietInv, Sent, dispVars, histVars, paidVars, Submit
  <2> QED
    BY <1>1, QuietFrame, <2>1 DEF dbVars, dispVars, histVars, paidVars, Submit
<1>2. ASSUME NEW j \in Jobs, CancelRead(j) PROVE QuietInv'
  BY <1>2, QuietFrame DEF dbVars, dispVars, histVars, paidVars, CancelRead
<1>3. ASSUME NEW j \in Jobs, CancelWrite(j) PROVE QuietInv'
  <2>1. QuietInv'
    BY <1>3, JobsAssumption DEF TypeOK, RecordsOK, QuietInv, DispatchersOK,
        Sent, Held, dispVars, CancelWrite
  <2> QED
    BY <1>3, QuietFrame, <2>1 DEF dbVars, dispVars, histVars, paidVars, CancelWrite
<1>4. ASSUME NEW j \in Jobs, RecoveryWrite(j) PROVE QuietInv'
  <2>1. j \notin quiet
    BY <1>4 DEF SentInv, RecoveredWereSent, QuietInv, RecoveryWrite
  <2>2. QuietInv'
    BY <1>4, <2>1 DEF TypeOK, RecordsOK, QuietInv, Sent, dispVars, histVars, paidVars,
        RecoveryWrite
  <2> QED
    BY <1>4, QuietFrame, <2>1, <2>2 DEF dbVars, dispVars, histVars, paidVars,
        RecoveryWrite
<1>5. ASSUME NEW q \in QPUs, StopServing(q) PROVE QuietInv'
  BY <1>5, QuietFrame DEF dbVars, dispVars, histVars, paidVars, StopServing
<1>6. ASSUME NEW q \in QPUs, ResumeServing(q) PROVE QuietInv'
  BY <1>6, QuietFrame DEF dbVars, dispVars, histVars, paidVars, ResumeServing
<1>7. ASSUME NEW S \in SUBSET Jobs, RecoveryScan(S) PROVE QuietInv'
  BY <1>7, QuietFrame DEF dbVars, dispVars, histVars, paidVars, RecoveryScan
<1>8. ASSUME NEW s \in Sessions, NEW j \in Jobs, Fetch(s, j) PROVE QuietInv'
  <2>1. status[j] = "pending"
    BY <1>8 DEF NextJobs, Oldest, Waiting, Fetch
  <2>2. QuietInv'
    BY <1>8, <2>1 DEF TypeOK, RecordsOK, QuietInv, DispatchersOK, Sent,
        dbVars, histVars, paidVars, Fetch
  <2> QED
    BY <1>8, QuietFrame, <2>1, <2>2 DEF dbVars, dispVars, histVars, paidVars, Fetch
<1>9. ASSUME NEW s \in Sessions, Send(s) PROVE QuietInv'
  <2>1. djob[s] \in Jobs \ quiet
    BY <1>9, HeldJob DEF TypeOK, QuietInv, Send
  <2>2. \A j \in quiet : sends'[j] = sends[j]
    BY <1>9, <2>1 DEF TypeOK, HistoryOK, Send
  <2>3. QuietInv'
    BY <1>9, <2>2 DEF TypeOK, HistoryOK, QuietInv, Sent, dbVars, Send
  <2> QED
    BY <1>9, QuietFrame, <2>1, <2>2, <2>3 DEF dbVars, dispVars, histVars, paidVars, Send
<1>10. ASSUME NEW s \in Sessions, SendReturnsError(s) PROVE QuietInv'
  <2>1. djob[s] \in Jobs \ quiet
    BY <1>10, HeldJob DEF TypeOK, QuietInv, SendReturnsError
  <2>2. QuietInv'
    BY <1>10, <2>1, JobsAssumption DEF TypeOK, RecordsOK, QuietInv,
        DispatchersOK, HistoryOK, Sent, histVars, paidVars, SendReturnsError
  <2> QED
    BY <1>10, QuietFrame, <2>1, <2>2 DEF dbVars, dispVars, histVars, paidVars,
        SendReturnsError
<1>11. ASSUME NEW s \in Sessions, MarkRunning(s) PROVE QuietInv'
  <2>1. djob[s] \in Jobs \ quiet
    BY <1>11, HeldJob DEF TypeOK, QuietInv, MarkRunning
  <2>2. QuietInv'
    BY <1>11, <2>1, JobsAssumption DEF TypeOK, RecordsOK, QuietInv,
        DispatchersOK, HistoryOK, Sent, histVars, paidVars, MarkRunning
  <2> QED
    BY <1>11, QuietFrame, <2>1, <2>2 DEF dbVars, dispVars, histVars, paidVars,
        MarkRunning
<1>12. ASSUME NEW s \in Sessions, DispatcherReturns(s) PROVE QuietInv'
  <2>1. QuietInv'
    BY <1>12, JobsAssumption DEF TypeOK, RecordsOK, QuietInv, DispatchersOK,
        HistoryOK, Sent, dbVars, histVars, paidVars, DispatcherReturns
  <2> QED
    BY <1>12, QuietFrame, <2>1 DEF dbVars, dispVars, histVars, paidVars,
        DispatcherReturns
<1>13. ASSUME NEW s \in Sessions, ReceiveResult(s) PROVE QuietInv'
  BY <1>13, QuietFrame DEF dbVars, dispVars, histVars, paidVars, ReceiveResult
<1>14. ASSUME NEW s \in Sessions, DropResult(s) PROVE QuietInv'
  BY <1>14, QuietFrame DEF dbVars, dispVars, histVars, paidVars, DropResult
<1>15. ASSUME NEW s \in Sessions, LoadJob(s) PROVE QuietInv'
  BY <1>15, QuietFrame DEF dbVars, dispVars, histVars, paidVars, LoadJob
<1>16. ASSUME NEW s \in Sessions, StoreResult(s) PROVE QuietInv'
  <2>1. lmsg[s].job \in Jobs \ quiet
    BY <1>16, AppliedMessage DEF TypeOK, ListenersOK, SentInv,
        AppliedWereSent, QuietInv, StoreResult
  <2>2. QuietInv'
    BY <1>16, <2>1 DEF TypeOK, RecordsOK, QuietInv, Sent, dispVars, histVars, paidVars,
        StoreResult
  <2> QED
    BY <1>16, QuietFrame, <2>1, <2>2 DEF dbVars, dispVars, histVars, paidVars,
        StoreResult
<1>17. ASSUME NEW d \in Drivers, NEW s \in Sessions, DriverStart(d, s) PROVE
     QuietInv'
  BY <1>17, QuietFrame DEF dbVars, dispVars, histVars, paidVars, DriverStart
<1>18. ASSUME NEW s \in Sessions, DriverReceive(s) PROVE QuietInv'
  BY <1>18, QuietFrame DEF dbVars, dispVars, histVars, paidVars, DriverReceive
<1>19. ASSUME NEW d \in Drivers, NEW o \in Outcomes, Execute(d, o) PROVE
     QuietInv'
  BY <1>19, QuietFrame DEF dbVars, dispVars, histVars, paidVars, Execute
<1>20. ASSUME NEW d \in Drivers, DriverCrash(d) PROVE QuietInv'
  BY <1>20, QuietFrame DEF dbVars, dispVars, histVars, paidVars, DriverCrash
<1>21. ASSUME NEW d \in Drivers, Release(d) PROVE QuietInv'
  BY <1>21, QuietFrame DEF dbVars, dispVars, histVars, paidVars, Release
<1>22. ASSUME NEW s \in Sessions, CloseSockets(s) PROVE QuietInv'
  BY <1>22, QuietFrame DEF dbVars, dispVars, histVars, paidVars, CloseSockets
<1>23. ASSUME ServerCrash PROVE QuietInv'
  <2>1. QuietInv'
    BY <1>23, JobsAssumption DEF TypeOK, RecordsOK, QuietInv, HistoryOK, Sent,
        dbVars, histVars, paidVars, ServerCrash
  <2> QED
    BY <1>23, QuietFrame, <2>1 DEF dbVars, dispVars, histVars, paidVars, ServerCrash
<1>25. ASSUME NEW s \in Sessions, StoreFails(s) PROVE QuietInv'
  BY <1>25, QuietFrame DEF dbVars, dispVars, histVars, paidVars, StoreFails
<1>24. CASE UNCHANGED vars
  BY <1>24, QuietFrame DEF dbVars, dispVars, histVars, paidVars, vars
<1> QED
  BY <1>1, <1>2, <1>3, <1>4, <1>5, <1>6, <1>7, <1>8, <1>9, <1>10, <1>11,
      <1>12, <1>13, <1>14, <1>15, <1>16, <1>17, <1>18, <1>19, <1>20, <1>21,
      <1>22, <1>23, <1>24, <1>25 DEF Next

\* Cancelling a job that no dispatcher has picked yet is final (handleJobCancel
\* against FetchNextJob, MarkRunning and RunRecoveryEngine).
THEOREM EarlyCancelHolds == Spec => []EarlyCancelIsFinal
<1>1. QuietInv /\ TypeOK => EarlyCancelIsFinal
  <2> SUFFICES ASSUME QuietInv, TypeOK, NEW j \in quiet
               PROVE  status[j] = "cancelled" /\ sends[j] = 0
    BY DEF EarlyCancelIsFinal
  <2>1. j \in Jobs /\ sends[j] \in Nat
    BY JobsAssumption DEF TypeOK, HistoryOK
  <2> QED
    BY <2>1 DEF QuietInv, Sent
<1> QED
  BY <1>1, TypeInit, TypeStep, SentInit, SentStep, QuietInit, QuietStep, PTL DEF Spec

-----------------------------------------------------------------------------
(* A switch lets one job through. *)

\* While the QPU serves, nothing is late; a session that has sent one job late
\* holds no other, and NextJobs gives it none.
LateInv ==
  \A s \in Sessions :
    /\ serving[Q(s)] => lateSends[s] = 0
    /\ lateSends[s] <= 1
    /\ lateSends[s] = 1 => dpc[s] # "fetched"

LEMMA LateFrame ==
  LateInv /\ UNCHANGED <<serving, dpc, lateSends>> => LateInv'
  BY DEF LateInv, Q

LEMMA LateInit == Init => LateInv
  BY JobsAssumption DEF Init, LateInv

LEMMA LateStep == TypeOK /\ LateInv /\ [Next]_vars => LateInv'
<1> SUFFICES ASSUME TypeOK, LateInv, [Next]_vars PROVE LateInv'
  OBVIOUS
<1>1. ASSUME NEW j \in Jobs, Submit(j) PROVE LateInv'
  BY <1>1, LateFrame DEF dispVars, histVars, paidVars, Submit
<1>2. ASSUME NEW j \in Jobs, CancelRead(j) PROVE LateInv'
  BY <1>2, LateFrame DEF dispVars, histVars, paidVars, CancelRead
<1>3. ASSUME NEW j \in Jobs, CancelWrite(j) PROVE LateInv'
  BY <1>3, LateFrame DEF dispVars, histVars, paidVars, CancelWrite
<1>4. ASSUME NEW j \in Jobs, RecoveryWrite(j) PROVE LateInv'
  BY <1>4, LateFrame DEF dispVars, histVars, paidVars, RecoveryWrite
<1>5. ASSUME NEW q \in QPUs, StopServing(q) PROVE LateInv'
  <2>1. LateInv'
    BY <1>5 DEF LateInv, TypeOK, RecordsOK, HistoryOK, dispVars, histVars, paidVars, Q,
        StopServing
  <2> QED
    BY <1>5, LateFrame, <2>1 DEF dispVars, histVars, paidVars, StopServing
<1>6. ASSUME NEW q \in QPUs, ResumeServing(q) PROVE LateInv'
  <2>1. LateInv'
    BY <1>6 DEF LateInv, TypeOK, RecordsOK, HistoryOK, dispVars, Q,
        ResumeServing
  <2> QED
    BY <1>6, LateFrame, <2>1 DEF dispVars, histVars, paidVars, ResumeServing
<1>7. ASSUME NEW S \in SUBSET Jobs, RecoveryScan(S) PROVE LateInv'
  BY <1>7, LateFrame DEF dispVars, histVars, paidVars, RecoveryScan
<1>8. ASSUME NEW s \in Sessions, NEW j \in Jobs, Fetch(s, j) PROVE LateInv'
  <2>1. serving[Q(s)]
    BY <1>8 DEF NextJobs, Fetch
  <2>2. LateInv'
    BY <1>8, <2>1 DEF LateInv, TypeOK, DispatchersOK, histVars, paidVars, Fetch
  <2> QED
    BY <1>8, LateFrame, <2>1, <2>2 DEF dispVars, histVars, paidVars, Fetch
<1>9. ASSUME NEW s \in Sessions, Send(s) PROVE LateInv'
  <2>1. lateSends[s] = 0
    BY <1>9 DEF LateInv, TypeOK, HistoryOK, Send
  <2>2. LateInv'
    <3>1. CASE serving[Q(s)]
      BY <1>9, <3>1 DEF Send, LateInv, TypeOK, DispatchersOK, HistoryOK, Q
    <3>2. CASE ~serving[Q(s)]
      <4>1. lateSends' = [lateSends EXCEPT ![s] = 1] /\ dpc' = [dpc EXCEPT ![s] = "sent"]
        BY <1>9, <2>1, <3>2 DEF Send, TypeOK, HistoryOK
      <4> QED
        BY <1>9, <3>2, <4>1 DEF Send, LateInv, TypeOK, DispatchersOK, HistoryOK, Q
    <3> QED
      BY <3>1, <3>2
  <2> QED
    BY <1>9, LateFrame, <2>1, <2>2 DEF dispVars, histVars, paidVars, Send
<1>10. ASSUME NEW s \in Sessions, SendReturnsError(s) PROVE LateInv'
  <2>1. LateInv'
    BY <1>10 DEF LateInv, TypeOK, DispatchersOK, histVars, paidVars, Q, SendReturnsError
  <2> QED
    BY <1>10, LateFrame, <2>1 DEF dispVars, histVars, paidVars, SendReturnsError
<1>11. ASSUME NEW s \in Sessions, MarkRunning(s) PROVE LateInv'
  <2>1. LateInv'
    BY <1>11 DEF LateInv, TypeOK, DispatchersOK, histVars, paidVars, Q, MarkRunning
  <2> QED
    BY <1>11, LateFrame, <2>1 DEF dispVars, histVars, paidVars, MarkRunning
<1>12. ASSUME NEW s \in Sessions, DispatcherReturns(s) PROVE LateInv'
  <2>1. LateInv'
    BY <1>12 DEF LateInv, TypeOK, DispatchersOK, histVars, paidVars, Q,
        DispatcherReturns
  <2> QED
    BY <1>12, LateFrame, <2>1 DEF dispVars, histVars, paidVars, DispatcherReturns
<1>13. ASSUME NEW s \in Sessions, ReceiveResult(s) PROVE LateInv'
  BY <1>13, LateFrame DEF dispVars, histVars, paidVars, ReceiveResult
<1>14. ASSUME NEW s \in Sessions, DropResult(s) PROVE LateInv'
  BY <1>14, LateFrame DEF dispVars, histVars, paidVars, DropResult
<1>15. ASSUME NEW s \in Sessions, LoadJob(s) PROVE LateInv'
  BY <1>15, LateFrame DEF dispVars, histVars, paidVars, LoadJob
<1>16. ASSUME NEW s \in Sessions, StoreResult(s) PROVE LateInv'
  BY <1>16, LateFrame DEF dispVars, histVars, paidVars, StoreResult
<1>17. ASSUME NEW d \in Drivers, NEW s \in Sessions, DriverStart(d, s) PROVE
     LateInv'
  <2>1. LateInv'
    BY <1>17 DEF LateInv, TypeOK, DispatchersOK, histVars, paidVars, Q, DriverStart
  <2> QED
    BY <1>17, LateFrame, <2>1 DEF dispVars, histVars, paidVars, DriverStart
<1>18. ASSUME NEW s \in Sessions, DriverReceive(s) PROVE LateInv'
  BY <1>18, LateFrame DEF dispVars, histVars, paidVars, DriverReceive
<1>19. ASSUME NEW d \in Drivers, NEW o \in Outcomes, Execute(d, o) PROVE
     LateInv'
  BY <1>19, LateFrame DEF dispVars, histVars, paidVars, Execute
<1>20. ASSUME NEW d \in Drivers, DriverCrash(d) PROVE LateInv'
  BY <1>20, LateFrame DEF dispVars, histVars, paidVars, DriverCrash
<1>21. ASSUME NEW d \in Drivers, Release(d) PROVE LateInv'
  BY <1>21, LateFrame DEF dispVars, histVars, paidVars, Release
<1>22. ASSUME NEW s \in Sessions, CloseSockets(s) PROVE LateInv'
  BY <1>22, LateFrame DEF dispVars, histVars, paidVars, CloseSockets
<1>23. ASSUME ServerCrash PROVE LateInv'
  <2>1. LateInv'
    BY <1>23 DEF LateInv, TypeOK, histVars, paidVars, Q, ServerCrash
  <2> QED
    BY <1>23, LateFrame, <2>1 DEF dispVars, histVars, paidVars, ServerCrash
<1>25. ASSUME NEW s \in Sessions, StoreFails(s) PROVE LateInv'
  BY <1>25, LateFrame DEF dispVars, histVars, paidVars, StoreFails
<1>24. CASE UNCHANGED vars
  BY <1>24, LateFrame DEF dispVars, histVars, paidVars, vars
<1> QED
  BY <1>1, <1>2, <1>3, <1>4, <1>5, <1>6, <1>7, <1>8, <1>9, <1>10, <1>11,
      <1>12, <1>13, <1>14, <1>15, <1>16, <1>17, <1>18, <1>19, <1>20, <1>21,
      <1>22, <1>23, <1>24, <1>25 DEF Next

\* A switch-off lets each dispatcher send at most the one job it had fetched
\* (UnavailableReason in FetchNextJob, against runDriverDispatcher).
THEOREM SwitchOffHolds == Spec => []SwitchOffLetsOneThrough
<1>1. LateInv => SwitchOffLetsOneThrough
  BY DEF LateInv, SwitchOffLetsOneThrough
<1> QED
  BY <1>1, TypeInit, TypeStep, LateInit, LateStep, PTL DEF Spec

-----------------------------------------------------------------------------
(* Jobs of one user for one QPU are first sent oldest first. *)

Submitted == {j \in Jobs : status[j] # "absent"}
Claimed == Sent \cup {j \in Jobs : \E s \in Sessions : djob[s] = j}

NamedWereSubmitted ==
  /\ cancelling \subseteq Submitted
  /\ Claimed \subseteq Submitted
SubmittedInOrder ==
  \A i, j \in Jobs : i < j /\ j \in Submitted => i \in Submitted
CancelledIsRecorded ==
  \A j \in Jobs : status[j] = "cancelled" => j \in everCancelled

\* A job that a dispatcher holds, or has sent, leaves no older one of the same
\* user behind that was neither sent nor cancelled.
OldestClaimedFirst ==
  \A i, j \in Jobs :
    i < j /\ Owner[i] = Owner[j] /\ Target[i] = Target[j] /\ j \in Claimed
      => i \in Sent \/ i \in everCancelled

QueueInv ==
  /\ NamedWereSubmitted /\ SubmittedInOrder
  /\ CancelledIsRecorded /\ OldestClaimedFirst

\* Every write of a status is of a submitted job, so a job stays submitted and
\* only Submit adds one.
LEMMA SubmittedStep ==
  ASSUME TypeOK, SentInv, NamedWereSubmitted, [Next]_vars
  PROVE  Submitted' = Submitted \/ \E j \in Jobs : Submit(j)
<1>1. CASE UNCHANGED status
  BY <1>1 DEF Submitted
<1>2. ASSUME NEW j \in Jobs, CancelWrite(j) PROVE Submitted' = Submitted
  <2>1. j \in Submitted
    BY <1>2 DEF NamedWereSubmitted, CancelWrite
  <2> QED
    BY <1>2, <2>1 DEF CancelWrite, Submitted, TypeOK, RecordsOK
<1>3. ASSUME NEW j \in Jobs, RecoveryWrite(j) PROVE Submitted' = Submitted
  <2>1. j \in Submitted
    BY <1>3 DEF NamedWereSubmitted, RecoveryWrite, SentInv, RecoveredWereSent, Claimed
  <2> QED
    BY <1>3, <2>1 DEF RecoveryWrite, Submitted, TypeOK, RecordsOK
<1>4. ASSUME NEW s \in Sessions, SendReturnsError(s) PROVE Submitted' = Submitted
  <2>1. djob[s] \in Submitted
    BY <1>4, HeldJob DEF TypeOK, NamedWereSubmitted, SendReturnsError, Claimed
  <2> QED
    BY <1>4, <2>1 DEF SendReturnsError, Submitted, TypeOK, RecordsOK
<1>5. ASSUME NEW s \in Sessions, MarkRunning(s) PROVE Submitted' = Submitted
  <2>1. djob[s] \in Submitted
    BY <1>5, HeldJob DEF TypeOK, NamedWereSubmitted, MarkRunning, Claimed
  <2> QED
    BY <1>5, <2>1 DEF MarkRunning, Submitted, TypeOK, RecordsOK
<1>6. ASSUME NEW s \in Sessions, StoreResult(s) PROVE Submitted' = Submitted
  <2>1. lmsg[s].job \in Submitted /\ lmsg[s].outcome \in Outcomes
    BY <1>6, AppliedMessage DEF TypeOK, ListenersOK, StoreResult, SentInv,
                                AppliedWereSent, NamedWereSubmitted, Claimed
  <2>2. CASE UNCHANGED status
    BY <2>2 DEF Submitted
  <2>3. CASE status' = [status EXCEPT ![lmsg[s].job] = lmsg[s].outcome]
    BY <2>1, <2>3 DEF Submitted, TypeOK, RecordsOK, Outcomes
  <2> QED
    BY <1>6, <2>2, <2>3 DEF StoreResult
<1>7. \/ UNCHANGED status
      \/ \E j \in Jobs : Submit(j) \/ CancelWrite(j) \/ RecoveryWrite(j)
      \/ \E s \in Sessions : SendReturnsError(s) \/ MarkRunning(s) \/ StoreResult(s)
  BY DEF Next, vars, dbVars, CancelRead, StopServing, ResumeServing, RecoveryScan,
         Fetch, Send, DispatcherReturns, ReceiveResult, DropResult, LoadJob, StoreFails,
         DriverStart, DriverReceive, Execute, DriverCrash, Release, CloseSockets,
         ServerCrash
<1> QED
  BY <1>1, <1>2, <1>3, <1>4, <1>5, <1>6, <1>7

LEMMA SubmittedGrows ==
  ASSUME TypeOK, SentInv, NamedWereSubmitted, [Next]_vars
  PROVE  Submitted \subseteq Submitted'
<1>1. ASSUME NEW j \in Jobs, Submit(j) PROVE Submitted \subseteq Submitted'
  BY <1>1 DEF Submit, Submitted, TypeOK, RecordsOK
<1> QED
  BY <1>1, SubmittedStep

\* Only the query claims a job.
LEMMA ClaimedStep ==
  ASSUME TypeOK, [Next]_vars
  PROVE  \/ Claimed' \subseteq Claimed
         \/ \E s \in Sessions, j \in Jobs : Fetch(s, j) /\ Claimed' \subseteq Claimed \cup {j}
<1>1. CASE UNCHANGED <<sends, djob>>
  BY <1>1 DEF Claimed, Sent
<1>2. ASSUME NEW s \in Sessions, Send(s) PROVE Claimed' \subseteq Claimed
  <2>1. djob[s] \in Claimed
    BY <1>2, HeldJob DEF TypeOK, Send, Claimed
  <2>2. \A j \in Jobs \ {djob[s]} : sends'[j] = sends[j]
    BY <1>2 DEF Send, TypeOK, HistoryOK
  <2> QED
    BY <1>2, <2>1, <2>2 DEF Send, Claimed, Sent
<1>3. ASSUME UNCHANGED sends, NEW s \in Sessions, djob' = [djob EXCEPT ![s] = NoJob]
      PROVE  Claimed' \subseteq Claimed
  BY <1>3, JobsAssumption DEF Claimed, Sent, TypeOK, DispatchersOK
<1>4. CASE ServerCrash
  BY <1>4, JobsAssumption DEF ServerCrash, histVars, paidVars, Claimed, Sent
<1>5. ASSUME NEW s \in Sessions, NEW j \in Jobs, Fetch(s, j)
      PROVE  Claimed' \subseteq Claimed \cup {j}
  BY <1>5 DEF Fetch, histVars, paidVars, Claimed, Sent, TypeOK, DispatchersOK
<1>6. \/ UNCHANGED <<sends, djob>>
      \/ \E s \in Sessions : Send(s)
      \/ UNCHANGED sends /\ \E s \in Sessions : djob' = [djob EXCEPT ![s] = NoJob]
      \/ ServerCrash
      \/ \E s \in Sessions, j \in Jobs : Fetch(s, j)
  BY DEF Next, vars, dispVars, histVars, paidVars, Submit, CancelRead, CancelWrite, RecoveryWrite,
         StopServing, ResumeServing, RecoveryScan, SendReturnsError,
         MarkRunning, DispatcherReturns, ReceiveResult, DropResult, LoadJob, StoreFails,
         StoreResult, DriverStart, DriverReceive, Execute, DriverCrash, Release,
         CloseSockets
<1> QED
  BY <1>1, <1>2, <1>3, <1>4, <1>5, <1>6

LEMMA QueueInit == Init => QueueInv
  BY JobsAssumption DEF Init, QueueInv, NamedWereSubmitted, SubmittedInOrder,
     CancelledIsRecorded, OldestClaimedFirst, Submitted, Claimed, Sent

LEMMA NamedStep ==
  TypeOK /\ SentInv /\ QueueInv /\ [Next]_vars => NamedWereSubmitted'
<1> SUFFICES ASSUME TypeOK, SentInv, QueueInv, [Next]_vars PROVE NamedWereSubmitted'
  OBVIOUS
<1>1. Submitted \subseteq Submitted'
  BY SubmittedGrows DEF QueueInv
<1>2. Claimed' \subseteq Submitted'
  <2>1. ASSUME NEW s \in Sessions, NEW j \in Jobs, Fetch(s, j) PROVE j \in Submitted
    BY <2>1 DEF Fetch, NextJobs, Oldest, Waiting, Submitted
  <2> QED
    BY <1>1, <2>1, ClaimedStep DEF QueueInv, NamedWereSubmitted
<1>3. cancelling' \subseteq Submitted'
  <2>1. ASSUME NEW j \in Jobs, CancelRead(j) PROVE cancelling' \subseteq Submitted
    BY <2>1 DEF CancelRead, Submitted, QueueInv, NamedWereSubmitted
  <2>2. cancelling' \subseteq cancelling \/ \E j \in Jobs : CancelRead(j)
    BY DEF Next, vars, handlerVars, Submit, CancelWrite, RecoveryWrite,
           StopServing, ResumeServing, RecoveryScan, Fetch, Send, SendReturnsError,
           MarkRunning, DispatcherReturns, ReceiveResult, DropResult, LoadJob, StoreFails,
           StoreResult, DriverStart, DriverReceive, Execute, DriverCrash, Release,
           CloseSockets, ServerCrash
  <2> QED
    BY <1>1, <2>1, <2>2 DEF QueueInv, NamedWereSubmitted
<1> QED
  BY <1>2, <1>3 DEF NamedWereSubmitted

LEMMA OrderStep ==
  TypeOK /\ SentInv /\ QueueInv /\ [Next]_vars => SubmittedInOrder'
<1> SUFFICES ASSUME TypeOK, SentInv, QueueInv, [Next]_vars PROVE SubmittedInOrder'
  OBVIOUS
<1>1. ASSUME NEW j \in Jobs, Submit(j) PROVE SubmittedInOrder'
  <2>1. \A i \in Jobs : i < j => i \in Submitted
    BY <1>1 DEF Submit, Submitted
  <2>2. Submitted' = Submitted \cup {j}
    BY <1>1 DEF Submit, Submitted, TypeOK, RecordsOK
  <2> QED
    BY <2>1, <2>2 DEF QueueInv, SubmittedInOrder
<1>2. CASE Submitted' = Submitted
  BY <1>2 DEF QueueInv, SubmittedInOrder
<1> QED
  BY <1>1, <1>2, SubmittedStep DEF QueueInv

LEMMA RecordedStep ==
  TypeOK /\ QueueInv /\ [Next]_vars =>
    /\ everCancelled \subseteq everCancelled'
    /\ CancelledIsRecorded'
<1> SUFFICES ASSUME TypeOK, QueueInv, [Next]_vars
             PROVE  everCancelled \subseteq everCancelled' /\ CancelledIsRecorded'
  OBVIOUS
<1>1. ASSUME NEW j \in Jobs, CancelWrite(j)
      PROVE  everCancelled \subseteq everCancelled' /\ CancelledIsRecorded'
  BY <1>1 DEF CancelWrite, QueueInv, CancelledIsRecorded, TypeOK, RecordsOK
<1>2. ASSUME UNCHANGED everCancelled, NEW j \in Jobs, NEW x, x # "cancelled",
             status' = [status EXCEPT ![j] = x]
      PROVE  CancelledIsRecorded'
  BY <1>2 DEF QueueInv, CancelledIsRecorded, TypeOK, RecordsOK
<1>3. ASSUME NEW s \in Sessions, StoreResult(s)
      PROVE  UNCHANGED everCancelled /\ CancelledIsRecorded'
  <2>1. UNCHANGED everCancelled /\ lmsg[s].job \in Jobs /\ lmsg[s].outcome # "cancelled"
    BY <1>3, AppliedMessage DEF StoreResult, histVars, paidVars, TypeOK, Outcomes
  <2>2. CASE UNCHANGED status
    BY <2>1, <2>2 DEF QueueInv, CancelledIsRecorded
  <2>3. CASE status' = [status EXCEPT ![lmsg[s].job] = lmsg[s].outcome]
    BY <2>1, <2>3, <1>2
  <2> QED
    BY <1>3, <2>1, <2>2, <2>3 DEF StoreResult
<1>4. ASSUME NEW s \in Sessions, SendReturnsError(s) \/ MarkRunning(s)
      PROVE  UNCHANGED everCancelled /\ CancelledIsRecorded'
  <2>1. djob[s] \in Jobs /\ UNCHANGED everCancelled
    BY <1>4, HeldJob DEF SendReturnsError, MarkRunning, histVars, paidVars, TypeOK
  <2>2. \E x \in {"pending", "running"} : status' = [status EXCEPT ![djob[s]] = x]
    BY <1>4 DEF SendReturnsError, MarkRunning
  <2> QED
    BY <1>2, <2>1, <2>2
<1>5. ASSUME NEW j \in Jobs, Submit(j) \/ RecoveryWrite(j)
      PROVE  UNCHANGED everCancelled /\ CancelledIsRecorded'
  <2>1. UNCHANGED everCancelled /\ status' = [status EXCEPT ![j] = "pending"]
    BY <1>5 DEF Submit, RecoveryWrite, histVars, paidVars
  <2> QED
    BY <1>2, <2>1
<1>6. CASE UNCHANGED <<status, everCancelled>>
  BY <1>6 DEF QueueInv, CancelledIsRecorded
<1>7. \/ UNCHANGED <<status, everCancelled>>
      \/ \E j \in Jobs : CancelWrite(j) \/ Submit(j) \/ RecoveryWrite(j)
      \/ \E s \in Sessions : StoreResult(s) \/ SendReturnsError(s) \/ MarkRunning(s)
  BY DEF Next, vars, dbVars, histVars, paidVars, CancelRead, StopServing, ResumeServing,
         RecoveryScan, Fetch, Send, DispatcherReturns, ReceiveResult, DropResult,
         LoadJob, StoreFails, DriverStart, DriverReceive, Execute, DriverCrash, Release,
         CloseSockets, ServerCrash
<1> QED
  BY <1>1, <1>3, <1>4, <1>5, <1>6, <1>7

LEMMA OldestStep ==
  TypeOK /\ SentInv /\ QueueInv /\ [Next]_vars => OldestClaimedFirst'
<1> SUFFICES ASSUME TypeOK, SentInv, QueueInv, [Next]_vars PROVE OldestClaimedFirst'
  OBVIOUS
<1>1. Sent \subseteq Sent' /\ everCancelled \subseteq everCancelled'
  BY SentGrows, RecordedStep
<1>2. CASE Claimed' \subseteq Claimed
  BY <1>1, <1>2 DEF QueueInv, OldestClaimedFirst
<1>3. ASSUME NEW s \in Sessions, NEW j \in Jobs, Fetch(s, j),
             Claimed' \subseteq Claimed \cup {j}
      PROVE  OldestClaimedFirst'
  <2>1. ASSUME NEW i \in Jobs, i < j, Owner[i] = Owner[j], Target[i] = Target[j]
        PROVE  i \in Sent \/ i \in everCancelled
    <3>1. j \in Oldest(Waiting(Q(s)))
      BY <1>3 DEF Fetch, NextJobs
    <3>2. j \in Submitted /\ Target[j] = Q(s)
      BY <3>1 DEF Oldest, Waiting, Submitted
    <3>3. i \in Submitted
      BY <2>1, <3>2 DEF QueueInv, SubmittedInOrder
    <3>4. ~(j <= i)
      BY <2>1, JobsAssumption
    <3>5. status[i] # "pending"
      BY <2>1, <3>1, <3>2, <3>4 DEF Oldest, Waiting
    <3>6. status[i] \in {"running", "cancelled"} \cup Outcomes
      BY <3>3, <3>5 DEF Submitted, TypeOK, RecordsOK, Statuses
    <3> QED
      BY <3>6 DEF SentInv, StartedWereSent, QueueInv, CancelledIsRecorded
  <2> QED
    BY <1>1, <1>3, <2>1 DEF QueueInv, OldestClaimedFirst
<1> QED
  BY <1>2, <1>3, ClaimedStep

LEMMA QueueStep == TypeOK /\ SentInv /\ QueueInv /\ [Next]_vars => QueueInv'
  BY NamedStep, OrderStep, RecordedStep, OldestStep DEF QueueInv

\* Jobs of one user for one QPU are first sent in the order they were submitted,
\* a cancelled one aside (the `+created` sort of FetchNextJob, against every
\* write that puts a job back in the queue).
THEOREM OldestFirstHolds == Spec => []OldestFirst
<1>1. TypeOK /\ QueueInv => OldestFirst
  <2> SUFFICES ASSUME TypeOK, QueueInv, NEW i \in Jobs, NEW j \in Jobs,
                      i < j, Owner[i] = Owner[j], Target[i] = Target[j],
                      sends[j] > 0, sends[i] = 0
               PROVE  i \in everCancelled
    BY DEF OldestFirst
  <2>1. j \in Claimed /\ i \notin Sent
    BY DEF Claimed, Sent
  <2> QED
    BY <2>1 DEF QueueInv, OldestClaimedFirst
<1> QED
  BY <1>1, TypeInit, TypeStep, SentInit, SentStep, QueueInit, QueueStep, PTL DEF Spec

-----------------------------------------------------------------------------
(* A finished job ran, on a process driver of the QPU it targets. *)

For(q) == {j \in Jobs : Target[j] = q}

HeldForQPU == \A s \in Sessions : djob[s] # NoJob => djob[s] \in For(Q(s))
DownForQPU == \A s \in Sessions : down[s] \in Seq(For(Q(s)))
QueuedForQPU ==
  \A d \in Drivers : queue[d] \in Seq({j \in For(DriverQPU[d]) : d \in Processors})
RanForQPU ==
  \A j \in Jobs : \A d \in ranOn[j] : d \in Processors /\ DriverQPU[d] = Target[j]

\* A job is on its way only to a driver of its QPU.
RouteInv == HeldForQPU /\ DownForQPU /\ QueuedForQPU /\ RanForQPU

LEMMA RouteFrame ==
  ASSUME RouteInv
  PROVE  /\ UNCHANGED dispVars => HeldForQPU'
         /\ UNCHANGED down => DownForQPU'
         /\ UNCHANGED queue => QueuedForQPU'
         /\ UNCHANGED ranOn => RanForQPU'
<1>1. UNCHANGED dispVars => HeldForQPU'
  BY DEF RouteInv, HeldForQPU, dispVars, Q
<1>2. UNCHANGED down => DownForQPU'
  BY DEF RouteInv, DownForQPU, Q
<1>3. UNCHANGED queue => QueuedForQPU'
  BY DEF RouteInv, QueuedForQPU
<1>4. UNCHANGED ranOn => RanForQPU'
  BY DEF RouteInv, RanForQPU
<1> QED
  BY <1>1, <1>2, <1>3, <1>4

LEMMA RouteInit == Init => RouteInv
<1> SUFFICES ASSUME Init PROVE RouteInv
  OBVIOUS
<1>1. HeldForQPU /\ RanForQPU
  BY DEF Init, HeldForQPU, RanForQPU
<1>2. DownForQPU /\ QueuedForQPU
  BY EmptySeq DEF Init, DownForQPU, QueuedForQPU
<1> QED
  BY <1>1, <1>2 DEF RouteInv

LEMMA RouteStep == TypeOK /\ RouteInv /\ [Next]_vars => RouteInv'
<1> SUFFICES ASSUME TypeOK, RouteInv, [Next]_vars PROVE RouteInv'
  OBVIOUS
<1>1. ASSUME NEW j \in Jobs, Submit(j) PROVE RouteInv'
  BY <1>1, RouteFrame DEF RouteInv, dispVars, wireVars, driverVars, histVars, paidVars,
      Submit
<1>2. ASSUME NEW j \in Jobs, CancelRead(j) PROVE RouteInv'
  BY <1>2, RouteFrame DEF RouteInv, dispVars, wireVars, driverVars, histVars, paidVars,
      CancelRead
<1>3. ASSUME NEW j \in Jobs, CancelWrite(j) PROVE RouteInv'
  BY <1>3, RouteFrame DEF RouteInv, dispVars, wireVars, driverVars, histVars, paidVars,
      CancelWrite
<1>4. ASSUME NEW j \in Jobs, RecoveryWrite(j) PROVE RouteInv'
  BY <1>4, RouteFrame DEF RouteInv, dispVars, wireVars, driverVars, histVars, paidVars,
      RecoveryWrite
<1>5. ASSUME NEW q \in QPUs, StopServing(q) PROVE RouteInv'
  BY <1>5, RouteFrame DEF RouteInv, dispVars, wireVars, driverVars, histVars, paidVars,
      StopServing
<1>6. ASSUME NEW q \in QPUs, ResumeServing(q) PROVE RouteInv'
  BY <1>6, RouteFrame DEF RouteInv, dispVars, wireVars, driverVars, histVars, paidVars,
      ResumeServing
<1>7. ASSUME NEW S \in SUBSET Jobs, RecoveryScan(S) PROVE RouteInv'
  BY <1>7, RouteFrame DEF RouteInv, dispVars, wireVars, driverVars, histVars, paidVars,
      RecoveryScan
<1>8. ASSUME NEW s \in Sessions, NEW j \in Jobs, Fetch(s, j) PROVE RouteInv'
  <2>1. j \in For(Q(s))
    BY <1>8 DEF NextJobs, Oldest, Waiting, For, Fetch
  <2>2. HeldForQPU'
    BY <1>8, <2>1 DEF TypeOK, DispatchersOK, RouteInv, HeldForQPU, Q, Fetch
  <2> QED
    BY <1>8, RouteFrame, <2>1, <2>2 DEF RouteInv, dispVars, wireVars,
        driverVars, histVars, paidVars, Fetch
<1>9. ASSUME NEW s \in Sessions, Send(s) PROVE RouteInv'
  <2>1. HeldForQPU'
    BY <1>9 DEF TypeOK, DispatchersOK, RouteInv, HeldForQPU, Q, Send
  <2>2. DownForQPU'
    <3>1. djob[s] \in For(Q(s)) /\ down[s] \in Seq(For(Q(s)))
      BY <1>9, HeldJob, JobsAssumption DEF Send, TypeOK, RouteInv, HeldForQPU, DownForQPU
    <3>2. Append(down[s], djob[s]) \in Seq(For(Q(s)))
      BY <3>1, AppendProperties
    <3> QED
      BY <1>9, <3>2 DEF Send, TypeOK, WiresOK, RouteInv, DownForQPU, Q
  <2> QED
    BY <1>9, RouteFrame, <2>1, <2>2 DEF RouteInv, dispVars, wireVars,
        driverVars, histVars, paidVars, Send
<1>10. ASSUME NEW s \in Sessions, SendReturnsError(s) PROVE RouteInv'
  <2>1. HeldForQPU'
    BY <1>10 DEF TypeOK, DispatchersOK, RouteInv, HeldForQPU, Q,
        SendReturnsError
  <2> QED
    BY <1>10, RouteFrame, <2>1 DEF RouteInv, dispVars, wireVars, driverVars,
        histVars, paidVars, SendReturnsError
<1>11. ASSUME NEW s \in Sessions, MarkRunning(s) PROVE RouteInv'
  <2>1. HeldForQPU'
    BY <1>11 DEF TypeOK, DispatchersOK, RouteInv, HeldForQPU, Q, MarkRunning
  <2> QED
    BY <1>11, RouteFrame, <2>1 DEF RouteInv, dispVars, wireVars, driverVars,
        histVars, paidVars, MarkRunning
<1>12. ASSUME NEW s \in Sessions, DispatcherReturns(s) PROVE RouteInv'
  <2>1. HeldForQPU'
    BY <1>12 DEF TypeOK, DispatchersOK, RouteInv, HeldForQPU, Q,
        DispatcherReturns
  <2> QED
    BY <1>12, RouteFrame, <2>1 DEF RouteInv, dispVars, wireVars, driverVars,
        histVars, paidVars, DispatcherReturns
<1>13. ASSUME NEW s \in Sessions, ReceiveResult(s) PROVE RouteInv'
  BY <1>13, RouteFrame DEF RouteInv, dispVars, wireVars, driverVars, histVars, paidVars,
      ReceiveResult
<1>14. ASSUME NEW s \in Sessions, DropResult(s) PROVE RouteInv'
  BY <1>14, RouteFrame DEF RouteInv, dispVars, wireVars, driverVars, histVars, paidVars,
      DropResult
<1>15. ASSUME NEW s \in Sessions, LoadJob(s) PROVE RouteInv'
  BY <1>15, RouteFrame DEF RouteInv, dispVars, wireVars, driverVars, histVars, paidVars,
      LoadJob
<1>16. ASSUME NEW s \in Sessions, StoreResult(s) PROVE RouteInv'
  BY <1>16, RouteFrame DEF RouteInv, dispVars, wireVars, driverVars, histVars, paidVars,
      StoreResult
<1>17. ASSUME NEW d \in Drivers, NEW s \in Sessions, DriverStart(d, s) PROVE
     RouteInv'
  <2>1. HeldForQPU'
    BY <1>17 DEF TypeOK, DispatchersOK, RouteInv, HeldForQPU, Q, DriverStart
  <2> QED
    BY <1>17, RouteFrame, <2>1 DEF RouteInv, dispVars, wireVars, driverVars,
        histVars, paidVars, DriverStart
<1>18. ASSUME NEW s \in Sessions, DriverReceive(s) PROVE RouteInv'
  <2>1. down[s] # <<>> /\ Head(down[s]) \in For(Q(s)) /\ Tail(down[s]) \in Seq(For(Q(s)))
    BY <1>18, HeadTailProperties DEF RouteInv, DownForQPU, DriverReceive
  <2>2. DownForQPU'
    BY <1>18, <2>1 DEF TypeOK, WiresOK, RouteInv, DownForQPU, Q, DriverReceive
  <2>3. QueuedForQPU'
    <3> DEFINE d == SessionDriver[s]
               mine == {j \in For(DriverQPU[d]) : d \in Processors}
    <3>1. CASE UNCHANGED queue
      BY <3>1, RouteFrame
    <3>2. CASE d \in Processors /\ queue' = [queue EXCEPT ![d] = Append(@, Head(down[s]))]
      <4>1. d \in Drivers /\ queue[d] \in Seq(mine) /\ Head(down[s]) \in mine
        BY <2>1, <3>2, JobsAssumption DEF RouteInv, QueuedForQPU, Q
      <4>2. Append(queue[d], Head(down[s])) \in Seq(mine)
        BY <4>1, AppendProperties
      <4> QED
        BY <3>2, <4>1, <4>2 DEF TypeOK, DriversOK, RouteInv, QueuedForQPU
    <3> QED
      BY <1>18, <3>1, <3>2 DEF DriverReceive
  <2> QED
    BY <1>18, RouteFrame, <2>1, <2>2, <2>3 DEF RouteInv, dispVars, wireVars,
        driverVars, histVars, paidVars, DriverReceive
<1>19. ASSUME NEW d \in Drivers, NEW o \in Outcomes, Execute(d, o) PROVE
     RouteInv'
  <2>1. /\ Head(queue[d]) \in {j \in For(DriverQPU[d]) : d \in Processors}
        /\ Tail(queue[d]) \in Seq({j \in For(DriverQPU[d]) : d \in Processors})
    BY <1>19, HeadTailProperties DEF RouteInv, QueuedForQPU, Execute
  <2>2. QueuedForQPU'
    BY <1>19, <2>1 DEF TypeOK, DriversOK, RouteInv, QueuedForQPU, Execute
  <2>3. RanForQPU'
    BY <1>19, <2>1 DEF TypeOK, HistoryOK, RouteInv, RanForQPU, For, Execute
  <2> QED
    BY <1>19, RouteFrame, <2>1, <2>2, <2>3 DEF RouteInv, dispVars, wireVars,
        driverVars, histVars, paidVars, Execute
<1>20. ASSUME NEW d \in Drivers, DriverCrash(d) PROVE RouteInv'
  <2>1. QueuedForQPU'
    BY <1>20, EmptySeq DEF TypeOK, DriversOK, RouteInv, QueuedForQPU,
        DriverCrash
  <2> QED
    BY <1>20, RouteFrame, <2>1 DEF RouteInv, dispVars, wireVars, driverVars,
        histVars, paidVars, DriverCrash
<1>21. ASSUME NEW d \in Drivers, Release(d) PROVE RouteInv'
  BY <1>21, RouteFrame DEF RouteInv, dispVars, wireVars, driverVars, histVars, paidVars,
      Release
<1>22. ASSUME NEW s \in Sessions, CloseSockets(s) PROVE RouteInv'
  <2>1. DownForQPU'
    BY <1>22, EmptySeq DEF TypeOK, WiresOK, RouteInv, DownForQPU, Q,
        CloseSockets
  <2> QED
    BY <1>22, RouteFrame, <2>1 DEF RouteInv, dispVars, wireVars, driverVars,
        histVars, paidVars, CloseSockets
<1>23. ASSUME ServerCrash PROVE RouteInv'
  <2>1. HeldForQPU' /\ DownForQPU'
    BY <1>23, EmptySeq DEF HeldForQPU, DownForQPU, ServerCrash
  <2> QED
    BY <1>23, RouteFrame, <2>1 DEF RouteInv, dispVars, wireVars, driverVars,
        histVars, paidVars, ServerCrash
<1>25. ASSUME NEW s \in Sessions, StoreFails(s) PROVE RouteInv'
  BY <1>25, RouteFrame DEF RouteInv, dispVars, wireVars, driverVars, histVars, paidVars,
      StoreFails
<1>24. CASE UNCHANGED vars
  BY <1>24, RouteFrame DEF RouteInv, dispVars, wireVars, driverVars, histVars, paidVars,
      vars
<1> QED
  BY <1>1, <1>2, <1>3, <1>4, <1>5, <1>6, <1>7, <1>8, <1>9, <1>10, <1>11,
      <1>12, <1>13, <1>14, <1>15, <1>16, <1>17, <1>18, <1>19, <1>20, <1>21,
      <1>22, <1>23, <1>24, <1>25 DEF Next

Ran == {j \in Jobs : ranOn[j] # {}}

ResultsOfRuns ==
  \A d \in Drivers : outbox[d] \in Seq([job : Ran, outcome : Outcomes])
AppliedOfRuns == \A s \in Sessions : lmsg[s] # NoMessage => lmsg[s].job \in Ran
LoadedHasResult ==
  \A s \in Sessions :
    lpc[s] = "loaded" /\ lsnap[s] \in Outcomes => result[lmsg[s].job] # "none"
FinishedHasResult ==
  \A j \in Jobs : status[j] \in Outcomes => result[j] # "none"
ResultOfRun == \A j \in Jobs : result[j] # "none" => j \in Ran

\* Results travel from an execution to the record.  LoadedHasResult is what makes
\* it safe that the listener does not write a status it found unchanged.
ResultInv ==
  /\ ResultsOfRuns /\ AppliedOfRuns /\ LoadedHasResult
  /\ FinishedHasResult /\ ResultOfRun

\* A job that ran has run.
LEMMA RanGrows == TypeOK /\ [Next]_vars => Ran \subseteq Ran'
<1> SUFFICES ASSUME TypeOK, [Next]_vars PROVE Ran \subseteq Ran'
  OBVIOUS
<1>1. CASE UNCHANGED ranOn
  BY <1>1 DEF Ran
<1>2. ASSUME NEW d \in Drivers, NEW o \in Outcomes, Execute(d, o) PROVE Ran \subseteq Ran'
  BY <1>2 DEF Execute, Ran, TypeOK, HistoryOK
<1>3. UNCHANGED ranOn \/ \E d \in Drivers, o \in Outcomes : Execute(d, o)
  BY DEF Next, vars, histVars, paidVars, Submit, CancelRead, CancelWrite, RecoveryWrite,
         StopServing, ResumeServing, RecoveryScan, Fetch, Send, SendReturnsError,
         MarkRunning, DispatcherReturns, ReceiveResult, DropResult, LoadJob, StoreFails,
         StoreResult, DriverStart, DriverReceive, DriverCrash, Release,
         CloseSockets, ServerCrash
<1> QED
  BY <1>1, <1>2, <1>3

LEMMA ResultFrame ==
  ASSUME TypeOK, ResultInv, [Next]_vars
  PROVE  /\ UNCHANGED outbox => ResultsOfRuns'
         /\ UNCHANGED lmsg => AppliedOfRuns'
         /\ UNCHANGED <<listVars, result>> => LoadedHasResult'
         /\ UNCHANGED <<status, result>> => FinishedHasResult'
         /\ UNCHANGED result => ResultOfRun'
<1> DEFINE Results(J) == [job : J, outcome : Outcomes]
<1>1. Ran \subseteq Ran'
  BY RanGrows
<1>2. Results(Ran) \subseteq Results(Ran')
  BY <1>1
<1>3. UNCHANGED outbox => ResultsOfRuns'
  BY <1>2, SeqMonotonic DEF ResultInv, ResultsOfRuns
<1>4. UNCHANGED lmsg => AppliedOfRuns'
  BY <1>1 DEF ResultInv, AppliedOfRuns
<1>5. UNCHANGED <<listVars, result>> => LoadedHasResult'
  BY DEF ResultInv, LoadedHasResult, listVars
<1>6. UNCHANGED <<status, result>> => FinishedHasResult'
  BY DEF ResultInv, FinishedHasResult
<1>7. UNCHANGED result => ResultOfRun'
  BY <1>1 DEF ResultInv, ResultOfRun
<1> QED
  BY <1>3, <1>4, <1>5, <1>6, <1>7

LEMMA ResultInit == Init => ResultInv
<1> SUFFICES ASSUME Init PROVE ResultInv
  OBVIOUS
<1>1. ResultsOfRuns
  BY EmptySeq DEF Init, ResultsOfRuns
<1>2. AppliedOfRuns /\ LoadedHasResult /\ FinishedHasResult /\ ResultOfRun
  BY DEF Init, AppliedOfRuns, LoadedHasResult, FinishedHasResult, ResultOfRun, Outcomes
<1> QED
  BY <1>1, <1>2 DEF ResultInv

LEMMA ResultStep == TypeOK /\ ResultInv /\ [Next]_vars => ResultInv'
<1> SUFFICES ASSUME TypeOK, ResultInv, [Next]_vars PROVE ResultInv'
  OBVIOUS
<1>1. ASSUME NEW j \in Jobs, Submit(j) PROVE ResultInv'
  <2>1. FinishedHasResult'
    BY <1>1 DEF TypeOK, RecordsOK, ResultInv, FinishedHasResult, Outcomes,
        Submit
  <2> QED
    BY <1>1, ResultFrame, <2>1 DEF ResultInv, dbVars, listVars, driverVars,
        Submit
<1>2. ASSUME NEW j \in Jobs, CancelRead(j) PROVE ResultInv'
  BY <1>2, ResultFrame DEF ResultInv, dbVars, listVars, driverVars, CancelRead
<1>3. ASSUME NEW j \in Jobs, CancelWrite(j) PROVE ResultInv'
  <2>1. FinishedHasResult'
    BY <1>3 DEF TypeOK, RecordsOK, ResultInv, FinishedHasResult, Outcomes,
        CancelWrite
  <2> QED
    BY <1>3, ResultFrame, <2>1 DEF ResultInv, dbVars, listVars, driverVars,
        CancelWrite
<1>4. ASSUME NEW j \in Jobs, RecoveryWrite(j) PROVE ResultInv'
  <2>1. FinishedHasResult'
    BY <1>4 DEF TypeOK, RecordsOK, ResultInv, FinishedHasResult, Outcomes,
        RecoveryWrite
  <2> QED
    BY <1>4, ResultFrame, <2>1 DEF ResultInv, dbVars, listVars, driverVars,
        RecoveryWrite
<1>5. ASSUME NEW q \in QPUs, StopServing(q) PROVE ResultInv'
  BY <1>5, ResultFrame DEF ResultInv, dbVars, listVars, driverVars,
      StopServing
<1>6. ASSUME NEW q \in QPUs, ResumeServing(q) PROVE ResultInv'
  BY <1>6, ResultFrame DEF ResultInv, dbVars, listVars, driverVars,
      ResumeServing
<1>7. ASSUME NEW S \in SUBSET Jobs, RecoveryScan(S) PROVE ResultInv'
  BY <1>7, ResultFrame DEF ResultInv, dbVars, listVars, driverVars,
      RecoveryScan
<1>8. ASSUME NEW s \in Sessions, NEW j \in Jobs, Fetch(s, j) PROVE ResultInv'
  BY <1>8, ResultFrame DEF ResultInv, dbVars, listVars, driverVars, Fetch
<1>9. ASSUME NEW s \in Sessions, Send(s) PROVE ResultInv'
  BY <1>9, ResultFrame DEF ResultInv, dbVars, listVars, driverVars, Send
<1>10. ASSUME NEW s \in Sessions, SendReturnsError(s) PROVE ResultInv'
  <2>1. djob[s] \in Jobs
    BY <1>10, HeldJob DEF TypeOK, SendReturnsError
  <2>2. FinishedHasResult'
    BY <1>10, <2>1 DEF TypeOK, RecordsOK, ResultInv, FinishedHasResult,
        Outcomes, SendReturnsError
  <2> QED
    BY <1>10, ResultFrame, <2>1, <2>2 DEF ResultInv, dbVars, listVars,
        driverVars, SendReturnsError
<1>11. ASSUME NEW s \in Sessions, MarkRunning(s) PROVE ResultInv'
  <2>1. djob[s] \in Jobs
    BY <1>11, HeldJob DEF TypeOK, MarkRunning
  <2>2. FinishedHasResult'
    BY <1>11, <2>1 DEF TypeOK, RecordsOK, ResultInv, FinishedHasResult,
        Outcomes, MarkRunning
  <2> QED
    BY <1>11, ResultFrame, <2>1, <2>2 DEF ResultInv, dbVars, listVars,
        driverVars, MarkRunning
<1>12. ASSUME NEW s \in Sessions, DispatcherReturns(s) PROVE ResultInv'
  BY <1>12, ResultFrame DEF ResultInv, dbVars, listVars, driverVars,
      DispatcherReturns
<1>13. ASSUME NEW s \in Sessions, ReceiveResult(s) PROVE ResultInv'
  <2>1. /\ Head(outbox[SessionDriver[s]]).job \in Ran'
        /\ ResultsOfRuns'
    <3> DEFINE Results == [job : Ran, outcome : Outcomes]
               d == SessionDriver[s]
    <3>1. d \in Drivers /\ outbox[d] # <<>> /\ outbox[d] \in Seq(Results)
      BY <1>13, JobsAssumption DEF ReceiveResult, ResultInv, ResultsOfRuns
    <3>2. Head(outbox[d]) \in Results /\ AfterRecv(d) \in Seq(Results)
      BY <3>1, HeadTailProperties DEF AfterRecv
    <3>3. UNCHANGED ranOn /\ outbox' = [outbox EXCEPT ![d] = AfterRecv(d)]
      BY <1>13 DEF ReceiveResult
    <3> QED
      BY <3>1, <3>2, <3>3 DEF Ran, TypeOK, DriversOK, ResultInv, ResultsOfRuns
  <2>2. AppliedOfRuns'
    BY <1>13, <2>1, RanGrows DEF TypeOK, ListenersOK, ResultInv,
        AppliedOfRuns, ReceiveResult
  <2>3. LoadedHasResult'
    BY <1>13 DEF TypeOK, ListenersOK, ResultInv, LoadedHasResult, dbVars,
        ReceiveResult
  <2> QED
    BY <1>13, ResultFrame, <2>1, <2>2, <2>3 DEF ResultInv, dbVars, listVars,
        driverVars, ReceiveResult
<1>14. ASSUME NEW s \in Sessions, DropResult(s) PROVE ResultInv'
  <2>1. ResultsOfRuns'
    <3> DEFINE Results == [job : Ran, outcome : Outcomes]
               d == SessionDriver[s]
    <3>1. d \in Drivers /\ outbox[d] # <<>> /\ outbox[d] \in Seq(Results)
      BY <1>14, JobsAssumption DEF DropResult, ResultInv, ResultsOfRuns
    <3>2. AfterRecv(d) \in Seq(Results)
      BY <3>1, HeadTailProperties DEF AfterRecv
    <3>3. UNCHANGED ranOn /\ outbox' = [outbox EXCEPT ![d] = AfterRecv(d)]
      BY <1>14 DEF DropResult, histVars, paidVars
    <3> QED
      BY <3>1, <3>2, <3>3 DEF Ran, TypeOK, DriversOK, ResultInv, ResultsOfRuns
  <2> QED
    BY <1>14, ResultFrame, <2>1 DEF ResultInv, dbVars, listVars, driverVars,
        DropResult
<1>15. ASSUME NEW s \in Sessions, LoadJob(s) PROVE ResultInv'
  <2>1. lmsg[s].job \in Jobs
    BY <1>15, AppliedMessage DEF TypeOK, LoadJob
  <2>2. LoadedHasResult'
    BY <1>15, <2>1 DEF TypeOK, ListenersOK, ResultInv, LoadedHasResult,
        FinishedHasResult, dbVars, LoadJob
  <2> QED
    BY <1>15, ResultFrame, <2>1, <2>2 DEF ResultInv, dbVars, listVars,
        driverVars, LoadJob
<1>16. ASSUME NEW s \in Sessions, StoreResult(s) PROVE ResultInv'
  <2>1. /\ lmsg[s].job \in Jobs /\ lmsg[s].job \in Ran'
        /\ lmsg[s].outcome \in Outcomes /\ lmsg[s].outcome # "none"
    BY <1>16, AppliedMessage, RanGrows DEF TypeOK, ListenersOK, ResultInv,
        AppliedOfRuns, Outcomes, StoreResult
  <2>2. \A j \in Jobs : result[j] # "none" => result'[j] # "none"
    BY <1>16, <2>1 DEF TypeOK, RecordsOK, StoreResult
  <2>3. AppliedOfRuns'
    BY <1>16, RanGrows DEF TypeOK, ListenersOK, ResultInv, AppliedOfRuns,
        StoreResult
  <2>4. LoadedHasResult'
    <3> SUFFICES ASSUME NEW t \in Sessions, lpc'[t] = "loaded", lsnap'[t] \in Outcomes
                 PROVE  result'[lmsg'[t].job] # "none"
      BY DEF LoadedHasResult
    <3>1. t # s /\ lpc[t] = "loaded" /\ lsnap'[t] = lsnap[t] /\ lmsg'[t] = lmsg[t]
      BY <1>16 DEF StoreResult, TypeOK, ListenersOK
    <3>2. lmsg[t].job \in Jobs
      BY <3>1, AppliedMessage DEF TypeOK
    <3> QED
      BY <2>2, <3>1, <3>2 DEF ResultInv, LoadedHasResult
  <2>5. FinishedHasResult'
    <3>1. result'[lmsg[s].job] # "none"
      BY <1>16, <2>1 DEF StoreResult, TypeOK, RecordsOK
    <3>2. \A j \in Jobs \ {lmsg[s].job} : status'[j] = status[j]
      BY <1>16 DEF StoreResult, TypeOK, RecordsOK
    <3> QED
      BY <2>2, <3>1, <3>2 DEF ResultInv, FinishedHasResult
  <2>6. ResultOfRun'
    BY <1>16, <2>1, RanGrows DEF TypeOK, RecordsOK, ResultInv, ResultOfRun,
        StoreResult
  <2> QED
    BY <1>16, ResultFrame, <2>1, <2>2, <2>3, <2>4, <2>5, <2>6 DEF ResultInv,
        dbVars, listVars, driverVars, StoreResult
<1>17. ASSUME NEW d \in Drivers, NEW s \in Sessions, DriverStart(d, s) PROVE
     ResultInv'
  <2>1. LoadedHasResult'
    BY <1>17 DEF Free, TypeOK, ListenersOK, ResultInv, LoadedHasResult,
        dbVars, DriverStart
  <2> QED
    BY <1>17, ResultFrame, <2>1 DEF ResultInv, dbVars, listVars, driverVars,
        DriverStart
<1>18. ASSUME NEW s \in Sessions, DriverReceive(s) PROVE ResultInv'
  BY <1>18, ResultFrame DEF ResultInv, dbVars, listVars, driverVars,
      DriverReceive
<1>19. ASSUME NEW d \in Drivers, NEW o \in Outcomes, Execute(d, o) PROVE
     ResultInv'
  <2>1. ResultsOfRuns'
    <3> DEFINE Results == [job : Ran', outcome : Outcomes]
               m == [job |-> Head(queue[d]), outcome |-> o]
    <3>1. Head(queue[d]) \in Jobs
      BY <1>19, FirstJob DEF Execute, TypeOK, DriversOK
    <3>2. ranOn' = [ranOn EXCEPT ![Head(queue[d])] = @ \cup {d}]
      BY <1>19 DEF Execute
    <3>3. Head(queue[d]) \in Ran'
      BY <3>1, <3>2 DEF Ran, TypeOK, HistoryOK
    <3>4. [job : Ran, outcome : Outcomes] \subseteq Results
      BY RanGrows
    <3>5. \A e \in Drivers : outbox[e] \in Seq(Results)
      BY <3>4, SeqMonotonic DEF ResultInv, ResultsOfRuns
    <3>6. Append(outbox[d], m) \in Seq(Results)
      BY <3>3, <3>5, AppendProperties
    <3> QED
      BY <1>19, <3>5, <3>6 DEF Execute, TypeOK, DriversOK, ResultsOfRuns
  <2> QED
    BY <1>19, ResultFrame, <2>1 DEF ResultInv, dbVars, listVars, driverVars,
        Execute
<1>20. ASSUME NEW d \in Drivers, DriverCrash(d) PROVE ResultInv'
  <2>1. ResultsOfRuns'
    <3>1. UNCHANGED ranOn
      BY <1>20 DEF DriverCrash, histVars, paidVars
    <3> QED
      BY <1>20, <3>1, PrefixesOfSeq, EmptySeq
          DEF DriverCrash, Ran, TypeOK, DriversOK, ResultInv, ResultsOfRuns
  <2> QED
    BY <1>20, ResultFrame, <2>1 DEF ResultInv, dbVars, listVars, driverVars,
        DriverCrash
<1>21. ASSUME NEW d \in Drivers, Release(d) PROVE ResultInv'
  BY <1>21, ResultFrame DEF ResultInv, dbVars, listVars, driverVars, Release
<1>22. ASSUME NEW s \in Sessions, CloseSockets(s) PROVE ResultInv'
  <2>1. ResultsOfRuns'
    <3> DEFINE e == SessionDriver[s]
               R == [job : Ran, outcome : Outcomes]
    <3>1. UNCHANGED ranOn /\ Ran' = Ran
      BY <1>22 DEF CloseSockets, histVars, paidVars, Ran
    <3>2. PICK p \in Suffixes(outbox[e]) :
            outbox' = [outbox EXCEPT ![e] = IF alive[e] THEN p ELSE <<>>]
      BY <1>22 DEF CloseSockets
    <3>3. outbox \in [Drivers -> Seq(Message)] /\ \A d \in Drivers : outbox[d] \in Seq(R)
      BY DEF TypeOK, DriversOK, ResultInv, ResultsOfRuns
    <3> HIDE DEF R
    <3>4. e \in Drivers /\ p \in Seq(R) /\ <<>> \in Seq(R)
      BY <3>2, <3>3, SuffixesOfSeq, EmptySeq, JobsAssumption
    <3>5. \A d \in Drivers : outbox'[d] \in Seq(R)
      BY <3>2, <3>3, <3>4
    <3> QED
      BY <3>1, <3>5 DEF R, ResultsOfRuns
  <2>2. LoadedHasResult'
    BY <1>22 DEF TypeOK, ListenersOK, ResultInv, LoadedHasResult, dbVars,
        CloseSockets
  <2> QED
    BY <1>22, ResultFrame, <2>1, <2>2 DEF ResultInv, dbVars, listVars,
        driverVars, CloseSockets
<1>23. ASSUME ServerCrash PROVE ResultInv'
  <2>1. AppliedOfRuns' /\ LoadedHasResult'
    BY <1>23 DEF AppliedOfRuns, LoadedHasResult, ServerCrash
  <2>2. ResultsOfRuns'
    <3>1. UNCHANGED ranOn
      BY <1>23 DEF ServerCrash, histVars, paidVars
    <3> QED
      BY <1>23, <3>1, SuffixesOfSeq, EmptySeq
          DEF ServerCrash, Ran, TypeOK, DriversOK, ResultInv, ResultsOfRuns
  <2> QED
    BY <1>23, ResultFrame, <2>1, <2>2 DEF ResultInv, dbVars, listVars,
        driverVars, ServerCrash
<1>25. ASSUME NEW s \in Sessions, StoreFails(s) PROVE ResultInv'
  <2>1. AppliedOfRuns'
    BY <1>25, RanGrows DEF TypeOK, ListenersOK, ResultInv, AppliedOfRuns, StoreFails
  <2>2. LoadedHasResult'
    BY <1>25 DEF TypeOK, ListenersOK, ResultInv, LoadedHasResult, dbVars, StoreFails
  <2> QED
    BY <1>25, ResultFrame, <2>1, <2>2 DEF ResultInv, dbVars, driverVars, StoreFails
<1>24. CASE UNCHANGED vars
  BY <1>24, ResultFrame DEF ResultInv, dbVars, listVars, driverVars, vars
<1> QED
  BY <1>1, <1>2, <1>3, <1>4, <1>5, <1>6, <1>7, <1>8, <1>9, <1>10, <1>11,
      <1>12, <1>13, <1>14, <1>15, <1>16, <1>17, <1>18, <1>19, <1>20, <1>21,
      <1>22, <1>23, <1>24, <1>25 DEF Next

\* No job is finished that no driver ran, and only process drivers of the QPU it
\* targets ran it (applyJobResult against everything that is lost, repeated or
\* written late).
THEOREM FinishedHolds == Spec => []FinishedJobsRan
<1>1. TypeOK /\ RouteInv /\ ResultInv => FinishedJobsRan
  BY DEF TypeOK, RecordsOK, RouteInv, RanForQPU, ResultInv, FinishedHasResult,
         ResultOfRun, Ran, FinishedJobsRan, Statuses, Outcomes
<1> QED
  BY <1>1, TypeInit, TypeStep, RouteInit, RouteStep, ResultInit, ResultStep, PTL DEF Spec

-----------------------------------------------------------------------------
(* The pipeline keeps the promises of JobService.  What is heard is of an      *)
(* execution: results on their way are counted, and never outnumber the        *)
(* executions that were not heard of.                                          *)

\* Results of a job that no listener has taken: a driver, and a place in its outbox.
Due(j) ==
  {x \in Drivers \X (Nat \ {0}) :
     x[2] \in 1..Len(outbox[x[1]]) /\ outbox[x[1]][x[2]].job = j}

HeardOfRuns ==
  \A j \in Jobs : IsFiniteSet(Due(j)) /\ Cardinality(Due(j)) + heard[j] <= execs[j]

\* The listeners that have taken a result of the job and not yet stored it.
Applying(j) == {s \in Sessions : lmsg[s] # NoMessage /\ lmsg[s].job = j}

StoredWereHeard ==
  \A j \in Jobs :
    IsFiniteSet(Applying(j)) /\ Cardinality(Applying(j)) + stores[j] <= heard[j]

HeardInv == HeardOfRuns /\ StoredWereHeard

\* p is what is left of q, in order and together.
Remains(p, q) == \E k \in Nat : \A i \in 1..Len(p) : i + k \in 1..Len(q) /\ p[i] = q[i + k]

LEMMA CutRemains ==
  ASSUME NEW S, NEW q \in Seq(S)
  PROVE  /\ \A p \in Prefixes(q) \cup Suffixes(q) \cup {<<>>, q} : Remains(p, q)
         /\ q # <<>> => Remains(Tail(q), q)
<1>1. Len(q) \in Nat /\ \A i \in 1..Len(q) : q[i] \in S
  BY LenProperties, ElementOfSeq
<1>2. ASSUME NEW m \in 1..(Len(q) + 1), NEW n \in 0..Len(q) PROVE Remains(SubSeq(q, m, n), q)
  <2> DEFINE p == SubSeq(q, m, n)
  <2>1. \A i \in m..n : q[i] \in S
    BY <1>1
  <2>2. Len(p) = (IF m <= n THEN n - m + 1 ELSE 0) /\ \A i \in 1..(n - m + 1) : p[i] = q[m + i - 1]
    BY <1>1, <2>1, SubSeqProperties
  <2> HIDE DEF p
  <2>3. m - 1 \in Nat
    OBVIOUS
  <2>4. \A i \in 1..Len(p) : i + (m - 1) \in 1..Len(q) /\ p[i] = q[i + (m - 1)]
    BY <1>1, <2>2
  <2>5. Remains(p, q)
    BY <2>3, <2>4 DEF Remains
  <2> QED
    BY <2>5 DEF p
<1>3. ASSUME NEW p \in Prefixes(q) PROVE Remains(p, q)
  <2>1. PICK k \in 0..Len(q) : p = SubSeq(q, 1, k)
    BY <1>1, <1>3, Zenon DEF Prefixes
  <2> QED
    BY <1>1, <1>2, <2>1
<1>4. ASSUME NEW p \in Suffixes(q) PROVE Remains(p, q)
  <2>1. PICK k \in 1..(Len(q) + 1) : p = SubSeq(q, k, Len(q))
    BY <1>1, <1>4, Zenon DEF Suffixes
  <2> QED
    BY <1>1, <1>2, <2>1
<1>5. Remains(<<>>, q)
  BY EmptySeq DEF Remains
<1>6. Remains(q, q)
  <2>1. \A i \in 1..Len(q) : i + 0 \in 1..Len(q) /\ q[i] = q[i + 0]
    BY <1>1
  <2> QED
    BY <2>1 DEF Remains
<1>7. ASSUME q # <<>> PROVE Remains(Tail(q), q)
  <2>1. /\ Len(q) \in Nat \ {0} /\ Len(Tail(q)) = Len(q) - 1
        /\ \A i \in 1..Len(Tail(q)) : Tail(q)[i] = q[i + 1]
    BY <1>1, <1>7, HeadTailProperties, EmptySeq
  <2>2. \A i \in 1..Len(Tail(q)) : i + 1 \in 1..Len(q) /\ Tail(q)[i] = q[i + 1]
    BY <2>1
  <2> QED
    BY <2>2 DEF Remains
<1> QED
  BY <1>3, <1>4, <1>5, <1>6, <1>7

\* Results that move forward in their channels are no more than they were.
LEMMA DueShifted ==
  ASSUME NEW j, IsFiniteSet(Due(j)), NEW U \in SUBSET Due(j), NEW k \in [Drivers -> Nat],
         \A x \in Due(j)' : <<x[1], x[2] + k[x[1]]>> \in U
  PROVE  IsFiniteSet(Due(j)') /\ Cardinality(Due(j)') <= Cardinality(U)
<1> DEFINE D == Due(j)'
           f == [x \in D |-> <<x[1], x[2] + k[x[1]]>>]
<1>1. D \subseteq Drivers \X (Nat \ {0})
  BY DEF Due
<1>2. f \in [D -> U]
  OBVIOUS
<1>3. ASSUME NEW a \in D, NEW b \in D, f[a] = f[b] PROVE a = b
  <2>1. /\ a[1] \in Drivers /\ a[2] \in Nat /\ a = <<a[1], a[2]>>
        /\ b[1] \in Drivers /\ b[2] \in Nat /\ b = <<b[1], b[2]>>
    BY <1>1
  <2>2. a[1] = b[1] /\ a[2] + k[a[1]] = b[2] + k[b[1]]
    BY <1>3
  <2>3. k[a[1]] \in Nat
    BY <2>1
  <2>4. a[2] = b[2]
    BY <2>1, <2>2, <2>3
  <2> QED
    BY <2>1, <2>2, <2>4
<1>4. f \in Injection(D, U)
  BY <1>2, <1>3 DEF Injection, IsInjective
<1>5. IsFiniteSet(U)
  BY FS_Subset
<1> HIDE DEF f, D
<1>6. IsFiniteSet(D) /\ Cardinality(D) <= Cardinality(U)
  BY <1>4, <1>5, FS_Injection
<1> QED
  BY <1>6 DEF D

LEMMA DueLost ==
  ASSUME NEW j, IsFiniteSet(Due(j)), \A d \in Drivers : Remains(outbox'[d], outbox[d])
  PROVE  IsFiniteSet(Due(j)') /\ Cardinality(Due(j)') <= Cardinality(Due(j))
<1> DEFINE Fits(d, n) == \A i \in 1..Len(outbox'[d]) :
                           i + n \in 1..Len(outbox[d]) /\ outbox'[d][i] = outbox[d][i + n]
           k == [d \in Drivers |-> CHOOSE n \in Nat : Fits(d, n)]
<1>1. \A d \in Drivers : \E n \in Nat : Fits(d, n)
  BY DEF Remains
<1>2. \A d \in Drivers : k[d] \in Nat /\ Fits(d, k[d])
  <2> HIDE DEF Fits
  <2> QED
    BY <1>1
<1>3. k \in [Drivers -> Nat]
  BY <1>2
<1> HIDE DEF k
<1>4. \A x \in Due(j)' : <<x[1], x[2] + k[x[1]]>> \in Due(j)
  <2> SUFFICES ASSUME NEW x \in Due(j)' PROVE <<x[1], x[2] + k[x[1]]>> \in Due(j)
    OBVIOUS
  <2>1. /\ x[1] \in Drivers /\ x[2] \in Nat \ {0} /\ x[2] \in 1..Len(outbox'[x[1]])
        /\ outbox'[x[1]][x[2]].job = j
    BY DEF Due
  <2>2. /\ k[x[1]] \in Nat /\ x[2] + k[x[1]] \in 1..Len(outbox[x[1]])
        /\ outbox'[x[1]][x[2]] = outbox[x[1]][x[2] + k[x[1]]]
    BY <1>2, <2>1
  <2> QED
    BY <2>1, <2>2 DEF Due
<1> QED
  BY <1>3, <1>4, DueShifted

\* What a step does to the results on their way.
LEMMA ChannelSteps ==
  ASSUME TypeOK, [Next]_vars
  PROVE  \/ \E s \in Sessions : ReceiveResult(s)
         \/ \E d \in Drivers, o \in Outcomes : Execute(d, o)
         \/ UNCHANGED <<heard, execs>> /\ \A d \in Drivers : Remains(outbox'[d], outbox[d])
<1> USE DEF dbVars, handlerVars, dispVars, listVars, wireVars, driverVars, histVars, paidVars
<1>0. /\ \A d \in Drivers : /\ outbox[d] \in Seq(Message)
                            /\ Remains(outbox[d], outbox[d]) /\ Remains(<<>>, outbox[d])
                            /\ \A p \in Prefixes(outbox[d]) \cup Suffixes(outbox[d]) : Remains(p, outbox[d])
                            /\ outbox[d] # <<>> => Remains(Tail(outbox[d]), outbox[d])
      /\ outbox \in [Drivers -> Seq(Message)]
  BY CutRemains DEF TypeOK, DriversOK
<1>a. CASE UNCHANGED <<heard, execs, outbox>>
  BY <1>0, <1>a
<1>1. ASSUME NEW s \in Sessions, DropResult(s)
      PROVE  UNCHANGED <<heard, execs>> /\ \A d \in Drivers : Remains(outbox'[d], outbox[d])
  BY <1>0, <1>1, JobsAssumption DEF DropResult, AfterRecv
<1>2. ASSUME NEW e \in Drivers, DriverCrash(e)
      PROVE  UNCHANGED <<heard, execs>> /\ \A d \in Drivers : Remains(outbox'[d], outbox[d])
  <2>1. PICK p \in Prefixes(outbox[e]) :
          outbox' = [outbox EXCEPT ![e] = IF Connected(e) THEN p ELSE <<>>]
    BY <1>2 DEF DriverCrash
  <2>2. UNCHANGED <<heard, execs>>
    BY <1>2 DEF DriverCrash
  <2> QED
    BY <1>0, <2>1, <2>2
<1>3. ASSUME NEW s \in Sessions, CloseSockets(s)
      PROVE  UNCHANGED <<heard, execs>> /\ \A d \in Drivers : Remains(outbox'[d], outbox[d])
  <2> DEFINE e == SessionDriver[s]
  <2>1. PICK p \in Suffixes(outbox[e]) :
          outbox' = [outbox EXCEPT ![e] = IF alive[e] THEN p ELSE <<>>]
    BY <1>3 DEF CloseSockets
  <2>2. UNCHANGED <<heard, execs>> /\ e \in Drivers
    BY <1>3, JobsAssumption DEF CloseSockets
  <2> QED
    BY <1>0, <2>1, <2>2
<1>4. ASSUME ServerCrash
      PROVE  UNCHANGED <<heard, execs>> /\ \A d \in Drivers : Remains(outbox'[d], outbox[d])
  <2>1. \A d \in Drivers : outbox'[d] \in Suffixes(outbox[d]) \cup {<<>>}
    BY <1>4 DEF ServerCrash
  <2>2. UNCHANGED <<heard, execs>>
    BY <1>4 DEF ServerCrash
  <2> QED
    BY <1>0, <2>1, <2>2
<1>5. \/ UNCHANGED <<heard, execs, outbox>>
      \/ \E s \in Sessions : ReceiveResult(s) \/ DropResult(s) \/ CloseSockets(s)
      \/ \E d \in Drivers, o \in Outcomes : Execute(d, o)
      \/ \E d \in Drivers : DriverCrash(d)
      \/ ServerCrash
  BY DEF Next, vars, Submit, CancelRead, CancelWrite, RecoveryWrite,
         StopServing, ResumeServing, RecoveryScan, Fetch, Send, SendReturnsError,
         MarkRunning, DispatcherReturns, LoadJob, StoreFails, StoreResult, DriverStart, DriverReceive, Release
<1> QED
  BY <1>a, <1>1, <1>2, <1>3, <1>4, <1>5

\* A result that is taken was one of those on their way, and is charged.
LEMMA TakenIsHeard ==
  ASSUME TypeOK, HeardOfRuns, NEW s \in Sessions, ReceiveResult(s)
  PROVE  /\ HeardOfRuns'
         /\ Head(outbox[SessionDriver[s]]).job \in Jobs
         /\ LET j == Head(outbox[SessionDriver[s]]).job IN
              heard[j] < execs[j] /\ heard' = [heard EXCEPT ![j] = @ + 1] /\ UNCHANGED execs
<1> DEFINE d == SessionDriver[s]
           h == Head(outbox[d]).job
           k == [e \in Drivers |-> IF e = d THEN 1 ELSE 0]
<1>1. /\ d \in Drivers /\ outbox[d] # <<>> /\ outbox[d] \in Seq(Message)
      /\ outbox'[d] = Tail(outbox[d]) /\ \A e \in Drivers \ {d} : outbox'[e] = outbox[e]
      /\ heard' = [heard EXCEPT ![h] = @ + 1] /\ UNCHANGED execs
  BY JobsAssumption DEF ReceiveResult, AfterRecv, TypeOK, DriversOK
<1>2. h \in Jobs
  BY <1>1, FirstResult DEF TypeOK
<1>3. /\ Len(outbox[d]) \in Nat \ {0} /\ Len(outbox'[d]) = Len(outbox[d]) - 1
      /\ outbox[d][1] = Head(outbox[d])
      /\ \A i \in 1..Len(outbox'[d]) : outbox'[d][i] = outbox[d][i + 1]
  BY <1>1, HeadTailProperties, LenProperties, EmptySeq
<1>4. <<d, 1>> \in Due(h)
  BY <1>1, <1>3 DEF Due
<1>5. /\ \A j \in Jobs : heard[j] \in Nat /\ execs[j] \in Nat
      /\ \A j \in Jobs : heard'[j] = IF j = h THEN heard[j] + 1 ELSE heard[j]
  BY <1>1 DEF TypeOK, HistoryOK
<1>6. ASSUME NEW j \in Jobs
      PROVE  \A x \in Due(j)' : <<x[1], x[2] + k[x[1]]>> \in Due(j) \ {<<d, 1>>}
  <2> SUFFICES ASSUME NEW x \in Due(j)'
               PROVE  <<x[1], x[2] + k[x[1]]>> \in Due(j) \ {<<d, 1>>}
    OBVIOUS
  <2>1. /\ x[1] \in Drivers /\ x[2] \in Nat \ {0} /\ x[2] \in 1..Len(outbox'[x[1]])
        /\ outbox'[x[1]][x[2]].job = j
    BY DEF Due
  <2>2. CASE x[1] = d
    <3>1. x[2] \in Nat \ {0} /\ x[2] \in 1..Len(outbox'[d]) /\ outbox'[d][x[2]].job = j
      BY <2>1, <2>2
    <3>2. outbox'[d][x[2]] = outbox[d][x[2] + 1]
      BY <1>3, <3>1
    <3>3. x[2] + 1 \in 1..Len(outbox[d]) /\ x[2] + 1 # 1
      BY <1>3, <3>1
    <3>4. k[x[1]] = 1
      BY <1>1, <2>2
    <3> QED
      BY <1>1, <2>2, <3>1, <3>2, <3>3, <3>4 DEF Due
  <2>3. CASE x[1] # d
    <3>1. k[x[1]] = 0 /\ x[2] + 0 = x[2] /\ outbox'[x[1]] = outbox[x[1]]
      BY <1>1, <2>1, <2>3
    <3> QED
      BY <2>1, <2>3, <3>1 DEF Due
  <2> QED
    BY <2>2, <2>3
<1>7. k \in [Drivers -> Nat]
  OBVIOUS
<1> HIDE DEF k, h, d
<1>8. ASSUME NEW j \in Jobs
      PROVE  /\ IsFiniteSet(Due(j)') /\ Cardinality(Due(j)') + heard'[j] <= execs[j]
             /\ j = h => heard[j] < execs[j]
  <2> DEFINE U == Due(j) \ {<<d, 1>>}
  <2>1. IsFiniteSet(Due(j)) /\ Cardinality(Due(j)) \in Nat /\ Cardinality(Due(j)) + heard[j] <= execs[j]
    BY FS_CardinalityType DEF HeardOfRuns
  <2>2. /\ IsFiniteSet(U) /\ Cardinality(U) \in Nat
        /\ Cardinality(U) <= Cardinality(Due(j))
        /\ j = h => Cardinality(U) = Cardinality(Due(j)) - 1
    <3>1. /\ IsFiniteSet(U)
          /\ Cardinality(U) = IF <<d, 1>> \in Due(j) THEN Cardinality(Due(j)) - 1
                              ELSE Cardinality(Due(j))
      BY <2>1, FS_RemoveElement
    <3>2. Cardinality(U) \in Nat
      BY <3>1, FS_CardinalityType
    <3> HIDE DEF U
    <3> QED
      BY <1>4, <2>1, <3>1, <3>2
  <2>3. U \in SUBSET Due(j) /\ \A x \in Due(j)' : <<x[1], x[2] + k[x[1]]>> \in U
    BY <1>6
  <2> HIDE DEF U
  <2>4. IsFiniteSet(Due(j)') /\ Cardinality(Due(j)') <= Cardinality(U)
    BY <1>7, <2>1, <2>3, DueShifted
  <2>5. Cardinality(Due(j)') \in Nat
    BY <2>4, FS_CardinalityType
  <2> QED
    BY <1>5, <2>1, <2>2, <2>4, <2>5
<1> QED
  BY <1>1, <1>2, <1>8 DEF HeardOfRuns, h, d

\* Results that only moved or went leave the account in order.
LEMMA LostIsHeard ==
  ASSUME TypeOK, HeardOfRuns, UNCHANGED heard,
         \A d \in Drivers : Remains(outbox'[d], outbox[d]),
         \A j \in Jobs : execs'[j] \in Nat /\ execs[j] <= execs'[j]
  PROVE  HeardOfRuns'
<1> SUFFICES ASSUME NEW j \in Jobs
             PROVE  IsFiniteSet(Due(j)') /\ Cardinality(Due(j)') + heard[j] <= execs'[j]
  BY DEF HeardOfRuns
<1>1. IsFiniteSet(Due(j)) /\ Cardinality(Due(j)) \in Nat /\ Cardinality(Due(j)) + heard[j] <= execs[j]
  BY FS_CardinalityType DEF HeardOfRuns
<1>2. IsFiniteSet(Due(j)') /\ Cardinality(Due(j)') <= Cardinality(Due(j))
  BY <1>1, DueLost
<1>3. Cardinality(Due(j)') \in Nat
  BY <1>2, FS_CardinalityType
<1>4. heard[j] \in Nat /\ execs[j] \in Nat
  BY DEF TypeOK, HistoryOK
<1> QED
  BY <1>1, <1>2, <1>3, <1>4

\* A run adds a result, and an execution to hear of.
LEMMA EmittedIsDue ==
  ASSUME TypeOK, HeardOfRuns, NEW d \in Drivers, NEW o \in Outcomes, Execute(d, o),
         outbox' # outbox
  PROVE  HeardOfRuns'
<1> DEFINE h == Head(queue[d])
           m == [job |-> h, outcome |-> o]
           n == Len(outbox[d]) + 1
<1>1. /\ h \in Jobs /\ m \in Message /\ outbox[d] \in Seq(Message)
      /\ outbox'[d] = Append(outbox[d], m) /\ \A e \in Drivers \ {d} : outbox'[e] = outbox[e]
      /\ execs' = [execs EXCEPT ![h] = @ + 1] /\ UNCHANGED heard
  <2>1. /\ h \in Jobs /\ m \in Message /\ outbox \in [Drivers -> Seq(Message)]
    BY FirstJob DEF Execute, TypeOK, DriversOK, Message
  <2>2. /\ outbox' = [outbox EXCEPT ![d] = Append(@, m)]
        /\ execs' = [execs EXCEPT ![h] = @ + 1] /\ UNCHANGED heard
    BY DEF Execute, paidVars
  <2> HIDE DEF m, h
  <2> QED
    BY <2>1, <2>2
<1>2. /\ n \in Nat \ {0} /\ Len(outbox'[d]) = n /\ m.job = h
      /\ outbox'[d][n] = m
      /\ \A i \in 1..Len(outbox[d]) : outbox'[d][i] = outbox[d][i]
  BY <1>1, AppendProperties, LenProperties
<1>3. /\ \A j \in Jobs : heard[j] \in Nat /\ execs[j] \in Nat
      /\ \A j \in Jobs : execs'[j] = IF j = h THEN execs[j] + 1 ELSE execs[j]
  BY <1>1 DEF TypeOK, HistoryOK
<1> HIDE DEF h, m
<1>4. ASSUME NEW j \in Jobs PROVE \A x \in Due(j)' : x \in Due(j) \/ (j = h /\ x = <<d, n>>)
  <2> SUFFICES ASSUME NEW x \in Due(j)' PROVE x \in Due(j) \/ (j = h /\ x = <<d, n>>)
    OBVIOUS
  <2>1. /\ x \in Drivers \X (Nat \ {0}) /\ x = <<x[1], x[2]>>
        /\ x[1] \in Drivers /\ x[2] \in Nat \ {0} /\ x[2] \in 1..Len(outbox'[x[1]])
        /\ outbox'[x[1]][x[2]].job = j
    BY DEF Due
  <2>2. CASE x[1] # d
    BY <1>1, <2>1, <2>2 DEF Due
  <2>3. CASE x[1] = d /\ x[2] # n
    <3>1. x[2] \in 1..Len(outbox[d])
      BY <1>1, <1>2, <2>1, <2>3, LenProperties
    <3> QED
      BY <1>2, <2>1, <2>3, <3>1 DEF Due
  <2>4. CASE x[1] = d /\ x[2] = n
    BY <1>2, <2>1, <2>4
  <2> QED
    BY <2>2, <2>3, <2>4
<1> HIDE DEF n
<1>5. ASSUME NEW j \in Jobs
      PROVE  IsFiniteSet(Due(j)') /\ Cardinality(Due(j)') + heard[j] <= execs'[j]
  <2>1. IsFiniteSet(Due(j)) /\ Cardinality(Due(j)) \in Nat /\ Cardinality(Due(j)) + heard[j] <= execs[j]
    BY FS_CardinalityType DEF HeardOfRuns
  <2>2. CASE j # h
    <3>1. Due(j)' \in SUBSET Due(j)
      BY <1>4, <2>2
    <3>2. IsFiniteSet(Due(j)') /\ Cardinality(Due(j)') <= Cardinality(Due(j))
      BY <2>1, <3>1, FS_Subset
    <3>3. Cardinality(Due(j)') \in Nat
      BY <3>2, FS_CardinalityType
    <3> QED
      BY <1>3, <2>1, <2>2, <3>2, <3>3
  <2>3. CASE j = h
    <3> DEFINE U == Due(j) \cup {<<d, n>>}
    <3>1. Due(j)' \in SUBSET U
      BY <1>4
    <3>2. IsFiniteSet(U) /\ Cardinality(U) <= Cardinality(Due(j)) + 1 /\ Cardinality(U) \in Nat
      <4>1. /\ IsFiniteSet(U)
            /\ Cardinality(U) = IF <<d, n>> \in Due(j) THEN Cardinality(Due(j))
                                ELSE Cardinality(Due(j)) + 1
        BY <2>1, FS_AddElement
      <4> HIDE DEF U
      <4>2. Cardinality(U) \in Nat
        BY <4>1, FS_CardinalityType
      <4> QED
        BY <2>1, <4>1, <4>2
    <3> HIDE DEF U
    <3>3. IsFiniteSet(Due(j)') /\ Cardinality(Due(j)') <= Cardinality(U)
      BY <3>1, <3>2, FS_Subset
    <3>4. Cardinality(Due(j)') \in Nat
      BY <3>3, FS_CardinalityType
    <3> QED
      BY <1>3, <2>1, <2>3, <3>2, <3>3, <3>4
  <2> QED
    BY <2>2, <2>3
<1> QED
  BY <1>1, <1>5 DEF HeardOfRuns

\* A run whose result nobody emits adds an execution only.
LEMMA RunIsDue ==
  ASSUME TypeOK, HeardOfRuns, NEW d \in Drivers, NEW o \in Outcomes, Execute(d, o)
  PROVE  HeardOfRuns'
<1>1. CASE outbox' = outbox
  <2>1. UNCHANGED heard /\ execs' = [execs EXCEPT ![Head(queue[d])] = @ + 1]
    BY DEF Execute, paidVars
  <2>2. Head(queue[d]) \in Jobs
    BY FirstJob DEF Execute, TypeOK, DriversOK
  <2>3. \A j \in Jobs : execs'[j] \in Nat /\ execs[j] <= execs'[j]
    BY <2>1, <2>2 DEF TypeOK, HistoryOK
  <2>4. \A e \in Drivers : Remains(outbox'[e], outbox[e])
    BY <1>1, CutRemains DEF TypeOK, DriversOK
  <2> QED
    BY <2>1, <2>3, <2>4, LostIsHeard
<1> QED
  BY <1>1, EmittedIsDue

LEMMA HeardInit == Init => HeardInv
<1> SUFFICES ASSUME Init PROVE HeardInv
  OBVIOUS
<1>1. ASSUME NEW j \in Jobs
      PROVE  IsFiniteSet(Due(j)) /\ Cardinality(Due(j)) + heard[j] <= execs[j]
  <2>1. \A d \in Drivers : Len(outbox[d]) = 0
    BY EmptySeq DEF Init
  <2>2. Due(j) = {}
    BY <2>1 DEF Due
  <2> QED
    BY <2>2, FS_EmptySet DEF Init
<1>2. ASSUME NEW j \in Jobs
      PROVE  IsFiniteSet(Applying(j)) /\ Cardinality(Applying(j)) + stores[j] <= heard[j]
  <2>1. Applying(j) = {}
    BY DEF Init, Applying
  <2> QED
    BY <2>1, FS_EmptySet DEF Init
<1> QED
  BY <1>1, <1>2 DEF HeardInv, HeardOfRuns, StoredWereHeard

\* A listener that takes a result is one more that applies it ...
LEMMA TakenIsApplied ==
  ASSUME TypeOK, StoredWereHeard, NEW s \in Sessions, ReceiveResult(s)
  PROVE  StoredWereHeard'
<1> DEFINE h == Head(outbox[SessionDriver[s]]).job
<1>1. /\ h \in Jobs /\ lmsg' = [lmsg EXCEPT ![s] = Head(outbox[SessionDriver[s]])]
      /\ heard' = [heard EXCEPT ![h] = @ + 1] /\ UNCHANGED stores
  BY FirstResult, JobsAssumption DEF ReceiveResult, TypeOK
<1>2. lmsg'[s].job = h /\ \A t \in Sessions \ {s} : lmsg'[t] = lmsg[t]
  BY <1>1 DEF TypeOK, ListenersOK
<1>3. \A j \in Jobs : /\ heard[j] \in Nat /\ stores[j] \in Nat
                      /\ heard'[j] = IF j = h THEN heard[j] + 1 ELSE heard[j]
  BY <1>1 DEF TypeOK, HistoryOK
<1> HIDE DEF h
<1> SUFFICES ASSUME NEW j \in Jobs
             PROVE  /\ IsFiniteSet(Applying(j)')
                    /\ Cardinality(Applying(j)') + stores[j] <= heard'[j]
  BY <1>1 DEF StoredWereHeard
<1> DEFINE U == IF j = h THEN Applying(j) \cup {s} ELSE Applying(j)
<1>4. /\ IsFiniteSet(Applying(j)) /\ Cardinality(Applying(j)) \in Nat
      /\ Cardinality(Applying(j)) + stores[j] <= heard[j]
  BY FS_CardinalityType DEF StoredWereHeard
<1>5. Applying(j)' \subseteq U
  BY <1>2 DEF Applying
<1>6. /\ IsFiniteSet(U)
      /\ j = h => Cardinality(U) <= Cardinality(Applying(j)) + 1
      /\ j # h => Cardinality(U) = Cardinality(Applying(j))
  <2>1. /\ IsFiniteSet(Applying(j) \cup {s})
        /\ Cardinality(Applying(j) \cup {s}) =
             IF s \in Applying(j) THEN Cardinality(Applying(j)) ELSE Cardinality(Applying(j)) + 1
    BY <1>4, FS_AddElement
  <2>2. Cardinality(Applying(j) \cup {s}) <= Cardinality(Applying(j)) + 1
    BY <1>4, <2>1
  <2> QED
    BY <1>4, <2>1, <2>2
<1>7. Cardinality(U) \in Nat
  BY <1>6, FS_CardinalityType
<1> HIDE DEF U
<1>8. IsFiniteSet(Applying(j)') /\ Cardinality(Applying(j)') <= Cardinality(U)
  BY <1>5, <1>6, FS_Subset
<1>9. Cardinality(Applying(j)') \in Nat
  BY <1>8, FS_CardinalityType
<1> QED
  BY <1>3, <1>4, <1>6, <1>7, <1>8, <1>9

\* ... and one fewer when it stores it.
LEMMA StoredIsApplied ==
  ASSUME TypeOK, StoredWereHeard, NEW s \in Sessions, StoreResult(s)
  PROVE  /\ StoredWereHeard'
         /\ stores[lmsg[s].job] < heard[lmsg[s].job]
<1> DEFINE h == lmsg[s].job
<1>1. /\ h \in Jobs /\ lmsg[s] # NoMessage /\ lmsg' = [lmsg EXCEPT ![s] = NoMessage]
      /\ stores' = [stores EXCEPT ![h] = @ + 1] /\ UNCHANGED heard
  BY AppliedMessage, MessageFields DEF StoreResult, TypeOK
<1>2. lmsg'[s] = NoMessage /\ \A t \in Sessions \ {s} : lmsg'[t] = lmsg[t]
  BY <1>1 DEF TypeOK, ListenersOK
<1>3. \A j \in Jobs : /\ heard[j] \in Nat /\ stores[j] \in Nat
                      /\ stores'[j] = IF j = h THEN stores[j] + 1 ELSE stores[j]
  BY <1>1 DEF TypeOK, HistoryOK
<1>4. s \in Applying(h)
  BY <1>1 DEF Applying
<1> HIDE DEF h
<1>5. ASSUME NEW j \in Jobs
      PROVE  /\ IsFiniteSet(Applying(j)')
             /\ Cardinality(Applying(j)') + stores'[j] <= heard[j]
             /\ j = h => stores[j] < heard[j]
  <2> DEFINE U == Applying(j) \ {s}
  <2>1. /\ IsFiniteSet(Applying(j)) /\ Cardinality(Applying(j)) \in Nat
        /\ Cardinality(Applying(j)) + stores[j] <= heard[j]
    BY FS_CardinalityType DEF StoredWereHeard
  <2>2. Applying(j)' \subseteq U
    BY <1>2 DEF Applying
  <2>3. /\ IsFiniteSet(U)
        /\ Cardinality(U) = IF s \in Applying(j) THEN Cardinality(Applying(j)) - 1
                            ELSE Cardinality(Applying(j))
    BY <2>1, FS_RemoveElement
  <2>4. Cardinality(U) \in Nat
    BY <2>3, FS_CardinalityType
  <2> HIDE DEF U
  <2>5. IsFiniteSet(Applying(j)') /\ Cardinality(Applying(j)') <= Cardinality(U)
    BY <2>2, <2>3, FS_Subset
  <2>6. Cardinality(Applying(j)') \in Nat
    BY <2>5, FS_CardinalityType
  <2>7. CASE j = h
    BY <1>3, <1>4, <2>1, <2>3, <2>4, <2>5, <2>6, <2>7
  <2>8. CASE j # h
    BY <1>3, <2>1, <2>3, <2>4, <2>5, <2>6, <2>8
  <2> QED
    BY <2>7, <2>8
<1> QED
  BY <1>1, <1>5 DEF StoredWereHeard, h

LEMMA StoredStep ==
  ASSUME TypeOK, StoredWereHeard, [Next]_vars PROVE StoredWereHeard'
<1> USE DEF dbVars, handlerVars, dispVars, listVars, wireVars, driverVars, histVars, paidVars
<1>1. CASE UNCHANGED <<heard, stores>> /\ \A s \in Sessions : lmsg'[s] \in {lmsg[s], NoMessage}
  <2> SUFFICES ASSUME NEW j \in Jobs
               PROVE  /\ IsFiniteSet(Applying(j)')
                      /\ Cardinality(Applying(j)') + stores[j] <= heard[j]
    BY <1>1 DEF StoredWereHeard
  <2>1. /\ IsFiniteSet(Applying(j)) /\ Cardinality(Applying(j)) \in Nat
        /\ Cardinality(Applying(j)) + stores[j] <= heard[j]
    BY FS_CardinalityType DEF StoredWereHeard
  <2>2. Applying(j)' \subseteq Applying(j)
    BY <1>1 DEF Applying
  <2>3. IsFiniteSet(Applying(j)') /\ Cardinality(Applying(j)') <= Cardinality(Applying(j))
    BY <2>1, <2>2, FS_Subset
  <2>4. Cardinality(Applying(j)') \in Nat
    BY <2>3, FS_CardinalityType
  <2>5. heard[j] \in Nat /\ stores[j] \in Nat
    BY DEF TypeOK, HistoryOK
  <2> QED
    BY <2>1, <2>3, <2>4, <2>5
<1>2. ASSUME NEW s \in Sessions, StoreFails(s) PROVE StoredWereHeard'
  BY <1>1, <1>2 DEF StoreFails, TypeOK, ListenersOK
<1>3. CASE ServerCrash
  BY <1>1, <1>3 DEF ServerCrash
<1>4. CASE UNCHANGED <<heard, stores, lmsg>>
  BY <1>1, <1>4
<1>5. \/ UNCHANGED <<heard, stores, lmsg>>
      \/ \E s \in Sessions : ReceiveResult(s) \/ StoreResult(s) \/ StoreFails(s)
      \/ ServerCrash
  BY DEF Next, vars, Submit, CancelRead, CancelWrite, RecoveryWrite,
         StopServing, ResumeServing, RecoveryScan, Fetch, Send, SendReturnsError,
         MarkRunning, DispatcherReturns, DropResult, LoadJob, DriverStart, DriverReceive,
         Execute, DriverCrash, Release, CloseSockets
<1> QED
  BY <1>2, <1>3, <1>4, <1>5, TakenIsApplied, StoredIsApplied

LEMMA HeardStep == TypeOK /\ HeardInv /\ [Next]_vars => HeardInv'
<1> SUFFICES ASSUME TypeOK, HeardInv, [Next]_vars PROVE HeardInv'
  OBVIOUS
<1>1. HeardOfRuns /\ StoredWereHeard'
  BY StoredStep DEF HeardInv
<1>2. CASE UNCHANGED <<heard, execs>> /\ \A d \in Drivers : Remains(outbox'[d], outbox[d])
  <2>1. \A j \in Jobs : execs'[j] \in Nat /\ execs[j] <= execs'[j]
    BY <1>2 DEF TypeOK, HistoryOK
  <2> QED
    BY <1>1, <1>2, <2>1, LostIsHeard DEF HeardInv
<1> QED
  BY <1>1, <1>2, ChannelSteps, TakenIsHeard, RunIsDue DEF HeardInv

-----------------------------------------------------------------------------
(* Every step is a step of JobService, or none. *)

LEMMA ServiceSteps ==
  ASSUME TypeOK, SentInv, NamedWereSubmitted, HeardInv, [Next]_vars
  PROVE  \/ Submitted' = Submitted /\ UNCHANGED <<execs, heard, bills, stores>>
         \/ \E j \in Jobs :
              \/ /\ j \notin Submitted /\ Submitted' = Submitted \cup {j}
                 /\ UNCHANGED <<execs, heard, bills, stores>>
              \/ /\ j \in Submitted /\ execs' = [execs EXCEPT ![j] = @ + 1]
                 /\ Submitted' = Submitted /\ UNCHANGED <<heard, bills, stores>>
              \/ /\ heard[j] < execs[j] /\ heard' = [heard EXCEPT ![j] = @ + 1]
                 /\ bills' \in {bills, [bills EXCEPT ![j] = @ + 1]}
                 /\ Submitted' = Submitted /\ UNCHANGED <<execs, stores>>
              \/ /\ stores[j] < heard[j] /\ stores' = [stores EXCEPT ![j] = @ + 1]
                 /\ Submitted' = Submitted /\ UNCHANGED <<execs, heard, bills>>
<1> USE DEF dbVars, handlerVars, dispVars, listVars, wireVars, driverVars, histVars, paidVars
<1>1. ASSUME NEW j \in Jobs, Submit(j)
      PROVE  /\ j \notin Submitted /\ Submitted' = Submitted \cup {j}
             /\ UNCHANGED <<execs, heard, bills, stores>>
  BY <1>1 DEF Submit, Submitted, TypeOK, RecordsOK
<1>2. ASSUME NEW d \in Drivers, NEW o \in Outcomes, Execute(d, o)
      PROVE  /\ Head(queue[d]) \in Jobs /\ Head(queue[d]) \in Submitted
             /\ execs' = [execs EXCEPT ![Head(queue[d])] = @ + 1]
             /\ Submitted' = Submitted /\ UNCHANGED <<heard, bills, stores>>
  <2>1. queue[d] # <<>> /\ queue[d] \in Seq(Sent)
    BY <1>2 DEF Execute, SentInv, QueuedWereSent
  <2>2. Head(queue[d]) \in Sent
    BY <2>1, HeadTailProperties
  <2> QED
    BY <1>2, <2>2 DEF Execute, NamedWereSubmitted, Claimed, Sent, Submitted
<1>3. ASSUME NEW s \in Sessions, ReceiveResult(s)
      PROVE  \E j \in Jobs : /\ heard[j] < execs[j] /\ heard' = [heard EXCEPT ![j] = @ + 1]
                             /\ bills' \in {bills, [bills EXCEPT ![j] = @ + 1]}
                             /\ Submitted' = Submitted /\ UNCHANGED <<execs, stores>>
  <2> DEFINE h == Head(outbox[SessionDriver[s]]).job
  <2>1. /\ h \in Jobs /\ heard[h] < execs[h] /\ heard' = [heard EXCEPT ![h] = @ + 1]
        /\ UNCHANGED execs
    BY <1>3, TakenIsHeard DEF HeardInv
  <2>2. /\ bills' \in {bills, [bills EXCEPT ![h] = @ + 1]}
        /\ UNCHANGED <<status, stores>>
    BY <1>3 DEF ReceiveResult
  <2>3. Submitted' = Submitted
    BY <2>2 DEF Submitted
  <2> HIDE DEF h
  <2> QED
    BY <2>1, <2>2, <2>3
<1>4. ASSUME NEW s \in Sessions, StoreResult(s)
      PROVE  \E j \in Jobs : /\ stores[j] < heard[j] /\ stores' = [stores EXCEPT ![j] = @ + 1]
                             /\ Submitted' = Submitted /\ UNCHANGED <<execs, heard, bills>>
  <2> DEFINE h == lmsg[s].job
  <2>1. h \in Jobs /\ lmsg[s] # NoMessage /\ stores[h] < heard[h]
    BY <1>4, AppliedMessage, MessageFields, StoredIsApplied DEF StoreResult, TypeOK, HeardInv
  <2>2. stores' = [stores EXCEPT ![h] = @ + 1] /\ UNCHANGED <<execs, heard, bills>>
    BY <1>4 DEF StoreResult
  <2>3. ~\E i \in Jobs : Submit(i)
    <3>1. lmsg'[s] = NoMessage
      BY <1>4 DEF StoreResult, TypeOK, ListenersOK
    <3> QED
      BY <2>1, <3>1 DEF Submit
  <2>4. Submitted' = Submitted
    BY <2>3, SubmittedStep
  <2> HIDE DEF h
  <2> QED
    BY <2>1, <2>2, <2>4
<1>5. CASE UNCHANGED <<execs, heard, bills, stores>>
  BY <1>1, <1>5, SubmittedStep
<1>6. \/ UNCHANGED <<execs, heard, bills, stores>>
      \/ \E s \in Sessions : ReceiveResult(s) \/ StoreResult(s)
      \/ \E d \in Drivers, o \in Outcomes : Execute(d, o)
  BY DEF Next, vars, Submit, CancelRead, CancelWrite, RecoveryWrite,
         StopServing, ResumeServing, RecoveryScan, Fetch, Send, SendReturnsError,
         MarkRunning, DispatcherReturns, DropResult, LoadJob, StoreFails, DriverStart,
         DriverReceive, DriverCrash, Release, CloseSockets, ServerCrash
<1> QED
  BY <1>2, <1>3, <1>4, <1>5, <1>6

\* The pipeline implements JobService: a job is executed only after it was submitted,
\* and of what an execution gave at most one result is heard, which is charged for at
\* most once and stored at most once, through every loss, retry, failed save and crash
\* (handleJobSubmit, the worker of the driver, applyJobResult).
THEOREM PipelineIsAService == Spec => ImplementsService
<1>1. Init => Service!SInit
  BY DEF Init, Service!SInit
<1>2. TypeOK /\ SentInv /\ QueueInv /\ HeardInv /\ [Next]_vars => [Service!SNext]_(Service!svars)
  <2> SUFFICES ASSUME TypeOK, SentInv, QueueInv, HeardInv, [Next]_vars
               PROVE  [Service!SNext]_(Service!svars)
    OBVIOUS
  <2>1. NamedWereSubmitted
    BY DEF QueueInv
  <2>2. Submitted = {j \in Jobs : status[j] # "absent"}
    BY DEF Submitted
  <2>3. Submitted' = {j \in Jobs : status'[j] # "absent"}
    BY DEF Submitted
  <2> QED
    BY <2>1, <2>2, <2>3, ServiceSteps
       DEF Service!SNext, Service!svars, Service!Accept, Service!Run, Service!Hear, Service!Answer
<1> QED
  BY <1>1, <1>2, TypeInit, TypeStep, SentInit, SentStep, QueueInit, QueueStep, HeardInit,
     HeardStep, PTL DEF Spec, ImplementsService, Service!SSpec
=============================================================================
