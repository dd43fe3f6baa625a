----------------------- MODULE CalibrationQueue_proofs -----------------------
(***************************************************************************)
(* Theorems about CalibrationQueue, for every set of requests, chips,      *)
(* tuners and sessions and every value of the bounds.                      *)
(***************************************************************************)
EXTENDS CalibrationQueue, SequenceTheorems, TLAPS

-----------------------------------------------------------------------------
(* What may be on its way, given the requests that were ever sent. *)

SentJobs == {Asked(r) : r \in {q \in Requests : sent[q] > 0}}
LiveJobs == SelfJobs \cup SentJobs

Orders ==
  [kind : ServiceStates, job : {NoJob}] \cup [kind : {"calibrate"}, job : SentJobs]
Outcomes == [kind : Finished, job : LiveJobs \cup {NoJob}]
Events == Outcomes \cup [kind : {"queued"}, job : LiveJobs] \cup [kind : {"refused"}, job : SentJobs]

\* Only a check can have found drift.
Reports ==
  {m \in [kind : Finished \cup {"plan"}, job : LiveJobs \cup {NoJob}, drifted : BOOLEAN] :
     /\ m.drifted => m.job \in Jobs /\ IsCheck(m.job)
     /\ m.kind = "plan" => m.job # NoJob}

\* What the tuners, and the sockets, hold.
HeldOK ==
  /\ down \in [Sessions -> Seq(Orders)]
  /\ receiving \in [Tuners -> SentJobs \cup {NoJob}]
  /\ pumping \in [Tuners -> SelfJobs \cup {NoJob}]
  /\ jobs \in [Tuners -> Seq(LiveJobs)]
  /\ work \in [Tuners -> LiveJobs \cup {NoJob, Dead}]
  /\ reports \in [Tuners -> Seq(Reports)]
  /\ out \in [Tuners -> Seq(Events)]

LinksOK ==
  /\ lease \in [Tuners -> Sessions \cup {NoSession}]
  /\ attached \in [Tuners -> BOOLEAN] /\ broken \in [Tuners -> BOOLEAN]
  /\ open \in [Sessions -> BOOLEAN]

FlagsOK ==
  /\ alive \in [Tuners -> BOOLEAN] /\ told \in [Tuners -> ServiceStates]
  /\ busy \in [Tuners -> BOOLEAN] /\ ticking \in [Tuners -> BOOLEAN]

\* A request is there before it is sent, and sent before it is more than pending; a
\* dispatcher holds one of its own tuner.
KnownOK ==
  /\ \A r \in Requests :
       /\ sent[r] > 0 => request[r] # "absent"
       /\ request[r] \in {"running"} \cup Finished => sent[r] > 0
  /\ \A s \in Sessions : ditem[s] # NoJob =>
       /\ request[ditem[s].of] # "absent"
       /\ RequestTuner[ditem[s].of] = SessionTuner[s]
       /\ dpc[s] = "sent" => sent[ditem[s].of] > 0

TypeInv ==
  /\ RowsOK /\ DispatchersOK /\ ListenersOK /\ LinksOK /\ FlagsOK /\ HistoryOK
  /\ HeldOK /\ KnownOK

-----------------------------------------------------------------------------
(* Names. *)

LEMMA RequestNames ==
  /\ RequestJobs \cap SelfJobs = {}
  /\ NoJob \notin RequestJobs /\ NoJob \notin SelfJobs
  /\ Dead # NoJob /\ Dead \notin RequestJobs /\ Dead \notin SelfJobs
  /\ \A r \in Requests : Asked(r) \in RequestJobs /\ Asked(r).of = r
  /\ \A j \in RequestJobs : j.of \in Requests /\ j = Asked(j.of)
<1>1. NoJob \notin Jobs /\ Dead \notin Jobs /\ Dead # NoJob
  BY NamesAssumption
<1>2. \A r \in Requests : Asked(r) \in RequestJobs /\ Asked(r).of = r /\ Asked(r).again = FALSE
  BY DEF Asked, RequestJobs
<1>3. \A j \in RequestJobs : j.of \in Requests /\ j = Asked(j.of) /\ j.again = FALSE
  BY <1>2 DEF RequestJobs
<1>4. \A j \in SelfJobs : j.again = TRUE \/ j.of = 0
  BY DEF SelfJobs, DriftCheck
<1>5. 0 \notin Requests
  BY CalibrationAssumption
<1> QED
  BY <1>1, <1>2, <1>3, <1>4, <1>5 DEF Jobs

LEMMA LiveNames ==
  /\ SentJobs \subseteq RequestJobs /\ SentJobs \subseteq LiveJobs /\ SelfJobs \subseteq LiveJobs
  /\ LiveJobs \subseteq Jobs /\ NoJob \notin LiveJobs /\ Dead \notin LiveJobs
  /\ \A j \in SentJobs : j.of \in Requests /\ sent[j.of] > 0 /\ j = Asked(j.of)
  /\ \A r \in Requests : sent[r] > 0 => Asked(r) \in SentJobs
<1>1. SentJobs \subseteq RequestJobs
  BY DEF SentJobs, RequestJobs
<1>2. /\ \A j \in SentJobs : j.of \in Requests /\ sent[j.of] > 0 /\ j = Asked(j.of)
      /\ \A r \in Requests : sent[r] > 0 => Asked(r) \in SentJobs
  BY RequestNames DEF SentJobs
<1> QED
  BY <1>1, <1>2, RequestNames DEF LiveJobs, Jobs

\* The recalibration after a check is one of the tuner's own.
LEMMA FollowUp ==
  ASSUME NEW j \in Jobs, IsCheck(j)
  PROVE  Recalibrate(j) \in SelfJobs
<1>1. \E r \in Requests \cup {0}, b \in BOOLEAN : j = [of |-> r, again |-> b]
  <2>1. CASE j \in RequestJobs
    BY <2>1 DEF RequestJobs, Asked
  <2>2. CASE j \in SelfJobs
    BY <2>2, CalibrationAssumption DEF SelfJobs, DriftCheck
  <2> QED
    BY <2>1, <2>2 DEF Jobs
<1>2. j.of \in FidelityChecks \cup {0}
  BY <1>1 DEF IsCheck
<1> QED
  BY <1>2 DEF Recalibrate, SelfJobs

-----------------------------------------------------------------------------
(* Channels. *)

LEMMA SuffixesOfSeq ==
  ASSUME NEW S, NEW q \in Seq(S), NEW p \in Suffixes(q)
  PROVE  p \in Seq(S)
<1>1. PICK k \in 1..(Len(q) + 1) : p = SubSeq(q, k, Len(q))
  BY Zenon DEF Suffixes
<1>2. Len(q) \in Nat
  BY LenProperties
<1>3. \A i \in k..Len(q) : q[i] \in S
  BY <1>2, ElementOfSeq
<1> QED
  BY <1>1, <1>2, <1>3, SubSeqProperties

LEMMA PrefixOfSeq ==
  ASSUME NEW S, NEW q \in Seq(S), NEW k \in 0..Len(q)
  PROVE  SubSeq(q, 1, k) \in Seq(S)
<1>1. Len(q) \in Nat
  BY LenProperties
<1>2. \A i \in 1..k : q[i] \in S
  BY <1>1, ElementOfSeq
<1> QED
  BY <1>1, <1>2, SubSeqProperties

LEMMA SeqEnds ==
  ASSUME NEW S, NEW q \in Seq(S)
  PROVE  /\ q # <<>> => Head(q) \in S /\ Tail(q) \in Seq(S)
         /\ \A e \in S : Append(q, e) \in Seq(S)
  BY HeadTailProperties, AppendProperties

LEMMA FirstOrder ==
  ASSUME HeldOK, NEW s \in Sessions, down[s] # <<>>
  PROVE  /\ Tail(down[s]) \in Seq(Orders)
         /\ Head(down[s]).kind \in ServiceStates \/ Head(down[s]).kind = "calibrate"
         /\ Head(down[s]).kind = "calibrate" => Head(down[s]).job \in SentJobs
<1>1. Head(down[s]) \in Orders /\ Tail(down[s]) \in Seq(Orders)
  BY SeqEnds DEF HeldOK
<1> QED
  BY <1>1 DEF Orders, ServiceStates

LEMMA FirstEvent ==
  ASSUME HeldOK, NEW d \in Tuners, out[d] # <<>>
  PROVE  /\ Tail(out[d]) \in Seq(Events)
         /\ Head(out[d]).kind \in Finished \cup {"queued", "refused"}
         /\ Head(out[d]).kind = "queued" => Head(out[d]).job \in LiveJobs
         /\ Head(out[d]).kind = "refused" => Head(out[d]).job \in SentJobs
         /\ Head(out[d]).job \in LiveJobs \cup {NoJob}
<1>1. Head(out[d]) \in Events /\ Tail(out[d]) \in Seq(Events)
  BY SeqEnds DEF HeldOK
<1> QED
  BY <1>1, LiveNames DEF Events, Outcomes, Finished

LEMMA FirstReport ==
  ASSUME HeldOK, NEW d \in Tuners, reports[d] # <<>>
  PROVE  /\ Tail(reports[d]) \in Seq(Reports)
         /\ Head(reports[d]).job \in LiveJobs \cup {NoJob}
         /\ Head(reports[d]).kind = "plan" => Head(reports[d]).job \in LiveJobs
         /\ Head(reports[d]).drifted =>
              Head(reports[d]).job \in Jobs /\ Recalibrate(Head(reports[d]).job) \in SelfJobs
<1>1. Head(reports[d]) \in Reports /\ Tail(reports[d]) \in Seq(Reports)
  BY SeqEnds DEF HeldOK
<1> QED
  BY <1>1, FollowUp DEF Reports

LEMMA FirstJob ==
  ASSUME HeldOK, NEW d \in Tuners, jobs[d] # <<>>
  PROVE  Head(jobs[d]) \in LiveJobs /\ Tail(jobs[d]) \in Seq(LiveJobs)
  BY SeqEnds DEF HeldOK

\* An event, an order or a report that is added keeps its channel one.
LEMMA AddedEvent ==
  ASSUME HeldOK, NEW d \in Tuners, NEW kind, NEW job,
         \/ kind \in Finished /\ job \in LiveJobs \cup {NoJob}
         \/ kind = "queued" /\ job \in LiveJobs
         \/ kind = "refused" /\ job \in SentJobs,
         Emit(d, kind, job)
  PROVE  out' \in [Tuners -> Seq(Events)]
<1>1. [kind |-> kind, job |-> job] \in Events
  BY DEF Events, Outcomes
<1> QED
  BY <1>1, SeqEnds DEF Emit, HeldOK

LEMMA AddedJob ==
  ASSUME HeldOK, NEW d \in Tuners, NEW job \in LiveJobs, Enqueue(d, job)
  PROVE  jobs' \in [Tuners -> Seq(LiveJobs)]
  BY SeqEnds DEF Enqueue, HeldOK

LEMMA AddedReport ==
  ASSUME HeldOK, NEW d \in Tuners, NEW kind \in Finished \cup {"plan"}, NEW job \in LiveJobs,
         NEW drifted \in BOOLEAN, drifted => IsCheck(job),
         reports' = [reports EXCEPT ![d] = Append(@, Report(kind, job, drifted))]
  PROVE  reports' \in [Tuners -> Seq(Reports)]
<1>1. Report(kind, job, drifted) \in Reports
  BY LiveNames DEF Report, Reports
<1> QED
  BY <1>1, SeqEnds DEF HeldOK

\* As long as nothing is sent, the sets of what may be held are the same ...
LEMMA SameNames ==
  UNCHANGED sent => /\ SentJobs' = SentJobs /\ LiveJobs' = LiveJobs /\ Orders' = Orders
                    /\ Events' = Events /\ Reports' = Reports
  BY DEF SentJobs, LiveJobs, Orders, Events, Outcomes, Reports

\* ... and a send only adds to them.
LEMMA MoreNames ==
  ASSUME SentJobs \subseteq SentJobs'
  PROVE  /\ LiveJobs \subseteq LiveJobs' /\ Orders \subseteq Orders'
         /\ Events \subseteq Events' /\ Reports \subseteq Reports'
<1>1. LiveJobs \subseteq LiveJobs'
  BY DEF LiveJobs
<1>2. Orders \subseteq Orders'
  BY DEF Orders
<1>3. Outcomes \subseteq Outcomes'
  BY <1>1 DEF Outcomes
<1>4. Events \subseteq Events'
  BY <1>1, <1>3 DEF Events
<1>5. Reports \subseteq Reports'
  BY <1>1 DEF Reports
<1> QED
  BY <1>1, <1>2, <1>4, <1>5

-----------------------------------------------------------------------------
(* Type correctness. *)

LEMMA TypeInit == Init => TypeInv
<1> SUFFICES ASSUME Init PROVE TypeInv
  OBVIOUS
<1> USE CalibrationAssumption, NamesAssumption, RequestNames DEF Init
<1>1. RowsOK /\ DispatchersOK /\ ListenersOK
  BY DEF RowsOK, DispatchersOK, ListenersOK, ServiceStates
<1>2. LinksOK /\ FlagsOK /\ HistoryOK
  BY DEF LinksOK, FlagsOK, HistoryOK, ServiceStates
<1>3. HeldOK
  BY EmptySeq DEF HeldOK
<1>4. KnownOK
  BY DEF KnownOK, Finished
<1> QED
  BY <1>1, <1>2, <1>3, <1>4 DEF TypeInv

\* A part whose variables do not change stays true.
LEMMA TypeFrame ==
  ASSUME TypeInv
  PROVE  /\ UNCHANGED <<rowVars, service>> => RowsOK'
         /\ UNCHANGED dispVars => DispatchersOK'
         /\ UNCHANGED listVars => ListenersOK'
         /\ UNCHANGED <<lease, attached, broken, open>> => LinksOK'
         /\ UNCHANGED <<alive, told, busy, ticking>> => FlagsOK'
         /\ UNCHANGED <<histVars, boundVars>> => HistoryOK'
         /\ UNCHANGED <<down, receiving, pumping, workVars, out, sent>> => HeldOK'
         /\ UNCHANGED <<request, dpc, ditem, sent>> => KnownOK'
<1>1. UNCHANGED <<rowVars, service>> => RowsOK'
  BY DEF TypeInv, RowsOK, rowVars
<1>2. UNCHANGED dispVars => DispatchersOK'
  BY DEF TypeInv, DispatchersOK, dispVars
<1>3. UNCHANGED listVars => ListenersOK'
  BY DEF TypeInv, ListenersOK, listVars
<1>4. UNCHANGED <<lease, attached, broken, open>> => LinksOK'
  BY DEF TypeInv, LinksOK
<1>5. UNCHANGED <<alive, told, busy, ticking>> => FlagsOK'
  BY DEF TypeInv, FlagsOK
<1>6. UNCHANGED <<histVars, boundVars>> => HistoryOK'
  BY DEF TypeInv, HistoryOK, histVars, boundVars
<1>7. UNCHANGED <<down, receiving, pumping, workVars, out, sent>> => HeldOK'
  BY SameNames DEF TypeInv, HeldOK, workVars
<1>8. UNCHANGED <<request, dpc, ditem, sent>> => KnownOK'
  BY DEF TypeInv, KnownOK
<1> QED
  BY <1>1, <1>2, <1>3, <1>4, <1>5, <1>6, <1>7, <1>8

LEMMA FaultBounded == HistoryOK /\ Fault => faults' \in 0..MaxFaults
  BY CalibrationAssumption DEF HistoryOK, Fault

\* What a dispatcher holds is a request.
LEMMA HeldRequest ==
  ASSUME DispatchersOK, NEW s \in Sessions, ditem[s] # NoJob
  PROVE  ditem[s].of \in Requests /\ ditem[s] = Asked(ditem[s].of) /\ ditem[s] \in RequestJobs
  BY RequestNames DEF DispatchersOK

LEMMA Singleton == ASSUME NEW S, NEW x \in S PROVE <<x>> \in Seq(S)
  OBVIOUS

\* What a receiver takes off a channel leaves a channel.
LEMMA TakenEvent ==
  ASSUME HeldOK, NEW s \in Sessions, Receiving(s), Taken(s)
  PROVE  /\ out' \in [Tuners -> Seq(Events)]
         /\ Arrived(s).kind = "queued" => Arrived(s).job \in LiveJobs
         /\ Arrived(s).kind = "refused" => Arrived(s).job \in SentJobs
         /\ Arrived(s).job \in LiveJobs \cup {NoJob}
<1>1. SessionTuner[s] \in Tuners /\ out[SessionTuner[s]] # <<>>
  BY CalibrationAssumption DEF Receiving
<1> QED
  BY <1>1, FirstEvent DEF Taken, Arrived, HeldOK

LEMMA TakenOrder ==
  ASSUME HeldOK, NEW s \in Sessions, Served(s), down' = [down EXCEPT ![s] = Tail(@)]
  PROVE  /\ down' \in [Sessions -> Seq(Orders)]
         /\ Head(down[s]).kind = "calibrate" => Head(down[s]).job \in SentJobs
  BY FirstOrder DEF Served, HeldOK

LEMMA TakenReport ==
  ASSUME HeldOK, NEW d \in Tuners, reports[d] # <<>>, reports' = [reports EXCEPT ![d] = Tail(@)]
  PROVE  reports' \in [Tuners -> Seq(Reports)]
  BY FirstReport DEF HeldOK

\* What is left of the tuners' events is events.
LEMMA LeftEvents ==
  ASSUME HeldOK, NEW D \in SUBSET Tuners, NEW handled, LoseEvents(D, handled)
  PROVE  out' \in [Tuners -> Seq(Events)]
<1>1. PICK left \in [D -> UNION {Suffixes(out[d]) : d \in D}] :
        /\ \A d \in D : left[d] \in Suffixes(out[d])
        /\ out' = [d \in Tuners |-> IF d \notin D THEN out[d]
                                    ELSE IF alive[d] THEN left[d] ELSE <<>>]
  BY DEF LoseEvents
<1>2. \A d \in D : left[d] \in Seq(Events)
  BY <1>1, SuffixesOfSeq DEF HeldOK
<1>3. <<>> \in Seq(Events)
  BY EmptySeq
<1> QED
  BY <1>1, <1>2, <1>3 DEF HeldOK

LEMMA CutTuners ==
  ASSUME HistoryOK, NEW D \in SUBSET Tuners, NEW handled \in SUBSET Tuners, LoseEvents(D, handled)
  PROVE  cut' \subseteq Tuners
  BY DEF HistoryOK, LoseEvents

\* A send is counted below its bound, and names what it sent.
LEMMA SendCounted ==
  ASSUME HistoryOK, NEW r \in Requests, sent[r] < MaxSends, sent' = [sent EXCEPT ![r] = @ + 1]
  PROVE  /\ sent' \in [Requests -> 0..MaxSends]
         /\ \A q \in Requests : sent[q] > 0 => sent'[q] > 0
         /\ sent'[r] > 0
         /\ \A q \in Requests \ {r} : sent'[q] = sent[q]
         /\ SentJobs \subseteq SentJobs' /\ Asked(r) \in SentJobs'
<1>1. sent' \in [Requests -> 0..MaxSends]
  BY CalibrationAssumption DEF HistoryOK
<1>2. /\ \A q \in Requests : sent[q] > 0 => sent'[q] > 0
      /\ sent'[r] > 0
      /\ \A q \in Requests \ {r} : sent'[q] = sent[q]
  BY CalibrationAssumption DEF HistoryOK
<1>3. SentJobs \subseteq SentJobs' /\ Asked(r) \in SentJobs'
  BY <1>2 DEF SentJobs
<1> QED
  BY <1>1, <1>2, <1>3

LEMMA TypeStep == TypeInv /\ [Next]_vars => TypeInv'
<1> SUFFICES ASSUME TypeInv, [Next]_vars PROVE TypeInv'
  OBVIOUS
<1> USE DEF rowVars, dispVars, listVars, wireVars, threadVars, workVars, tunerVars, histVars, boundVars
<1>1. ASSUME NEW r \in Requests, QueueRequest(r) PROVE TypeInv'
  <2>1. RowsOK'
    BY <1>1 DEF TypeInv, RowsOK, QueueRequest
  <2>2. KnownOK'
    BY <1>1 DEF TypeInv, KnownOK, RowsOK, Finished, QueueRequest
  <2> QED
    BY <1>1, TypeFrame, <2>1, <2>2 DEF TypeInv, QueueRequest
<1>2. ASSUME NEW r \in Requests, CloseRequest(r) PROVE TypeInv'
  <2>1. RowsOK'
    BY <1>2 DEF TypeInv, RowsOK, CloseRequest, Finished
  <2>2. KnownOK'
    BY <1>2 DEF TypeInv, KnownOK, CloseRequest, Finished
  <2> QED
    BY <1>2, TypeFrame, <2>1, <2>2 DEF TypeInv, CloseRequest
<1>3. ASSUME NEW j \in SelfJobs, NEW d \in Tuners, CloseSelfRow(j, d) PROVE TypeInv'
  <2>1. RowsOK'
    BY <1>3 DEF TypeInv, RowsOK, CloseSelfRow
  <2> QED
    BY <1>3, TypeFrame, <2>1 DEF TypeInv, CloseSelfRow
<1>4. ASSUME NEW q \in Chips, NEW state \in ServiceStates, SetService(q, state) PROVE TypeInv'
  <2>1. RowsOK'
    BY <1>4 DEF TypeInv, RowsOK, SetService
  <2>2. HistoryOK'
    <3>1. toggles' \in 0..MaxToggles
      BY <1>4, CalibrationAssumption DEF TypeInv, HistoryOK, SetService
    <3>2. lateAccepts' \in [Tuners -> Nat] /\ lateSent' \subseteq Requests
      BY <1>4 DEF TypeInv, HistoryOK, SetService
    <3> QED
      BY <1>4, <3>1, <3>2 DEF TypeInv, HistoryOK, SetService
  <2> QED
    BY <1>4, TypeFrame, <2>1, <2>2 DEF TypeInv, SetService
<1>5. ASSUME NEW s \in Sessions, NEW r \in Requests, Offer(s, r) PROVE TypeInv'
  <2>1. DispatchersOK'
    BY <1>5, RequestNames DEF TypeInv, DispatchersOK, Offer
  <2>2. KnownOK'
    BY <1>5, RequestNames DEF TypeInv, KnownOK, Offer, NextRequests, Pending, DispatchersOK
  <2> QED
    BY <1>5, TypeFrame, <2>1, <2>2 DEF TypeInv, Offer
<1>6. ASSUME NEW s \in Sessions, AssertState(s) PROVE TypeInv'
  <2>1. DispatchersOK'
    BY <1>6, CalibrationAssumption DEF TypeInv, DispatchersOK, AssertState, RowsOK, Chip
  <2>2. HistoryOK'
    BY <1>6, FaultBounded DEF TypeInv, HistoryOK, AssertState
  <2>3. HeldOK'
    <3>1. [kind |-> service[Chip(s)], job |-> NoJob] \in Orders
      BY CalibrationAssumption DEF TypeInv, RowsOK, Chip, Orders
    <3>2. Append(down[s], [kind |-> service[Chip(s)], job |-> NoJob]) \in Seq(Orders)
      BY <3>1, SeqEnds DEF TypeInv, HeldOK
    <3>3. down' = down \/ down' =
            [down EXCEPT ![s] = Append(down[s], [kind |-> service[Chip(s)], job |-> NoJob])]
      BY <1>6 DEF AssertState
    <3>4. down' \in [Sessions -> Seq(Orders)]
      BY <3>2, <3>3 DEF TypeInv, HeldOK
    <3> QED
      BY <1>6, <3>4, SameNames DEF TypeInv, HeldOK, AssertState
  <2>4. KnownOK'
    BY <1>6 DEF TypeInv, KnownOK, AssertState, DispatchersOK
  <2> QED
    BY <1>6, TypeFrame, <2>1, <2>2, <2>3, <2>4 DEF TypeInv, AssertState
<1>7. ASSUME NEW s \in Sessions, LookForRunning(s) \/ NothingToOffer(s) PROVE TypeInv'
  <2>1. DispatchersOK'
    BY <1>7 DEF TypeInv, DispatchersOK, LookForRunning, NothingToOffer
  <2>2. KnownOK'
    BY <1>7 DEF TypeInv, KnownOK, LookForRunning, NothingToOffer, DispatchersOK
  <2> QED
    BY <1>7, TypeFrame, <2>1, <2>2 DEF TypeInv, LookForRunning, NothingToOffer
<1>8. ASSUME NEW s \in Sessions, SendRequest(s) PROVE TypeInv'
  <2>1. DispatchersOK'
    BY <1>8 DEF TypeInv, DispatchersOK, SendRequest
  <2>2. HistoryOK'
    <3>1. ditem[s].of \in Requests
      BY <1>8, HeldRequest DEF TypeInv, DispatchersOK, SendRequest
    <3>2. sent' \in [Requests -> 0..MaxSends]
      BY <1>8, <3>1, SendCounted DEF TypeInv, SendRequest
    <3> QED
      BY <1>8, <3>1, <3>2 DEF TypeInv, HistoryOK, SendRequest
  <2>3. HeldOK'
    <3>0. ditem[s].of \in Requests /\ ditem[s] = Asked(ditem[s].of)
      BY <1>8, HeldRequest DEF TypeInv, DispatchersOK, SendRequest
    <3>1. SentJobs \subseteq SentJobs' /\ ditem[s] \in SentJobs'
      BY <1>8, <3>0, SendCounted DEF TypeInv, SendRequest
    <3>2. [kind |-> "calibrate", job |-> ditem[s]] \in Orders'
      BY <3>1 DEF Orders
    <3>3. /\ LiveJobs \subseteq LiveJobs' /\ Orders \subseteq Orders'
          /\ Events \subseteq Events' /\ Reports \subseteq Reports'
      BY <3>1, MoreNames
    <3>4. down' \in [Sessions -> Seq(Orders')]
      <4>1. \A t \in Sessions : down[t] \in Seq(Orders')
        BY <3>3, SeqMonotonic DEF TypeInv, HeldOK
      <4>2. Append(down[s], [kind |-> "calibrate", job |-> ditem[s]]) \in Seq(Orders')
        BY <3>2, <4>1, SeqEnds
      <4> QED
        BY <1>8, <4>1, <4>2 DEF TypeInv, HeldOK, SendRequest
    <3>5. \A d \in Tuners : /\ jobs[d] \in Seq(LiveJobs') /\ reports[d] \in Seq(Reports')
                            /\ out[d] \in Seq(Events')
      BY <3>3, SeqMonotonic DEF TypeInv, HeldOK
    <3>6. /\ jobs \in [Tuners -> Seq(LiveJobs')] /\ reports \in [Tuners -> Seq(Reports')]
          /\ out \in [Tuners -> Seq(Events')]
      BY <3>5 DEF TypeInv, HeldOK
    <3>7. /\ receiving \in [Tuners -> SentJobs' \cup {NoJob}]
          /\ work \in [Tuners -> LiveJobs' \cup {NoJob, Dead}]
      BY <3>1, <3>3 DEF TypeInv, HeldOK
    <3> QED
      BY <1>8, <3>4, <3>6, <3>7 DEF TypeInv, HeldOK, SendRequest
  <2>4. KnownOK'
    <3>1. ditem[s] # NoJob /\ ditem[s].of \in Requests
      BY <1>8, HeldRequest DEF TypeInv, DispatchersOK, SendRequest
    <3>2. /\ \A q \in Requests : sent[q] > 0 => sent'[q] > 0
          /\ sent'[ditem[s].of] > 0
          /\ \A q \in Requests \ {ditem[s].of} : sent'[q] = sent[q]
      BY <1>8, <3>1, SendCounted DEF TypeInv, SendRequest
    <3>3. \A t \in Sessions : ditem[t] # NoJob => ditem[t].of \in Requests
      BY HeldRequest DEF TypeInv
    <3> QED
      BY <1>8, <3>1, <3>2, <3>3 DEF TypeInv, KnownOK, DispatchersOK, SendRequest
  <2> QED
    BY <1>8, TypeFrame, <2>1, <2>2, <2>3, <2>4 DEF TypeInv, SendRequest
<1>9. ASSUME NEW s \in Sessions, SendFails(s) PROVE TypeInv'
  <2>1. DispatchersOK'
    BY <1>9 DEF TypeInv, DispatchersOK, SendFails
  <2>2. HistoryOK'
    BY <1>9, FaultBounded DEF TypeInv, HistoryOK, SendFails
  <2>3. KnownOK'
    BY <1>9 DEF TypeInv, KnownOK, SendFails, DispatchersOK
  <2> QED
    BY <1>9, TypeFrame, <2>1, <2>2, <2>3 DEF TypeInv, SendFails
<1>10. ASSUME NEW s \in Sessions, MarkRunning(s) PROVE TypeInv'
  <2>1. RowsOK'
    BY <1>10, HeldRequest DEF TypeInv, RowsOK, MarkRunning
  <2>2. DispatchersOK'
    BY <1>10 DEF TypeInv, DispatchersOK, MarkRunning
  <2>3. KnownOK'
    BY <1>10, HeldRequest DEF TypeInv, KnownOK, MarkRunning, RowsOK, DispatchersOK
  <2> QED
    BY <1>10, TypeFrame, <2>1, <2>2, <2>3 DEF TypeInv, MarkRunning
<1>11. ASSUME NEW s \in Sessions, DispatcherReturns(s) PROVE TypeInv'
  <2>1. DispatchersOK'
    BY <1>11 DEF TypeInv, DispatchersOK, DispatcherReturns
  <2>2. KnownOK'
    BY <1>11 DEF TypeInv, KnownOK, DispatcherReturns, DispatchersOK
  <2> QED
    BY <1>11, TypeFrame, <2>1, <2>2 DEF TypeInv, DispatcherReturns
<1>12. ASSUME NEW s \in Sessions, ReceiveQueued(s) PROVE TypeInv'
  <2>1. ListenersOK'
    <3>1. Arrived(s).job \in LiveJobs
      BY <1>12, TakenEvent DEF TypeInv, ReceiveQueued
    <3>2. \A j \in SentJobs : HasRow(j)
      BY LiveNames DEF TypeInv, KnownOK, HasRow
    <3>3. ~HasRow(Arrived(s).job) => Arrived(s).job \in SelfJobs /\ Arrived(s).job # NoJob
      BY <3>1, <3>2, LiveNames DEF LiveJobs
    <3> QED
      BY <1>12, <3>3 DEF TypeInv, ListenersOK, ReceiveQueued, Receiving
  <2>2. HeldOK'
    <3>1. out' \in [Tuners -> Seq(Events)]
      BY <1>12, TakenEvent DEF TypeInv, ReceiveQueued
    <3> QED
      BY <1>12, <3>1, SameNames DEF TypeInv, HeldOK, ReceiveQueued
  <2> QED
    BY <1>12, TypeFrame, <2>1, <2>2 DEF TypeInv, ReceiveQueued
<1>13. ASSUME NEW s \in Sessions, CreateRow(s) PROVE TypeInv'
  <2>1. RowsOK'
    BY <1>13 DEF TypeInv, RowsOK, CreateRow
  <2>2. ListenersOK'
    BY <1>13 DEF TypeInv, ListenersOK, CreateRow
  <2> QED
    BY <1>13, TypeFrame, <2>1, <2>2 DEF TypeInv, CreateRow
<1>14. ASSUME NEW s \in Sessions, ReceiveResult(s) PROVE TypeInv'
  <2>1. RowsOK'
    BY <1>14 DEF TypeInv, RowsOK, ReceiveResult
  <2>2. HeldOK'
    <3>1. out' \in [Tuners -> Seq(Events)]
      BY <1>14, TakenEvent DEF TypeInv, ReceiveResult
    <3> QED
      BY <1>14, <3>1, SameNames DEF TypeInv, HeldOK, ReceiveResult
  <2>3. KnownOK'
    <3>1. Arrived(s).job \in RequestJobs =>
            Arrived(s).job.of \in Requests /\ sent[Arrived(s).job.of] > 0
      BY <1>14, TakenEvent, LiveNames, RequestNames DEF TypeInv, ReceiveResult, LiveJobs
    <3>2. \A r \in Requests :
            \/ request'[r] = request[r]
            \/ request'[r] \in Finished /\ sent[r] > 0
      <4>1. CASE Arrived(s).job \in RequestJobs
        <5>1. request' = [request EXCEPT ![Arrived(s).job.of] = Arrived(s).kind]
              /\ Arrived(s).kind \in Finished
          BY <1>14, <4>1 DEF ReceiveResult
        <5> QED
          BY <3>1, <4>1, <5>1 DEF TypeInv, RowsOK
      <4>2. CASE Arrived(s).job \notin RequestJobs
        BY <1>14, <4>2 DEF ReceiveResult
      <4> QED
        BY <4>1, <4>2
    <3>3. \A t \in Sessions : ditem[t] # NoJob => ditem[t].of \in Requests
      BY HeldRequest DEF TypeInv
    <3> QED
      BY <1>14, <3>2, <3>3 DEF TypeInv, KnownOK, Finished, ReceiveResult
  <2> QED
    BY <1>14, TypeFrame, <2>1, <2>2, <2>3 DEF TypeInv, ReceiveResult
<1>15. ASSUME NEW s \in Sessions, ReceiveRefusal(s) PROVE TypeInv'
  <2>1. HeldOK'
    <3>1. out' \in [Tuners -> Seq(Events)]
      BY <1>15, TakenEvent DEF TypeInv, ReceiveRefusal
    <3> QED
      BY <1>15, <3>1, SameNames DEF TypeInv, HeldOK, ReceiveRefusal
  <2> QED
    BY <1>15, TypeFrame, <2>1 DEF TypeInv, ReceiveRefusal
<1>16. ASSUME NEW s \in Sessions, DropEvent(s) PROVE TypeInv'
  <2>1. HistoryOK'
    BY <1>16, FaultBounded, CalibrationAssumption DEF TypeInv, HistoryOK, DropEvent
  <2>2. HeldOK'
    <3>1. out' \in [Tuners -> Seq(Events)]
      BY <1>16, TakenEvent DEF TypeInv, DropEvent
    <3> QED
      BY <1>16, <3>1, SameNames DEF TypeInv, HeldOK, DropEvent
  <2> QED
    BY <1>16, TypeFrame, <2>1, <2>2 DEF TypeInv, DropEvent
<1>17. ASSUME NEW s \in Sessions, Hear(s) PROVE TypeInv'
  <2>1. FlagsOK'
    BY <1>17 DEF TypeInv, FlagsOK, Hear
  <2>2. HeldOK'
    <3>1. down' \in [Sessions -> Seq(Orders)]
      BY <1>17, TakenOrder DEF TypeInv, Hear
    <3> QED
      BY <1>17, <3>1, SameNames DEF TypeInv, HeldOK, Hear
  <2> QED
    BY <1>17, TypeFrame, <2>1, <2>2 DEF TypeInv, Hear
<1>18. ASSUME NEW s \in Sessions, Consider(s) PROVE TypeInv'
  <2>1. HistoryOK'
    BY <1>18 DEF TypeInv, HistoryOK, Consider
  <2>2. HeldOK'
    <3>1. SessionTuner[s] \in Tuners
      BY CalibrationAssumption
    <3>2. down' \in [Sessions -> Seq(Orders)] /\ Head(down[s]).job \in SentJobs
      BY <1>18, TakenOrder DEF TypeInv, Consider
    <3>3. receiving' \in [Tuners -> SentJobs \cup {NoJob}]
      BY <1>18, <3>1, <3>2 DEF TypeInv, HeldOK, Consider
    <3>4. out' \in [Tuners -> Seq(Events)]
      <4>1. CASE UNCHANGED out
        BY <4>1 DEF TypeInv, HeldOK
      <4>2. CASE Emit(SessionTuner[s], "refused", Head(down[s]).job)
        BY <3>1, <3>2, <4>2, AddedEvent DEF TypeInv
      <4> QED
        BY <1>18, <4>1, <4>2 DEF Consider
    <3> QED
      BY <1>18, <3>2, <3>3, <3>4, SameNames DEF TypeInv, HeldOK, Consider
  <2> QED
    BY <1>18, TypeFrame, <2>1, <2>2 DEF TypeInv, Consider
<1>19. ASSUME NEW s \in Sessions, CloseSockets(s) PROVE TypeInv'
  <2>1. ListenersOK'
    BY <1>19 DEF TypeInv, ListenersOK, CloseSockets
  <2>2. LinksOK'
    BY <1>19 DEF TypeInv, LinksOK, CloseSockets
  <2>3. HistoryOK'
    <3>1. cut' \subseteq Tuners
      BY <1>19, CutTuners, CalibrationAssumption DEF TypeInv, CloseSockets
    <3> QED
      BY <1>19, <3>1 DEF TypeInv, HistoryOK, CloseSockets
  <2>4. HeldOK'
    <3>1. out' \in [Tuners -> Seq(Events)]
      BY <1>19, LeftEvents, CalibrationAssumption DEF TypeInv, CloseSockets
    <3>2. down' \in [Sessions -> Seq(Orders)]
      BY <1>19, EmptySeq DEF TypeInv, HeldOK, CloseSockets
    <3> QED
      BY <1>19, <3>1, <3>2, SameNames DEF TypeInv, HeldOK, CloseSockets
  <2> QED
    BY <1>19, TypeFrame, <2>1, <2>2, <2>3, <2>4 DEF TypeInv, CloseSockets
<1>20. ASSUME NEW d \in Tuners, Accept(d) PROVE TypeInv'
  <2>1. FlagsOK'
    BY <1>20 DEF TypeInv, FlagsOK, Accept
  <2>2. HeldOK'
    BY <1>20, SameNames, AddedJob, LiveNames DEF TypeInv, HeldOK, Accept
  <2> QED
    BY <1>20, TypeFrame, <2>1, <2>2 DEF TypeInv, Accept
<1>21. ASSUME NEW d \in Tuners, Tick(d) PROVE TypeInv'
  <2>1. FlagsOK'
    BY <1>21 DEF TypeInv, FlagsOK, Tick
  <2>2. HistoryOK'
    <3>1. drifts' \in 0..MaxDrifts
      BY <1>21, CalibrationAssumption DEF TypeInv, HistoryOK, Tick
    <3> QED
      BY <1>21, <3>1 DEF TypeInv, HistoryOK, Tick
  <2> QED
    BY <1>21, TypeFrame, <2>1, <2>2 DEF TypeInv, Tick
<1>22. ASSUME NEW d \in Tuners, QueueDrift(d) PROVE TypeInv'
  <2>1. FlagsOK'
    BY <1>22 DEF TypeInv, FlagsOK, QueueDrift, QueueOwn
  <2>2. HeldOK'
    <3>1. DriftCheck \in LiveJobs
      BY DEF LiveJobs, SelfJobs
    <3>2. out' \in [Tuners -> Seq(Events)] /\ jobs' \in [Tuners -> Seq(LiveJobs)]
      BY <1>22, <3>1, AddedEvent, AddedJob DEF TypeInv, QueueDrift, QueueOwn
    <3> QED
      BY <1>22, <3>2, SameNames DEF TypeInv, HeldOK, QueueDrift
  <2> QED
    BY <1>22, TypeFrame, <2>1, <2>2 DEF TypeInv, QueueDrift
<1>23. ASSUME NEW d \in Tuners, PumpPlan(d) PROVE TypeInv'
  <2>1. HeldOK'
    BY <1>23, SameNames, FirstReport, AddedEvent DEF TypeInv, HeldOK, PumpPlan
  <2> QED
    BY <1>23, TypeFrame, <2>1 DEF TypeInv, PumpPlan
<1>24. ASSUME NEW d \in Tuners, PumpResult(d) PROVE TypeInv'
  <2>1. FlagsOK'
    BY <1>24 DEF TypeInv, FlagsOK, PumpResult
  <2>2. HeldOK'
    BY <1>24, SameNames, FirstReport, AddedEvent DEF TypeInv, HeldOK, PumpResult
  <2> QED
    BY <1>24, TypeFrame, <2>1, <2>2 DEF TypeInv, PumpResult
<1>25. ASSUME NEW d \in Tuners, PumpFollowUp(d) PROVE TypeInv'
  <2>1. FlagsOK'
    BY <1>25 DEF TypeInv, FlagsOK, PumpFollowUp, QueueOwn
  <2>2. HeldOK'
    <3>1. pumping[d] \in LiveJobs
      BY <1>25 DEF TypeInv, HeldOK, LiveJobs, PumpFollowUp
    <3>2. out' \in [Tuners -> Seq(Events)] /\ jobs' \in [Tuners -> Seq(LiveJobs)]
      BY <1>25, <3>1, AddedEvent, AddedJob DEF TypeInv, PumpFollowUp, QueueOwn
    <3>3. pumping' \in [Tuners -> SelfJobs \cup {NoJob}]
      BY <1>25 DEF TypeInv, HeldOK, PumpFollowUp
    <3> QED
      BY <1>25, <3>2, <3>3, SameNames DEF TypeInv, HeldOK, PumpFollowUp
  <2> QED
    BY <1>25, TypeFrame, <2>1, <2>2 DEF TypeInv, PumpFollowUp
<1>34. ASSUME NEW d \in Tuners, QueueUnannounced(d) PROVE TypeInv'
  <2>1. FlagsOK'
    BY <1>34 DEF TypeInv, FlagsOK, QueueUnannounced
  <2>2. HistoryOK'
    BY <1>34, FaultBounded DEF TypeInv, HistoryOK, QueueUnannounced
  <2>3. HeldOK'
    <3>1. DriftCheck \in LiveJobs /\ (pumping[d] # NoJob => pumping[d] \in LiveJobs)
      BY DEF TypeInv, HeldOK, LiveJobs, SelfJobs
    <3>2. jobs' \in [Tuners -> Seq(LiveJobs)]
      BY <1>34, <3>1, AddedJob DEF TypeInv, QueueUnannounced
    <3>3. pumping' \in [Tuners -> SelfJobs \cup {NoJob}]
      BY <1>34 DEF TypeInv, HeldOK, QueueUnannounced
    <3> QED
      BY <1>34, <3>2, <3>3, SameNames DEF TypeInv, HeldOK, QueueUnannounced
  <2> QED
    BY <1>34, TypeFrame, <2>1, <2>2, <2>3 DEF TypeInv, QueueUnannounced
<1>35. ASSUME NEW d \in Tuners, ReportFails(d) PROVE TypeInv'
  <2>1. FlagsOK'
    BY <1>35 DEF TypeInv, FlagsOK, ReportFails
  <2>2. HistoryOK'
    BY <1>35, FaultBounded DEF TypeInv, HistoryOK, ReportFails
  <2>3. HeldOK'
    <3>1. out' \in [Tuners -> Seq(Events)]
      <4>1. CASE UNCHANGED out
        BY <4>1 DEF TypeInv, HeldOK
      <4>2. CASE Emit(d, "failed", Head(reports[d]).job) /\ Head(reports[d]).kind \in Finished
        BY <1>35, <4>2, FirstReport, AddedEvent DEF TypeInv, ReportFails, Finished
      <4> QED
        BY <1>35, <4>1, <4>2 DEF ReportFails
    <3>2. reports' \in [Tuners -> Seq(Reports)]
      BY <1>35, TakenReport DEF TypeInv, ReportFails
    <3> QED
      BY <1>35, <3>1, <3>2, SameNames DEF TypeInv, HeldOK, ReportFails
  <2> QED
    BY <1>35, TypeFrame, <2>1, <2>2, <2>3 DEF TypeInv, ReportFails
<1>26. ASSUME NEW d \in Tuners, Begin(d) PROVE TypeInv'
  <2>1. HistoryOK'
    <3>1. Head(jobs[d]) \in Jobs
      BY <1>26, FirstJob, LiveNames DEF TypeInv, Begin
    <3> QED
      BY <1>26, <3>1 DEF TypeInv, HistoryOK, Begin
  <2>2. HeldOK'
    <3>1. Head(jobs[d]) \in LiveJobs /\ Tail(jobs[d]) \in Seq(LiveJobs)
      BY <1>26, FirstJob DEF TypeInv, Begin
    <3>2. /\ work' \in [Tuners -> LiveJobs \cup {NoJob, Dead}]
          /\ jobs' \in [Tuners -> Seq(LiveJobs)]
      BY <1>26, <3>1 DEF TypeInv, HeldOK, Begin
    <3>3. reports' \in [Tuners -> Seq(Reports)]
      <4>1. CASE reports' = reports
        BY <4>1 DEF TypeInv, HeldOK
      <4>2. CASE reports' = [reports EXCEPT ![d] = Append(@, Report("plan", Head(jobs[d]), FALSE))]
        BY <3>1, <4>2, AddedReport DEF TypeInv
      <4> QED
        BY <1>26, <4>1, <4>2 DEF Begin
    <3> QED
      BY <1>26, <3>2, <3>3, SameNames DEF TypeInv, HeldOK, Begin
  <2> QED
    BY <1>26, TypeFrame, <2>1, <2>2 DEF TypeInv, Begin
<1>27. ASSUME NEW d \in Tuners, Attach(d) PROVE TypeInv'
  <2>1. LinksOK'
    BY <1>27 DEF TypeInv, LinksOK, Attach
  <2> QED
    BY <1>27, TypeFrame, <2>1 DEF TypeInv, Attach
<1>28. ASSUME NEW d \in Tuners, TunerDies(d) PROVE TypeInv'
  <2>1. LinksOK'
    BY <1>28 DEF TypeInv, LinksOK, TunerDies
  <2>2. FlagsOK'
    BY <1>28 DEF TypeInv, FlagsOK, TunerDies, ServiceStates
  <2>3. HistoryOK'
    BY <1>28, FaultBounded DEF TypeInv, HistoryOK, TunerDies
  <2>4. HeldOK'
    BY <1>28, SameNames, EmptySeq, PrefixOfSeq DEF TypeInv, HeldOK, TunerDies
  <2> QED
    BY <1>28, TypeFrame, <2>1, <2>2, <2>3, <2>4 DEF TypeInv, TunerDies
<1>29. ASSUME NEW d \in Tuners, Detach(d) PROVE TypeInv'
  <2>1. LinksOK'
    BY <1>29 DEF TypeInv, LinksOK, Detach
  <2> QED
    BY <1>29, TypeFrame, <2>1 DEF TypeInv, Detach
<1>30. ASSUME NEW d \in Tuners, Release(d) PROVE TypeInv'
  <2>1. LinksOK'
    BY <1>30 DEF TypeInv, LinksOK, Release
  <2>2. HistoryOK'
    BY <1>30, FaultBounded DEF TypeInv, HistoryOK, Release
  <2> QED
    BY <1>30, TypeFrame, <2>1, <2>2 DEF TypeInv, Release
<1>31. ASSUME NEW d \in Tuners, NEW outcome \in Finished, NEW drifted \in BOOLEAN, Finish(d, outcome, drifted) PROVE TypeInv'
  <2>1. HeldOK'
    <3>1. work[d] \in LiveJobs
      BY <1>31, NamesAssumption DEF TypeInv, HeldOK, Finish
    <3>2. reports' \in [Tuners -> Seq(Reports)]
      BY <1>31, <3>1, AddedReport DEF TypeInv, Finish
    <3>3. work' \in [Tuners -> LiveJobs \cup {NoJob, Dead}]
      BY <1>31 DEF TypeInv, HeldOK, Finish
    <3> QED
      BY <1>31, <3>2, <3>3, SameNames DEF TypeInv, HeldOK, Finish
  <2> QED
    BY <1>31, TypeFrame, <2>1 DEF TypeInv, Finish
<1>32. ASSUME NEW d \in Tuners, NEW s \in Sessions, Start(d, s) PROVE TypeInv'
  <2>1. DispatchersOK'
    <3>1. CASE UNCHANGED dpc
      BY <1>32, <3>1 DEF TypeInv, DispatchersOK, Start
    <3>2. CASE Free(s) /\ dpc' = [dpc EXCEPT ![s] = "top"]
      BY <1>32, <3>2 DEF TypeInv, DispatchersOK, Start, Free
    <3> QED
      BY <1>32, <3>1, <3>2 DEF Start
  <2>2. ListenersOK'
    <3>1. CASE UNCHANGED lpc
      BY <1>32, <3>1 DEF TypeInv, ListenersOK, Start
    <3>2. CASE Free(s) /\ lpc' = [lpc EXCEPT ![s] = "recv"]
      BY <1>32, <3>2 DEF TypeInv, ListenersOK, Start, Free
    <3> QED
      BY <1>32, <3>1, <3>2 DEF Start
  <2>3. LinksOK'
    BY <1>32 DEF TypeInv, LinksOK, Start
  <2>4. FlagsOK'
    BY <1>32 DEF TypeInv, FlagsOK, Start
  <2>5. HistoryOK'
    BY <1>32, FaultBounded DEF TypeInv, HistoryOK, Start
  <2>6. HeldOK'
    <3>1. <<Report("failed", NoJob, FALSE)>> \in Seq(Reports)
      <4>1. Report("failed", NoJob, FALSE) \in Reports
        BY DEF Report, Reports, Finished
      <4> QED
        BY <4>1, Singleton
    <3>2. reports' \in [Tuners -> Seq(Reports)] /\ work' \in [Tuners -> LiveJobs \cup {NoJob, Dead}]
      <4>1. CASE UNCHANGED <<work, reports>>
        BY <4>1 DEF TypeInv, HeldOK
      <4>2. CASE /\ work' = [work EXCEPT ![d] = Dead]
                 /\ reports' = [reports EXCEPT ![d] = <<Report("failed", NoJob, FALSE)>>]
        BY <3>1, <4>2 DEF TypeInv, HeldOK
      <4> QED
        BY <1>32, <4>1, <4>2 DEF Start
    <3> QED
      BY <1>32, <3>2, SameNames DEF TypeInv, HeldOK, Start
  <2>7. KnownOK'
    BY <1>32 DEF TypeInv, KnownOK, Start, DispatchersOK, Free
  <2> QED
    BY <1>32, TypeFrame, <2>1, <2>2, <2>3, <2>4, <2>5, <2>6, <2>7 DEF TypeInv, Start
<1>33. CASE ServerCrash
  <2>1. DispatchersOK'
    BY <1>33 DEF TypeInv, DispatchersOK, ServerCrash
  <2>2. ListenersOK'
    BY <1>33 DEF TypeInv, ListenersOK, ServerCrash
  <2>3. LinksOK'
    BY <1>33 DEF TypeInv, LinksOK, ServerCrash
  <2>4. HistoryOK'
    <3>1. cut' \subseteq Tuners
      BY <1>33, CutTuners DEF TypeInv, ServerCrash
    <3>2. faults' \in 0..MaxFaults
      BY <1>33, FaultBounded DEF TypeInv, ServerCrash
    <3> QED
      BY <1>33, <3>1, <3>2 DEF TypeInv, HistoryOK, ServerCrash
  <2>5. HeldOK'
    <3>1. out' \in [Tuners -> Seq(Events)]
      BY <1>33, LeftEvents DEF TypeInv, ServerCrash
    <3>2. down' \in [Sessions -> Seq(Orders)]
      BY <1>33, EmptySeq DEF ServerCrash
    <3> QED
      BY <1>33, <3>1, <3>2, SameNames DEF TypeInv, HeldOK, ServerCrash
  <2>6. KnownOK'
    BY <1>33 DEF TypeInv, KnownOK, ServerCrash
  <2> QED
    BY <1>33, TypeFrame, <2>1, <2>2, <2>3, <2>4, <2>5, <2>6 DEF TypeInv, ServerCrash
<1>36. CASE UNCHANGED vars
  BY <1>36, TypeFrame DEF TypeInv, vars
<1> QED
  BY <1>1, <1>2, <1>3, <1>4, <1>5, <1>6, <1>7, <1>8, <1>9, <1>10, <1>11, <1>12, <1>13,
     <1>14, <1>15, <1>16, <1>17, <1>18, <1>19, <1>20, <1>21, <1>22, <1>23, <1>24, <1>25,
     <1>26, <1>27, <1>28, <1>29, <1>30, <1>31, <1>32, <1>33, <1>34, <1>35, <1>36 DEF Next

LEMMA TypeOfInv == TypeInv => TypeOK
<1> SUFFICES ASSUME TypeInv PROVE TypeOK
  OBVIOUS
<1>1. WiresOK
  <2> DEFINE Down == [kind : ServiceStates \cup {"calibrate"}, job : RequestJobs \cup {NoJob}]
  <2>1. Orders \subseteq Down
    BY LiveNames DEF Orders
  <2> HIDE DEF Down
  <2>2. \A s \in Sessions : down[s] \in Seq(Down)
    BY <2>1, SeqMonotonic DEF TypeInv, HeldOK
  <2>3. down \in [Sessions -> Seq(Down)]
    BY <2>2 DEF TypeInv, HeldOK
  <2> QED
    BY <2>3 DEF TypeInv, LinksOK, WiresOK, Down
<1>2. TunersOK
  <2>1. \A d \in Tuners : jobs[d] \in Seq(Jobs)
    BY LiveNames, SeqMonotonic DEF TypeInv, HeldOK
  <2>2. Reports \subseteq [kind : Finished \cup {"plan"}, job : JobOrNone, drifted : BOOLEAN]
    BY LiveNames DEF Reports, JobOrNone
  <2>3. \A d \in Tuners : reports[d] \in
          Seq([kind : Finished \cup {"plan"}, job : JobOrNone, drifted : BOOLEAN])
    BY <2>2, SeqMonotonic DEF TypeInv, HeldOK
  <2>4. Events \subseteq [kind : Finished \cup {"queued", "refused"}, job : JobOrNone]
    BY LiveNames DEF Events, Outcomes, JobOrNone
  <2>5. \A d \in Tuners : out[d] \in Seq([kind : Finished \cup {"queued", "refused"}, job : JobOrNone])
    BY <2>4, SeqMonotonic DEF TypeInv, HeldOK
  <2>6. receiving \in [Tuners -> RequestJobs \cup {NoJob}] /\ work \in [Tuners -> Jobs \cup {NoJob, Dead}]
    BY LiveNames DEF TypeInv, HeldOK
  <2> QED
    BY <2>1, <2>3, <2>5, <2>6 DEF TypeInv, FlagsOK, HeldOK, TunersOK
<1> QED
  BY <1>1, <1>2 DEF TypeInv, TypeOK

\* Rows, goroutines, threads, queues and sockets have their types: a dispatcher holds a
\* request, and a listener a row to create, exactly while it works on it.
THEOREM TypeCorrect == Spec => []TypeOK
  BY TypeInit, TypeStep, TypeOfInv, PTL DEF Spec

-----------------------------------------------------------------------------
(* The order of first sends. *)

\* Requests are queued in order, and a request that a dispatcher holds is older than any
\* of its tuner that was never sent.
QueueInv ==
  /\ OldestFirst
  /\ \A p, r \in Requests : p < r /\ request[r] # "absent" => request[p] # "absent"
  /\ \A s \in Sessions : ditem[s] # NoJob =>
       \A p \in Requests :
         p < ditem[s].of /\ RequestTuner[p] = SessionTuner[s] => sent[p] > 0

LEMMA QueueInit == Init => QueueInv
  BY DEF Init, QueueInv, OldestFirst

LEMMA QueueStep == TypeInv /\ QueueInv /\ [Next]_vars => QueueInv'
<1> SUFFICES ASSUME TypeInv, QueueInv, [Next]_vars PROVE QueueInv'
  OBVIOUS
<1>a. CASE UNCHANGED <<request, sent, ditem>>
  BY <1>a DEF QueueInv, OldestFirst
<1>b. CASE /\ \A r \in Requests : request'[r] = "absent" <=> request[r] = "absent"
           /\ UNCHANGED sent
           /\ \A s \in Sessions : ditem'[s] \in {ditem[s], NoJob}
  BY <1>b DEF QueueInv, OldestFirst
<1>1. ASSUME NEW r \in Requests, QueueRequest(r) PROVE QueueInv'
  <2>1. \A p, q \in Requests : p < q /\ request'[q] # "absent" => request'[p] # "absent"
    <3> SUFFICES ASSUME NEW p \in Requests, NEW q \in Requests, p < q, request'[q] # "absent"
                 PROVE  request'[p] # "absent"
      OBVIOUS
    <3>1. \A o \in Requests : o < r => request[o] # "absent"
      BY <1>1 DEF QueueRequest
    <3>2. \A o \in Requests : request[o] # "absent" \/ o = r => request'[o] # "absent"
      BY <1>1 DEF QueueRequest, TypeInv, RowsOK
    <3>3. request[q] # "absent" \/ q = r
      BY <1>1 DEF QueueRequest, TypeInv, RowsOK
    <3> QED
      BY <3>1, <3>2, <3>3 DEF QueueInv
  <2>2. UNCHANGED <<sent, ditem>>
    BY <1>1 DEF QueueRequest, dispVars, histVars
  <2> QED
    BY <2>1, <2>2 DEF QueueInv, OldestFirst
<1>2. ASSUME NEW r \in Requests, CloseRequest(r) PROVE QueueInv'
  BY <1>2, <1>b DEF CloseRequest, dispVars, histVars, TypeInv, RowsOK
<1>3. ASSUME NEW s \in Sessions, MarkRunning(s) PROVE QueueInv'
  <2>1. ditem[s] # NoJob /\ request[ditem[s].of] # "absent" /\ ditem[s].of \in Requests
    BY <1>3, HeldRequest DEF MarkRunning, TypeInv, KnownOK, DispatchersOK
  <2>2. \A r \in Requests : request'[r] = "absent" <=> request[r] = "absent"
    BY <1>3, <2>1 DEF MarkRunning, TypeInv, RowsOK
  <2>3. UNCHANGED sent /\ \A t \in Sessions : ditem'[t] \in {ditem[t], NoJob}
    BY <1>3 DEF MarkRunning, histVars, TypeInv, DispatchersOK
  <2> QED
    BY <2>2, <2>3, <1>b
<1>4. ASSUME NEW s \in Sessions, ReceiveResult(s) PROVE QueueInv'
  <2>1. UNCHANGED <<sent, ditem>>
    BY <1>4 DEF ReceiveResult, dispVars, histVars
  <2>2. CASE Arrived(s).job \in RequestJobs
    <3>1. Arrived(s).job.of \in Requests /\ request[Arrived(s).job.of] # "absent"
      BY <1>4, <2>2, TakenEvent, LiveNames, RequestNames DEF TypeInv, KnownOK, ReceiveResult, LiveJobs
    <3>2. request' = [request EXCEPT ![Arrived(s).job.of] = Arrived(s).kind]
          /\ Arrived(s).kind \in Finished
      BY <1>4, <2>2 DEF ReceiveResult
    <3>3. \A r \in Requests : request'[r] = "absent" <=> request[r] = "absent"
      BY <3>1, <3>2 DEF TypeInv, RowsOK, Finished
    <3> QED
      BY <2>1, <3>3, <1>b
  <2>3. CASE Arrived(s).job \notin RequestJobs
    BY <1>4, <2>1, <2>3, <1>a DEF ReceiveResult
  <2> QED
    BY <2>2, <2>3
<1>5. ASSUME NEW s \in Sessions, NEW r \in Requests, Offer(s, r) PROVE QueueInv'
  <2>1. r \in Pending(SessionTuner[s]) /\ \A p \in Pending(SessionTuner[s]) : r <= p
    BY <1>5 DEF Offer, NextRequests
  <2>2. \A p \in Requests : p < r /\ RequestTuner[p] = SessionTuner[s] => sent[p] > 0
    <3> SUFFICES ASSUME NEW p \in Requests, p < r, RequestTuner[p] = SessionTuner[s]
                 PROVE  sent[p] > 0
      OBVIOUS
    <3>1. request[r] = "pending"
      BY <2>1 DEF Pending
    <3>2. request[p] # "absent"
      BY <3>1 DEF QueueInv
    <3>3. request[p] # "pending"
      BY <2>1, CalibrationAssumption DEF Pending
    <3>4. request[p] \in {"running"} \cup Finished
      BY <3>2, <3>3 DEF TypeInv, RowsOK
    <3> QED
      BY <3>4 DEF TypeInv, KnownOK
  <2>3. ditem' = [ditem EXCEPT ![s] = Asked(r)] /\ UNCHANGED <<request, sent>>
    BY <1>5 DEF Offer, rowVars, histVars
  <2>4. ditem'[s].of = r /\ \A t \in Sessions \ {s} : ditem'[t] = ditem[t]
    BY <2>3, RequestNames DEF TypeInv, DispatchersOK
  <2> QED
    BY <2>2, <2>3, <2>4 DEF QueueInv, OldestFirst
<1>6. ASSUME NEW s \in Sessions, SendRequest(s) PROVE QueueInv'
  <2>1. ditem[s] # NoJob /\ ditem[s].of \in Requests /\ RequestTuner[ditem[s].of] = SessionTuner[s]
    BY <1>6, HeldRequest DEF SendRequest, TypeInv, DispatchersOK, KnownOK
  <2>2. /\ \A q \in Requests : sent[q] > 0 => sent'[q] > 0
        /\ \A q \in Requests \ {ditem[s].of} : sent'[q] = sent[q]
    BY <1>6, <2>1, SendCounted DEF TypeInv, SendRequest
  <2>3. UNCHANGED <<request, ditem>>
    BY <1>6 DEF SendRequest, rowVars
  <2>4. OldestFirst'
    <3> SUFFICES ASSUME NEW p \in Requests, NEW r \in Requests, p < r,
                        RequestTuner[p] = RequestTuner[r], sent'[r] > 0
                 PROVE  sent'[p] > 0
      BY DEF OldestFirst
    <3>1. CASE r = ditem[s].of
      BY <2>1, <2>2, <3>1 DEF QueueInv
    <3>2. CASE r # ditem[s].of
      BY <2>2, <3>2 DEF QueueInv, OldestFirst
    <3> QED
      BY <3>1, <3>2
  <2> QED
    BY <2>2, <2>3, <2>4 DEF QueueInv
<1>7. ASSUME NEW s \in Sessions, SendFails(s) PROVE QueueInv'
  BY <1>7, <1>b DEF SendFails, rowVars, histVars, TypeInv, DispatchersOK
<1>8. CASE ServerCrash
  BY <1>8, <1>b DEF ServerCrash, rowVars
<1>9. ASSUME NEW s \in Sessions,
             \/ AssertState(s) \/ LookForRunning(s) \/ NothingToOffer(s) \/ DispatcherReturns(s)
             \/ ReceiveQueued(s) \/ CreateRow(s) \/ ReceiveRefusal(s) \/ DropEvent(s)
             \/ Hear(s) \/ Consider(s) \/ CloseSockets(s)
      PROVE  UNCHANGED <<request, sent, ditem>>
  BY <1>9 DEF AssertState, LookForRunning, NothingToOffer, DispatcherReturns, ReceiveQueued,
     CreateRow, ReceiveRefusal, DropEvent, Hear, Consider, CloseSockets, rowVars, dispVars, histVars
<1>10. ASSUME NEW d \in Tuners,
              \/ Accept(d) \/ Tick(d) \/ QueueDrift(d) \/ PumpPlan(d) \/ PumpResult(d)
              \/ PumpFollowUp(d) \/ QueueUnannounced(d) \/ ReportFails(d)
              \/ Begin(d) \/ Attach(d) \/ TunerDies(d) \/ Detach(d) \/ Release(d)
       PROVE  UNCHANGED <<request, sent, ditem>>
  BY <1>10 DEF Accept, Tick, QueueDrift, PumpPlan, PumpResult, PumpFollowUp,
     QueueUnannounced, ReportFails, Begin, Attach,
     TunerDies, Detach, Release, rowVars, dispVars, histVars
<1>11. ASSUME NEW d \in Tuners, NEW outcome \in Finished, NEW drifted \in BOOLEAN,
              Finish(d, outcome, drifted)
       PROVE  UNCHANGED <<request, sent, ditem>>
  BY <1>11 DEF Finish, rowVars, dispVars, histVars
<1>12. ASSUME NEW d \in Tuners, NEW s \in Sessions, Start(d, s)
       PROVE  UNCHANGED <<request, sent, ditem>>
  BY <1>12 DEF Start, rowVars, histVars
<1>13. ASSUME NEW j \in SelfJobs, NEW d \in Tuners, CloseSelfRow(j, d)
       PROVE  UNCHANGED <<request, sent, ditem>>
  BY <1>13 DEF CloseSelfRow, dispVars, histVars
<1>14. ASSUME NEW q \in Chips, NEW state \in ServiceStates, SetService(q, state)
       PROVE  UNCHANGED <<request, sent, ditem>>
  BY <1>14 DEF SetService, rowVars, dispVars
<1>15. CASE UNCHANGED vars
  BY <1>15, <1>a DEF vars, rowVars, dispVars, histVars
<1> QED
  BY <1>a, <1>1, <1>2, <1>3, <1>4, <1>5, <1>6, <1>7, <1>8, <1>9, <1>10, <1>11, <1>12, <1>13,
     <1>14, <1>15 DEF Next

\* The requests of a tuner are first sent in the order they were queued, for any number
\* of requests, sessions and faults.
THEOREM OldestFirstHolds == Spec => []OldestFirst
<1>1. QueueInv => OldestFirst
  BY DEF QueueInv
<1> QED
  BY <1>1, TypeInit, TypeStep, QueueInit, QueueStep, PTL DEF Spec

-----------------------------------------------------------------------------
(* What is in a channel after an end of it moved. *)

LEMMA RangeAppend ==
  ASSUME NEW S, NEW q \in Seq(S), NEW e
  PROVE  Range(Append(q, e)) = Range(q) \cup {e}
<1> DEFINE T == S \cup {e}
<1>1. q \in Seq(T) /\ e \in T
  BY SeqMonotonic
<1> HIDE DEF T
<1>2. /\ Append(q, e) \in Seq(T) /\ Len(Append(q, e)) = Len(q) + 1 /\ Len(q) \in Nat
      /\ \A i \in 1..Len(q) : Append(q, e)[i] = q[i]
      /\ Append(q, e)[Len(q) + 1] = e
  BY <1>1, AppendProperties, LenProperties
<1>3. DOMAIN q = 1..Len(q) /\ DOMAIN Append(q, e) = 1..(Len(q) + 1)
  BY <1>1, <1>2, LenProperties
<1> QED
  BY <1>2, <1>3 DEF Range

LEMMA RangeTail ==
  ASSUME NEW S, NEW q \in Seq(S), q # <<>>
  PROVE  Range(Tail(q)) \subseteq Range(q) /\ Head(q) \in Range(q)
<1>1. /\ Tail(q) \in Seq(S) /\ Len(Tail(q)) = Len(q) - 1 /\ Len(q) \in Nat \ {0}
      /\ \A i \in 1..Len(Tail(q)) : Tail(q)[i] = q[i + 1]
  BY HeadTailProperties, LenProperties, EmptySeq
<1>2. DOMAIN q = 1..Len(q) /\ DOMAIN Tail(q) = 1..(Len(q) - 1)
  BY <1>1, LenProperties
<1>3. Head(q) = q[1]
  OBVIOUS
<1> QED
  BY <1>1, <1>2, <1>3 DEF Range

LEMMA RangeSubSeq ==
  ASSUME NEW S, NEW q \in Seq(S), NEW m \in 1..(Len(q) + 1), NEW n \in 0..Len(q)
  PROVE  Range(SubSeq(q, m, n)) \subseteq Range(q)
<1>1. Len(q) \in Nat /\ DOMAIN q = 1..Len(q) /\ \A i \in m..n : q[i] \in S
  BY LenProperties, ElementOfSeq
<1>2. /\ SubSeq(q, m, n) \in Seq(S)
      /\ Len(SubSeq(q, m, n)) = IF m <= n THEN n - m + 1 ELSE 0
      /\ \A i \in 1..(n - m + 1) : SubSeq(q, m, n)[i] = q[m + i - 1]
  BY <1>1, SubSeqProperties
<1>3. DOMAIN SubSeq(q, m, n) = 1..Len(SubSeq(q, m, n))
  BY <1>2, LenProperties
<1> QED
  BY <1>1, <1>2, <1>3 DEF Range

LEMMA RangeSingleton == ASSUME NEW x PROVE Range(<<x>>) = {x}
  BY DEF Range

LEMMA RangeEmpty == Range(<<>>) = {}
  BY DEF Range

\* What a step leaves of the events of a tuner, but for those it emits.
LEMMA RangeLeft ==
  ASSUME HeldOK, NEW D \in SUBSET Tuners, NEW handled, LoseEvents(D, handled), NEW d \in Tuners
  PROVE  Range(out'[d]) \subseteq Range(out[d])
<1>1. PICK left \in [D -> UNION {Suffixes(out[x]) : x \in D}] :
        /\ \A x \in D : left[x] \in Suffixes(out[x])
        /\ out' = [x \in Tuners |-> IF x \notin D THEN out[x]
                                    ELSE IF alive[x] THEN left[x] ELSE <<>>]
  BY DEF LoseEvents
<1>2. out[d] \in Seq(Events) /\ Len(out[d]) \in Nat
  BY LenProperties DEF HeldOK
<1>3. ASSUME d \in D PROVE Range(left[d]) \subseteq Range(out[d])
  <2>1. PICK k \in 1..(Len(out[d]) + 1) : left[d] = SubSeq(out[d], k, Len(out[d]))
    BY <1>1, <1>3, Zenon DEF Suffixes
  <2> QED
    BY <1>2, <2>1, RangeSubSeq
<1> QED
  BY <1>1, <1>3, RangeEmpty

LEMMA RangeTaken ==
  ASSUME HeldOK, NEW s \in Sessions, Receiving(s), Taken(s)
  PROVE  /\ Arrived(s) \in Range(out[SessionTuner[s]])
         /\ \A d \in Tuners : Range(out'[d]) \subseteq Range(out[d])
<1>1. SessionTuner[s] \in Tuners /\ out[SessionTuner[s]] \in Seq(Events) /\ out[SessionTuner[s]] # <<>>
  BY CalibrationAssumption DEF Receiving, HeldOK
<1>2. Arrived(s) \in Range(out[SessionTuner[s]])
      /\ Range(Tail(out[SessionTuner[s]])) \subseteq Range(out[SessionTuner[s]])
  BY <1>1, RangeTail DEF Arrived
<1> QED
  BY <1>1, <1>2 DEF Taken, HeldOK

LEMMA RangeEmitted ==
  ASSUME HeldOK, NEW d \in Tuners, NEW kind, NEW job, Emit(d, kind, job), NEW x \in Tuners
  PROVE  \A m \in Range(out'[x]) : m \in Range(out[x]) \/ (x = d /\ m.kind = kind /\ m.job = job)
<1> DEFINE e == [kind |-> kind, job |-> job]
<1>1. out[d] \in Seq(Events)
  BY DEF HeldOK
<1>2. Range(Append(out[d], e)) = Range(out[d]) \cup {e}
  BY <1>1, RangeAppend
<1>3. e.kind = kind /\ e.job = job
  OBVIOUS
<1> HIDE DEF e
<1>4. out'[x] = IF x = d THEN Append(out[d], e) ELSE out[x]
  BY DEF Emit, HeldOK, e
<1> QED
  BY <1>2, <1>3, <1>4

-----------------------------------------------------------------------------
(* A request that reads `done` was calibrated. *)

\* Whatever a worker runs, and whatever is reported as ended, began.
RanInv ==
  /\ \A d \in Tuners : work[d] \in Jobs => work[d] \in ran
  /\ \A d \in Tuners : \A m \in Range(reports[d]) \cup Range(out[d]) :
       m.kind \in Finished => m.job \in ran \cup {NoJob}
  /\ DoneRequestRan

LEMMA RanInit == Init => RanInv
  BY RangeEmpty, NamesAssumption DEF Init, RanInv, DoneRequestRan

\* Nothing new is reported, run or marked done.
LEMMA RanFrame ==
  ASSUME RanInv, ran \subseteq ran',
         \A d \in Tuners : /\ work'[d] \in {work[d], NoJob, Dead}
                           /\ Range(reports'[d]) \subseteq Range(reports[d])
                           /\ Range(out'[d]) \subseteq Range(out[d]),
         \A r \in Requests : request'[r] = "done" => request[r] = "done"
  PROVE  RanInv'
  BY NamesAssumption DEF RanInv, DoneRequestRan

LEMMA RanStep == TypeInv /\ RanInv /\ [Next]_vars => RanInv'
<1> SUFFICES ASSUME TypeInv, RanInv, [Next]_vars PROVE RanInv'
  OBVIOUS
<1> USE DEF TypeInv
<1>0. \A d \in Tuners : /\ jobs[d] \in Seq(LiveJobs) /\ reports[d] \in Seq(Reports)
                        /\ out[d] \in Seq(Events)
  BY DEF HeldOK
<1>a. CASE UNCHANGED <<request, work, reports, out, ran>>
  BY <1>a, RanFrame
<1>1. ASSUME NEW r \in Requests, QueueRequest(r) \/ CloseRequest(r) PROVE RanInv'
  BY <1>1, RanFrame DEF QueueRequest, CloseRequest, tunerVars, workVars, histVars, RowsOK
<1>2. ASSUME NEW s \in Sessions, MarkRunning(s) PROVE RanInv'
  BY <1>2, RanFrame DEF MarkRunning, tunerVars, workVars, histVars, RowsOK
<1>3. ASSUME NEW s \in Sessions, ReceiveResult(s) PROVE RanInv'
  <2>1. /\ Arrived(s) \in Range(out[SessionTuner[s]]) /\ SessionTuner[s] \in Tuners
        /\ \A d \in Tuners : Range(out'[d]) \subseteq Range(out[d])
    BY <1>3, RangeTaken, CalibrationAssumption DEF ReceiveResult
  <2>2. Arrived(s).job \in ran \cup {NoJob}
    BY <1>3, <2>1 DEF ReceiveResult, RanInv
  <2>3. \A r \in Requests : request'[r] = "done" => Asked(r) \in ran
    <3>1. CASE Arrived(s).job \in RequestJobs
      <4>1. Arrived(s).job.of \in Requests /\ Asked(Arrived(s).job.of) \in ran
        BY <2>2, <3>1, RequestNames
      <4>2. request' = [request EXCEPT ![Arrived(s).job.of] = Arrived(s).kind]
        BY <1>3, <3>1 DEF ReceiveResult
      <4> QED
        BY <4>1, <4>2 DEF RowsOK, RanInv, DoneRequestRan
    <3>2. CASE Arrived(s).job \notin RequestJobs
      BY <1>3, <3>2 DEF ReceiveResult, RanInv, DoneRequestRan
    <3> QED
      BY <3>1, <3>2
  <2>4. UNCHANGED <<work, reports, ran>>
    BY <1>3 DEF ReceiveResult, workVars, histVars
  <2> QED
    BY <2>1, <2>3, <2>4 DEF RanInv, DoneRequestRan
<1>4. ASSUME NEW s \in Sessions, ReceiveQueued(s) \/ ReceiveRefusal(s) \/ DropEvent(s) PROVE RanInv'
  <2>1. \A d \in Tuners : Range(out'[d]) \subseteq Range(out[d])
    BY <1>4, RangeTaken DEF ReceiveQueued, ReceiveRefusal, DropEvent
  <2>2. UNCHANGED <<request, work, reports, ran>>
    BY <1>4 DEF ReceiveQueued, ReceiveRefusal, DropEvent, rowVars, workVars, histVars
  <2> QED
    BY <2>1, <2>2, RanFrame
<1>5. ASSUME NEW s \in Sessions, Consider(s) PROVE RanInv'
  <2>1. UNCHANGED <<request, work, reports, ran>>
    BY <1>5 DEF Consider, rowVars, workVars
  <2>2. CASE UNCHANGED out
    BY <2>1, <2>2, <1>a
  <2>3. CASE Emit(SessionTuner[s], "refused", Head(down[s]).job)
    <3>1. \A d \in Tuners : \A m \in Range(out'[d]) : m \in Range(out[d]) \/ m.kind = "refused"
      BY <2>3, RangeEmitted, CalibrationAssumption
    <3> QED
      BY <2>1, <3>1 DEF RanInv, DoneRequestRan, Finished
  <2> QED
    BY <1>5, <2>2, <2>3 DEF Consider
<1>6. ASSUME NEW s \in Sessions, CloseSockets(s) PROVE RanInv'
  <2>1. \A d \in Tuners : Range(out'[d]) \subseteq Range(out[d])
    BY <1>6, RangeLeft, CalibrationAssumption DEF CloseSockets
  <2> QED
    BY <1>6, <2>1, RanFrame DEF CloseSockets, rowVars, workVars
<1>7. CASE ServerCrash
  <2>1. \A d \in Tuners : Range(out'[d]) \subseteq Range(out[d])
    BY <1>7, RangeLeft DEF ServerCrash
  <2> QED
    BY <1>7, <2>1, RanFrame DEF ServerCrash, rowVars, workVars
<1>8. ASSUME NEW d \in Tuners, QueueDrift(d) \/ PumpFollowUp(d) PROVE RanInv'
  <2>1. PICK job : Emit(d, "queued", job)
    BY <1>8 DEF QueueDrift, PumpFollowUp, QueueOwn
  <2>2. \A x \in Tuners : \A m \in Range(out'[x]) : m \in Range(out[x]) \/ m.kind = "queued"
    BY <2>1, RangeEmitted
  <2>3. UNCHANGED <<request, work, reports, ran>>
    BY <1>8 DEF QueueDrift, PumpFollowUp, rowVars, histVars
  <2> QED
    BY <2>2, <2>3 DEF RanInv, DoneRequestRan, Finished
<1>9. ASSUME NEW d \in Tuners, PumpPlan(d) \/ PumpResult(d) PROVE RanInv'
  <2>1. reports[d] # <<>> /\ reports' = [reports EXCEPT ![d] = Tail(@)]
    BY <1>9 DEF PumpPlan, PumpResult
  <2>2. Head(reports[d]) \in Range(reports[d])
        /\ \A x \in Tuners : Range(reports'[x]) \subseteq Range(reports[x])
    BY <1>0, <2>1, RangeTail DEF HeldOK
  <2>3. PICK kind : /\ Emit(d, kind, Head(reports[d]).job)
                    /\ kind = "queued" \/ kind = Head(reports[d]).kind
    BY <1>9 DEF PumpPlan, PumpResult
  <2>4. \A x \in Tuners : \A m \in Range(out'[x]) :
          m \in Range(out[x]) \/ (m.kind = kind /\ m.job = Head(reports[d]).job)
    BY <2>3, RangeEmitted
  <2>5. kind \in Finished => Head(reports[d]).job \in ran \cup {NoJob}
    BY <2>2, <2>3 DEF RanInv, Finished
  <2>6. UNCHANGED <<request, work, ran>>
    BY <1>9 DEF PumpPlan, PumpResult, rowVars, histVars
  <2> QED
    BY <2>2, <2>4, <2>5, <2>6 DEF RanInv, DoneRequestRan
<1>19. ASSUME NEW d \in Tuners, QueueUnannounced(d)
       PROVE  UNCHANGED <<request, work, reports, out, ran>>
  BY <1>19 DEF QueueUnannounced, rowVars
<1>20. ASSUME NEW d \in Tuners, ReportFails(d) PROVE RanInv'
  <2>1. reports[d] # <<>> /\ reports' = [reports EXCEPT ![d] = Tail(@)] /\ UNCHANGED <<request, work, ran>>
    BY <1>20 DEF ReportFails, rowVars
  <2>2. Head(reports[d]) \in Range(reports[d])
        /\ \A x \in Tuners : Range(reports'[x]) \subseteq Range(reports[x])
    BY <1>0, <2>1, RangeTail DEF HeldOK
  <2>3. CASE UNCHANGED out
    BY <2>1, <2>2, <2>3 DEF RanInv, DoneRequestRan
  <2>4. CASE Emit(d, "failed", Head(reports[d]).job) /\ Head(reports[d]).kind \in Finished
    <3>1. \A x \in Tuners : \A m \in Range(out'[x]) :
            m \in Range(out[x]) \/ (m.kind = "failed" /\ m.job = Head(reports[d]).job)
      BY <2>4, RangeEmitted
    <3>2. Head(reports[d]).job \in ran \cup {NoJob}
      BY <2>2, <2>4 DEF RanInv
    <3> QED
      BY <2>1, <2>2, <3>1, <3>2 DEF RanInv, DoneRequestRan
  <2> QED
    BY <1>20, <2>3, <2>4 DEF ReportFails
<1>10. ASSUME NEW d \in Tuners, Begin(d) PROVE RanInv'
  <2> DEFINE job == Head(jobs[d])
             plan == Report("plan", job, FALSE)
  <2>1. /\ ran' = ran \cup {job} /\ work' = [work EXCEPT ![d] = job] /\ UNCHANGED <<request, out>>
        /\ reports' \in {reports, [reports EXCEPT ![d] = Append(@, plan)]}
    BY <1>10 DEF Begin, rowVars
  <2>2. plan.kind = "plan"
    BY DEF Report
  <2> HIDE DEF plan, job
  <2>3. \A x \in Tuners : \A m \in Range(reports'[x]) : m \in Range(reports[x]) \/ m.kind = "plan"
    <3>1. Range(Append(reports[d], plan)) = Range(reports[d]) \cup {plan}
      BY <1>0, RangeAppend
    <3>2. reports' = reports \/ reports' = [reports EXCEPT ![d] = Append(reports[d], plan)]
      BY <2>1
    <3>3. \A x \in Tuners : reports'[x] \in {reports[x], Append(reports[d], plan)}
                            /\ (x # d => reports'[x] = reports[x])
      BY <3>2 DEF HeldOK
    <3> QED
      BY <2>2, <3>1, <3>3
  <2>4. \A x \in Tuners : work'[x] \in {work[x], job}
    BY <2>1 DEF HeldOK
  <2> QED
    BY <2>1, <2>3, <2>4 DEF RanInv, DoneRequestRan, Finished
<1>11. ASSUME NEW d \in Tuners, NEW outcome \in Finished, NEW drifted \in BOOLEAN,
              Finish(d, outcome, drifted)
       PROVE  RanInv'
  <2> DEFINE report == Report(outcome, work[d], drifted)
  <2>1. /\ reports' = [reports EXCEPT ![d] = Append(@, report)]
        /\ work[d] \in Jobs /\ work' = [work EXCEPT ![d] = NoJob] /\ UNCHANGED <<request, out, ran>>
    BY <1>11 DEF Finish, rowVars, histVars
  <2>2. report.job = work[d]
    BY DEF Report
  <2> HIDE DEF report
  <2>3. \A x \in Tuners : \A m \in Range(reports'[x]) : m \in Range(reports[x]) \/ m.job = work[d]
    <3>1. Range(Append(reports[d], report)) = Range(reports[d]) \cup {report}
      BY <1>0, RangeAppend
    <3> QED
      BY <2>1, <2>2, <3>1 DEF HeldOK
  <2>4. work[d] \in ran /\ \A x \in Tuners : work'[x] \in {work[x], NoJob}
    BY <2>1 DEF HeldOK, RanInv
  <2> QED
    BY <2>1, <2>3, <2>4, NamesAssumption DEF RanInv, DoneRequestRan
<1>12. ASSUME NEW d \in Tuners, TunerDies(d) PROVE RanInv'
  <2>1. \A x \in Tuners : Range(out'[x]) \subseteq Range(out[x])
    <3>1. PICK k \in 0..Len(out[d]) : out' = [out EXCEPT ![d] = SubSeq(@, 1, k)]
      BY <1>12 DEF TunerDies
    <3>2. Range(SubSeq(out[d], 1, k)) \subseteq Range(out[d])
      BY <1>0, RangeSubSeq, LenProperties
    <3> QED
      BY <3>1, <3>2 DEF HeldOK
  <2>2. \A x \in Tuners : Range(reports'[x]) \subseteq Range(reports[x])
    BY <1>12, RangeEmpty DEF TunerDies, HeldOK
  <2>3. \A x \in Tuners : work'[x] \in {work[x], NoJob}
    BY <1>12 DEF TunerDies, HeldOK
  <2> QED
    BY <1>12, <2>1, <2>2, <2>3, RanFrame DEF TunerDies, rowVars, histVars
<1>13. ASSUME NEW d \in Tuners, NEW s \in Sessions, Start(d, s) PROVE RanInv'
  <2>1. UNCHANGED <<request, out, ran>>
    BY <1>13 DEF Start, rowVars, histVars
  <2>2. CASE UNCHANGED <<work, reports>>
    BY <2>1, <2>2, <1>a
  <2>3. CASE /\ work' = [work EXCEPT ![d] = Dead]
             /\ reports' = [reports EXCEPT ![d] = <<Report("failed", NoJob, FALSE)>>]
    <3>1. Range(<<Report("failed", NoJob, FALSE)>>) = {Report("failed", NoJob, FALSE)}
          /\ Report("failed", NoJob, FALSE).job = NoJob
      BY RangeSingleton DEF Report
    <3>2. \A x \in Tuners : \A m \in Range(reports'[x]) : m \in Range(reports[x]) \/ m.job = NoJob
      BY <2>3, <3>1 DEF HeldOK
    <3>3. \A x \in Tuners : work'[x] \in {work[x], Dead}
      BY <2>3 DEF HeldOK
    <3> QED
      BY <2>1, <3>2, <3>3, NamesAssumption DEF RanInv, DoneRequestRan
  <2> QED
    BY <1>13, <2>2, <2>3 DEF Start
<1>14. ASSUME NEW s \in Sessions,
              \/ AssertState(s) \/ LookForRunning(s) \/ NothingToOffer(s) \/ SendRequest(s)
              \/ SendFails(s) \/ DispatcherReturns(s) \/ CreateRow(s) \/ Hear(s)
              \/ \E r \in Requests : Offer(s, r)
       PROVE  UNCHANGED <<request, work, reports, out, ran>>
  BY <1>14 DEF AssertState, LookForRunning, NothingToOffer, SendRequest, SendFails,
     DispatcherReturns, CreateRow, Hear, Offer, rowVars, tunerVars, workVars, histVars
<1>15. ASSUME NEW d \in Tuners, Accept(d) \/ Tick(d) \/ Attach(d) \/ Detach(d) \/ Release(d)
       PROVE  UNCHANGED <<request, work, reports, out, ran>>
  BY <1>15 DEF Accept, Tick, Attach, Detach, Release, rowVars, tunerVars, workVars, histVars
<1>16. ASSUME NEW j \in SelfJobs, NEW d \in Tuners, CloseSelfRow(j, d)
       PROVE  UNCHANGED <<request, work, reports, out, ran>>
  BY <1>16 DEF CloseSelfRow, tunerVars, workVars, histVars
<1>17. ASSUME NEW q \in Chips, NEW state \in ServiceStates, SetService(q, state)
       PROVE  UNCHANGED <<request, work, reports, out, ran>>
  BY <1>17 DEF SetService, rowVars, tunerVars, workVars
<1>18. CASE UNCHANGED vars
  BY <1>18, <1>a DEF vars, rowVars, tunerVars, workVars, histVars
<1> QED
  BY <1>a, <1>1, <1>2, <1>3, <1>4, <1>5, <1>6, <1>7, <1>8, <1>9, <1>10, <1>11, <1>12, <1>13,
     <1>14, <1>15, <1>16, <1>17, <1>18, <1>19, <1>20 DEF Next

\* A request that reads `done` was calibrated: of all that writes its status, only the
\* report of a run closes it so, for any number of requests, tuners and faults.
THEOREM DoneRequestRanHolds == Spec => []DoneRequestRan
<1>1. RanInv => DoneRequestRan
  BY DEF RanInv
<1> QED
  BY <1>1, TypeInit, TypeStep, RanInit, RanStep, PTL DEF Spec

-----------------------------------------------------------------------------
(* A calibration nobody dispatched is announced before it is reported. *)

\* Calibrations of tuner d's own that the server has a row of, or is creating one for.
Known(d) ==
  {j \in SelfJobs : HasRow(j) \/ \E s \in Sessions : SessionTuner[s] = d /\ litem[s] = j}

\* Those that the first k of some events announce ...
AnnouncedIn(q, k) == {j \in SelfJobs : \E i \in 1..k : q[i].kind = "queued" /\ q[i].job = j}

\* ... and those the tuner has queued, runs or has an outcome of.
Owned(d) ==
  {j \in SelfJobs : \/ j \in Range(jobs[d]) \/ work[d] = j
                    \/ \E m \in Range(reports[d]) : m.job = j}

Covered(q, K) ==
  \A i \in 1..Len(q) :
    q[i].kind \in Finished /\ q[i].job \in SelfJobs => q[i].job \in K \cup AnnouncedIn(q, i - 1)

AnnouncedOf(d) ==
  /\ Covered(out[d], Known(d))
  /\ Owned(d) \subseteq Known(d) \cup AnnouncedIn(out[d], Len(out[d]))

\* A tuner that is not there holds nothing.
Quiet ==
  \A d \in Tuners : ~alive[d] =>
    /\ jobs[d] = <<>> /\ work[d] = NoJob /\ reports[d] = <<>>
    /\ pumping[d] = NoJob /\ receiving[d] = NoJob /\ ~ticking[d]

AnnouncedInv == \A d \in Tuners \ cut : AnnouncedOf(d)

LEMMA CoveredAppend ==
  ASSUME NEW S, NEW q \in Seq(S), NEW e \in S, NEW K, NEW L, K \subseteq L, Covered(q, K),
         e.kind \in Finished /\ e.job \in SelfJobs => e.job \in K \cup AnnouncedIn(q, Len(q))
  PROVE  /\ Covered(Append(q, e), L)
         /\ AnnouncedIn(q, Len(q)) \subseteq AnnouncedIn(Append(q, e), Len(Append(q, e)))
         /\ e.kind = "queued" /\ e.job \in SelfJobs
              => e.job \in AnnouncedIn(Append(q, e), Len(Append(q, e)))
<1> DEFINE p == Append(q, e)
<1>1. /\ p \in Seq(S) /\ Len(p) = Len(q) + 1 /\ Len(q) \in Nat
      /\ \A i \in 1..Len(q) : p[i] = q[i]
      /\ p[Len(q) + 1] = e
  BY AppendProperties, LenProperties
<1> HIDE DEF p
<1>2. \A k \in 0..Len(q) : AnnouncedIn(p, k) = AnnouncedIn(q, k)
  BY <1>1 DEF AnnouncedIn
<1>3. Covered(p, L)
  <2> SUFFICES ASSUME NEW i \in 1..Len(p), p[i].kind \in Finished, p[i].job \in SelfJobs
               PROVE  p[i].job \in L \cup AnnouncedIn(p, i - 1)
    BY DEF Covered
  <2>1. CASE i = Len(q) + 1
    BY <1>1, <1>2, <2>1
  <2>2. CASE i \in 1..Len(q)
    BY <1>1, <1>2, <2>2 DEF Covered
  <2> QED
    BY <1>1, <2>1, <2>2
<1>4. AnnouncedIn(q, Len(q)) \subseteq AnnouncedIn(p, Len(p))
  BY <1>1 DEF AnnouncedIn
<1>5. e.kind = "queued" /\ e.job \in SelfJobs => e.job \in AnnouncedIn(p, Len(p))
  BY <1>1 DEF AnnouncedIn
<1> QED
  BY <1>3, <1>4, <1>5 DEF p

LEMMA CoveredTail ==
  ASSUME NEW S, NEW q \in Seq(S), q # <<>>, NEW K, NEW L, K \subseteq L, Covered(q, K),
         Head(q).kind = "queued" /\ Head(q).job \in SelfJobs => Head(q).job \in L
  PROVE  /\ Covered(Tail(q), L)
         /\ AnnouncedIn(q, Len(q)) \subseteq L \cup AnnouncedIn(Tail(q), Len(Tail(q)))
<1> DEFINE p == Tail(q)
<1>1. /\ p \in Seq(S) /\ Len(p) = Len(q) - 1 /\ Len(q) \in Nat \ {0}
      /\ \A i \in 1..Len(p) : p[i] = q[i + 1]
      /\ Head(q) = q[1]
  BY HeadTailProperties, LenProperties, EmptySeq
<1> HIDE DEF p
<1>2. ASSUME NEW k \in 0..Len(p)
      PROVE  AnnouncedIn(q, k + 1) \subseteq L \cup AnnouncedIn(p, k)
  <2> SUFFICES ASSUME NEW j \in SelfJobs, NEW i \in 1..(k + 1), q[i].kind = "queued", q[i].job = j
               PROVE  j \in L \cup AnnouncedIn(p, k)
    BY DEF AnnouncedIn
  <2>1. CASE i = 1
    BY <1>1, <2>1
  <2>2. CASE i # 1
    <3>1. i - 1 \in 1..k /\ i - 1 \in 1..Len(p) /\ p[i - 1] = q[i]
      BY <1>1, <2>2
    <3> QED
      BY <3>1 DEF AnnouncedIn
  <2> QED
    BY <2>1, <2>2
<1>3. Covered(p, L)
  <2> SUFFICES ASSUME NEW i \in 1..Len(p), p[i].kind \in Finished, p[i].job \in SelfJobs
               PROVE  p[i].job \in L \cup AnnouncedIn(p, i - 1)
    BY DEF Covered
  <2>1. i + 1 \in 1..Len(q) /\ p[i] = q[i + 1] /\ (i + 1) - 1 = i
    BY <1>1
  <2>2. p[i].job \in K \cup AnnouncedIn(q, i)
    BY <2>1 DEF Covered
  <2>3. AnnouncedIn(q, i) \subseteq L \cup AnnouncedIn(p, i - 1)
    BY <1>1, <1>2
  <2> QED
    BY <2>2, <2>3
<1>4. AnnouncedIn(q, Len(q)) \subseteq L \cup AnnouncedIn(p, Len(p))
  BY <1>1, <1>2
<1> QED
  BY <1>3, <1>4 DEF p

LEMMA CoveredPrefix ==
  ASSUME NEW S, NEW q \in Seq(S), NEW k \in 0..Len(q), NEW K, NEW L, K \subseteq L, Covered(q, K)
  PROVE  Covered(SubSeq(q, 1, k), L)
<1>1. Len(q) \in Nat /\ \A i \in 1..k : q[i] \in S
  BY LenProperties, ElementOfSeq
<1>2. Len(SubSeq(q, 1, k)) = k /\ \A i \in 1..k : SubSeq(q, 1, k)[i] = q[i]
  BY <1>1, SubSeqProperties
<1> QED
  BY <1>1, <1>2 DEF Covered, AnnouncedIn

LEMMA CoveredEmpty == \A K : Covered(<<>>, K)
  BY DEF Covered

LEMMA AnnouncedInit == Init => Quiet /\ AnnouncedInv
<1> SUFFICES ASSUME Init PROVE Quiet /\ AnnouncedInv
  OBVIOUS
<1>1. Quiet
  BY DEF Init, Quiet
<1>2. ASSUME NEW d \in Tuners PROVE AnnouncedOf(d)
  <2>1. out[d] = <<>> /\ jobs[d] = <<>> /\ work[d] = NoJob /\ reports[d] = <<>>
    BY DEF Init
  <2>2. Owned(d) = {}
    BY <2>1, RangeEmpty, RequestNames DEF Owned
  <2> QED
    BY <2>1, <2>2, CoveredEmpty DEF AnnouncedOf
<1> QED
  BY <1>1, <1>2 DEF AnnouncedInv

LEMMA QuietStep == TypeInv /\ Quiet /\ [Next]_vars => Quiet'
<1> SUFFICES ASSUME TypeInv, Quiet, [Next]_vars PROVE Quiet'
  OBVIOUS
<1> USE CalibrationAssumption DEF Quiet
<1>0. HeldOK /\ FlagsOK
  BY DEF TypeInv
<1>a. CASE UNCHANGED <<alive, jobs, work, reports, pumping, receiving, ticking>>
  BY <1>a
<1>1. ASSUME NEW s \in Sessions, Consider(s) PROVE Quiet'
  <2>1. /\ alive[SessionTuner[s]] /\ UNCHANGED <<alive, jobs, work, reports, pumping, ticking>>
        /\ UNCHANGED receiving
           \/ receiving' = [receiving EXCEPT ![SessionTuner[s]] = Head(down[s]).job]
    BY <1>1 DEF Consider, Served, workVars
  <2> QED
    BY <1>0, <2>1 DEF HeldOK, FlagsOK
<1>2. ASSUME NEW d \in Tuners,
             Accept(d) \/ QueueDrift(d) \/ PumpFollowUp(d) \/ QueueUnannounced(d)
      PROVE  Quiet'
  <2>1. /\ alive[d] /\ UNCHANGED <<alive, work, reports>>
        /\ \A x \in Tuners \ {d} : /\ jobs'[x] = jobs[x] /\ ticking'[x] = ticking[x]
                                   /\ pumping'[x] = pumping[x] /\ receiving'[x] = receiving[x]
    BY <1>0, <1>2 DEF Accept, QueueDrift, PumpFollowUp, QueueUnannounced, QueueOwn, Enqueue,
       HeldOK, FlagsOK
  <2> QED
    BY <2>1
<1>3. ASSUME NEW d \in Tuners, Tick(d) PROVE Quiet'
  BY <1>0, <1>3 DEF Tick, HeldOK, FlagsOK, workVars
<1>4. ASSUME NEW d \in Tuners, PumpPlan(d) \/ PumpResult(d) \/ ReportFails(d) PROVE Quiet'
  <2>1. /\ alive[d] /\ UNCHANGED <<alive, work, jobs, ticking, receiving>>
        /\ \A x \in Tuners \ {d} : reports'[x] = reports[x] /\ pumping'[x] = pumping[x]
    BY <1>0, <1>4 DEF PumpPlan, PumpResult, ReportFails, HeldOK, FlagsOK, threadVars
  <2> QED
    BY <2>1
<1>5. ASSUME NEW d \in Tuners, Begin(d) PROVE Quiet'
  <2>1. /\ alive[d] /\ UNCHANGED <<alive, pumping, ticking, receiving>>
        /\ \A x \in Tuners \ {d} : /\ reports'[x] = reports[x] /\ work'[x] = work[x]
                                   /\ jobs'[x] = jobs[x]
    BY <1>0, <1>5 DEF Begin, HeldOK, FlagsOK, threadVars
  <2> QED
    BY <2>1
<1>6. ASSUME NEW d \in Tuners, NEW outcome \in Finished, NEW drifted \in BOOLEAN,
             Finish(d, outcome, drifted)
      PROVE  Quiet'
  <2>1. /\ alive[d] /\ UNCHANGED <<alive, pumping, ticking, receiving, jobs>>
        /\ \A x \in Tuners \ {d} : reports'[x] = reports[x] /\ work'[x] = work[x]
    BY <1>0, <1>6, NamesAssumption DEF Finish, HeldOK, FlagsOK, threadVars
  <2> QED
    BY <2>1
<1>7. ASSUME NEW d \in Tuners, TunerDies(d) PROVE Quiet'
  BY <1>0, <1>7 DEF TunerDies, HeldOK, FlagsOK
<1>8. ASSUME NEW d \in Tuners, NEW s \in Sessions, Start(d, s) PROVE Quiet'
  <2>1. /\ alive' = [alive EXCEPT ![d] = TRUE] /\ UNCHANGED <<pumping, ticking, receiving, jobs>>
        /\ \A x \in Tuners \ {d} : reports'[x] = reports[x] /\ work'[x] = work[x]
    BY <1>0, <1>8 DEF Start, HeldOK, threadVars
  <2> QED
    BY <1>0, <2>1 DEF FlagsOK
<1>9. ASSUME NEW r \in Requests, QueueRequest(r) \/ CloseRequest(r)
      PROVE  UNCHANGED <<alive, jobs, work, reports, pumping, receiving, ticking>>
  BY <1>9 DEF QueueRequest, CloseRequest, tunerVars, threadVars, workVars
<1>10. ASSUME NEW j \in SelfJobs, NEW d \in Tuners, CloseSelfRow(j, d)
       PROVE  UNCHANGED <<alive, jobs, work, reports, pumping, receiving, ticking>>
  BY <1>10 DEF CloseSelfRow, tunerVars, threadVars, workVars
<1>11. ASSUME NEW q \in Chips, NEW state \in ServiceStates, SetService(q, state)
       PROVE  UNCHANGED <<alive, jobs, work, reports, pumping, receiving, ticking>>
  BY <1>11 DEF SetService, tunerVars, threadVars, workVars
<1>12. ASSUME NEW s \in Sessions,
              \/ AssertState(s) \/ LookForRunning(s) \/ NothingToOffer(s) \/ SendRequest(s)
              \/ SendFails(s) \/ MarkRunning(s) \/ DispatcherReturns(s) \/ \E r \in Requests : Offer(s, r)
       PROVE  UNCHANGED <<alive, jobs, work, reports, pumping, receiving, ticking>>
  BY <1>12 DEF AssertState, LookForRunning, NothingToOffer, SendRequest, SendFails, MarkRunning,
     DispatcherReturns, Offer, tunerVars, threadVars, workVars
<1>13. ASSUME NEW s \in Sessions,
              \/ ReceiveQueued(s) \/ CreateRow(s) \/ ReceiveResult(s) \/ ReceiveRefusal(s)
              \/ DropEvent(s) \/ Hear(s) \/ CloseSockets(s)
       PROVE  UNCHANGED <<alive, jobs, work, reports, pumping, receiving, ticking>>
  BY <1>13 DEF ReceiveQueued, CreateRow, ReceiveResult, ReceiveRefusal, DropEvent, Hear,
     CloseSockets, tunerVars, threadVars, workVars
<1>14. ASSUME NEW d \in Tuners, Attach(d) \/ Detach(d) \/ Release(d)
       PROVE  UNCHANGED <<alive, jobs, work, reports, pumping, receiving, ticking>>
  BY <1>14 DEF Attach, Detach, Release, tunerVars, threadVars, workVars
<1>15. ServerCrash => UNCHANGED <<alive, jobs, work, reports, pumping, receiving, ticking>>
  BY DEF ServerCrash, threadVars, workVars
<1>16. UNCHANGED vars => UNCHANGED <<alive, jobs, work, reports, pumping, receiving, ticking>>
  BY DEF vars, tunerVars, threadVars, workVars
<1> QED
  BY <1>a, <1>1, <1>2, <1>3, <1>4, <1>5, <1>6, <1>7, <1>8, <1>9, <1>10, <1>11, <1>12, <1>13,
     <1>14, <1>15, <1>16 DEF Next

LEMMA CutGrows == [Next]_vars => cut \subseteq cut'
<1> SUFFICES ASSUME [Next]_vars PROVE cut \subseteq cut'
  OBVIOUS
<1> USE DEF histVars
<1>1. ASSUME NEW s \in Sessions, CloseSockets(s) \/ DropEvent(s) PROVE cut \subseteq cut'
  BY <1>1 DEF CloseSockets, DropEvent, LoseEvents
<1>12. ASSUME NEW d \in Tuners, QueueUnannounced(d) \/ ReportFails(d) PROVE cut \subseteq cut'
  BY <1>12 DEF QueueUnannounced, ReportFails
<1>2. ServerCrash => cut \subseteq cut'
  BY DEF ServerCrash, LoseEvents
<1>3. ASSUME NEW r \in Requests, QueueRequest(r) \/ CloseRequest(r) PROVE UNCHANGED cut
  BY <1>3 DEF QueueRequest, CloseRequest
<1>4. ASSUME NEW j \in SelfJobs, NEW d \in Tuners, CloseSelfRow(j, d) PROVE UNCHANGED cut
  BY <1>4 DEF CloseSelfRow
<1>5. ASSUME NEW q \in Chips, NEW state \in ServiceStates, SetService(q, state)
      PROVE  UNCHANGED cut
  BY <1>5 DEF SetService
<1>6. ASSUME NEW s \in Sessions,
             \/ AssertState(s) \/ LookForRunning(s) \/ NothingToOffer(s) \/ SendRequest(s)
             \/ SendFails(s) \/ MarkRunning(s) \/ DispatcherReturns(s) \/ \E r \in Requests : Offer(s, r)
      PROVE  UNCHANGED cut
  BY <1>6 DEF AssertState, LookForRunning, NothingToOffer, SendRequest, SendFails, MarkRunning,
     DispatcherReturns, Offer
<1>7. ASSUME NEW s \in Sessions,
             \/ ReceiveQueued(s) \/ CreateRow(s) \/ ReceiveResult(s) \/ ReceiveRefusal(s)
             \/ Hear(s) \/ Consider(s)
      PROVE  UNCHANGED cut
  BY <1>7 DEF ReceiveQueued, CreateRow, ReceiveResult, ReceiveRefusal, Hear, Consider
<1>8. ASSUME NEW d \in Tuners,
             \/ Accept(d) \/ Tick(d) \/ QueueDrift(d) \/ PumpPlan(d) \/ PumpResult(d)
             \/ PumpFollowUp(d) \/ Begin(d) \/ Attach(d) \/ TunerDies(d) \/ Detach(d) \/ Release(d)
      PROVE  UNCHANGED cut
  BY <1>8 DEF Accept, Tick, QueueDrift, PumpPlan, PumpResult, PumpFollowUp, Begin, Attach,
     TunerDies, Detach, Release
<1>9. ASSUME NEW d \in Tuners, NEW outcome \in Finished, NEW drifted \in BOOLEAN,
             Finish(d, outcome, drifted)
      PROVE  UNCHANGED cut
  BY <1>9 DEF Finish
<1>10. ASSUME NEW d \in Tuners, NEW s \in Sessions, Start(d, s) PROVE UNCHANGED cut
  BY <1>10 DEF Start
<1>11. UNCHANGED vars => UNCHANGED cut
  BY DEF vars
<1> QED
  BY <1>1, <1>2, <1>3, <1>4, <1>5, <1>6, <1>7, <1>8, <1>9, <1>10, <1>11, <1>12 DEF Next

\* What the server knows of a tuner's own calibrations it does not forget, unless it
\* stops with one in hand.
LEMMA KnownGrows ==
  ASSUME TypeInv, [Next]_vars, NEW d \in Tuners, d \notin cut'
  PROVE  Known(d) \subseteq Known(d)'
<1> USE CalibrationAssumption, RequestNames DEF rowVars, listVars
<1>0. RowsOK /\ ListenersOK
  BY DEF TypeInv
<1>a. ASSUME UNCHANGED <<selfRow, litem>> PROVE Known(d) \subseteq Known(d)'
  BY <1>a DEF Known, HasRow
<1>b. ASSUME NEW s \in Sessions, NEW j, litem[s] = NoJob, litem' = [litem EXCEPT ![s] = j],
             UNCHANGED selfRow
      PROVE  Known(d) \subseteq Known(d)'
  BY <1>0, <1>b DEF Known, HasRow, ListenersOK
<1>1. ASSUME NEW j \in SelfJobs, NEW e \in Tuners, CloseSelfRow(j, e)
      PROVE  Known(d) \subseteq Known(d)'
  <2>1. \A i \in SelfJobs, x \in Tuners : selfRow[x][i] # "absent" => selfRow'[x][i] # "absent"
    BY <1>0, <1>1 DEF CloseSelfRow, RowsOK
  <2>2. UNCHANGED litem
    BY <1>1 DEF CloseSelfRow
  <2> QED
    BY <2>1, <2>2 DEF Known, HasRow
<1>2. ASSUME NEW s \in Sessions, CreateRow(s) PROVE Known(d) \subseteq Known(d)'
  <2>1. litem[s] \in SelfJobs /\ SessionTuner[s] \in Tuners
    BY <1>0, <1>2 DEF CreateRow, ListenersOK
  <2>2. /\ \A i \in SelfJobs, x \in Tuners : selfRow[x][i] # "absent" => selfRow'[x][i] # "absent"
        /\ selfRow'[SessionTuner[s]][litem[s]] # "absent"
    BY <1>0, <1>2, <2>1 DEF CreateRow, RowsOK
  <2>3. \A t \in Sessions \ {s} : litem'[t] = litem[t]
    BY <1>0, <1>2 DEF CreateRow, ListenersOK
  <2> QED
    BY <2>1, <2>2, <2>3 DEF Known, HasRow
<1>3. ASSUME NEW s \in Sessions, ReceiveQueued(s) PROVE Known(d) \subseteq Known(d)'
  <2>1. litem[s] = NoJob /\ UNCHANGED selfRow
    BY <1>0, <1>3 DEF ReceiveQueued, Receiving, ListenersOK
  <2> QED
    BY <1>3, <1>a, <1>b, <2>1 DEF ReceiveQueued
<1>4. CASE ServerCrash
  <2>1. \A s \in Sessions : SessionTuner[s] = d => litem[s] = NoJob
    BY <1>0, <1>4 DEF ServerCrash, LoseEvents, ListenersOK
  <2> QED
    BY <1>4, <2>1 DEF ServerCrash, Known, HasRow
<1>5. ASSUME NEW r \in Requests, QueueRequest(r) \/ CloseRequest(r)
      PROVE  UNCHANGED <<selfRow, litem>>
  BY <1>5 DEF QueueRequest, CloseRequest
<1>6. ASSUME NEW q \in Chips, NEW state \in ServiceStates, SetService(q, state)
      PROVE  UNCHANGED <<selfRow, litem>>
  BY <1>6 DEF SetService
<1>7. ASSUME NEW s \in Sessions,
             \/ AssertState(s) \/ LookForRunning(s) \/ NothingToOffer(s) \/ SendRequest(s)
             \/ SendFails(s) \/ MarkRunning(s) \/ DispatcherReturns(s) \/ \E r \in Requests : Offer(s, r)
      PROVE  UNCHANGED <<selfRow, litem>>
  BY <1>7 DEF AssertState, LookForRunning, NothingToOffer, SendRequest, SendFails, MarkRunning,
     DispatcherReturns, Offer
<1>8. ASSUME NEW s \in Sessions,
             \/ ReceiveResult(s) \/ ReceiveRefusal(s) \/ DropEvent(s) \/ Hear(s) \/ Consider(s)
             \/ CloseSockets(s)
      PROVE  UNCHANGED <<selfRow, litem>>
  BY <1>8 DEF ReceiveResult, ReceiveRefusal, DropEvent, Hear, Consider, CloseSockets
<1>9. ASSUME NEW e \in Tuners,
             \/ Accept(e) \/ Tick(e) \/ QueueDrift(e) \/ PumpPlan(e) \/ PumpResult(e)
             \/ PumpFollowUp(e) \/ QueueUnannounced(e) \/ ReportFails(e)
             \/ Begin(e) \/ Attach(e) \/ TunerDies(e) \/ Detach(e) \/ Release(e)
      PROVE  UNCHANGED <<selfRow, litem>>
  BY <1>9 DEF Accept, Tick, QueueDrift, PumpPlan, PumpResult, PumpFollowUp,
     QueueUnannounced, ReportFails, Begin, Attach,
     TunerDies, Detach, Release
<1>10. ASSUME NEW e \in Tuners, NEW outcome \in Finished, NEW drifted \in BOOLEAN,
              Finish(e, outcome, drifted)
       PROVE  UNCHANGED <<selfRow, litem>>
  BY <1>10 DEF Finish
<1>11. ASSUME NEW e \in Tuners, NEW s \in Sessions, Start(e, s) PROVE UNCHANGED <<selfRow, litem>>
  BY <1>11 DEF Start
<1>12. UNCHANGED vars => UNCHANGED <<selfRow, litem>>
  BY DEF vars
<1> QED
  BY <1>a, <1>1, <1>2, <1>3, <1>4, <1>5, <1>6, <1>7, <1>8, <1>9, <1>10, <1>11, <1>12 DEF Next

\* A step that emits nothing of tuner d's, or one event of what is owned or now announced.
LEMMA AnnouncedKept ==
  ASSUME NEW d \in Tuners, AnnouncedOf(d), Known(d) \subseteq Known(d)', out'[d] = out[d],
         Owned(d)' \subseteq Owned(d)
  PROVE  AnnouncedOf(d)'
  BY DEF AnnouncedOf, Covered

LEMMA AnnouncedEmit ==
  ASSUME HeldOK, HeldOK', NEW d \in Tuners, AnnouncedOf(d), Known(d) \subseteq Known(d)',
         NEW kind, NEW job, Emit(d, kind, job),
         kind \in Finished /\ job \in SelfJobs => job \in Owned(d),
         Owned(d)' \subseteq Owned(d) \cup {j \in SelfJobs : kind = "queued" /\ j = job}
  PROVE  AnnouncedOf(d)'
<1> DEFINE e == [kind |-> kind, job |-> job]
           T == Events \cup {e}
<1>1. out[d] \in Seq(T) /\ e \in T
  <2>1. out[d] \in Seq(Events)
    BY DEF HeldOK
  <2> QED
    BY <2>1, SeqMonotonic
<1>2. out'[d] = Append(out[d], e) /\ e.kind = kind /\ e.job = job
  BY DEF Emit, HeldOK
<1> HIDE DEF T, e
<1>3. /\ Covered(out[d], Known(d))
      /\ e.kind \in Finished /\ e.job \in SelfJobs
           => e.job \in Known(d) \cup AnnouncedIn(out[d], Len(out[d]))
  BY <1>2 DEF AnnouncedOf
<1>4. /\ Covered(Append(out[d], e), Known(d)')
      /\ AnnouncedIn(out[d], Len(out[d])) \subseteq AnnouncedIn(out'[d], Len(out'[d]))
      /\ e.kind = "queued" /\ e.job \in SelfJobs => e.job \in AnnouncedIn(out'[d], Len(out'[d]))
  BY <1>1, <1>2, <1>3, CoveredAppend
<1>5. Owned(d)' \subseteq Known(d)' \cup AnnouncedIn(out'[d], Len(out'[d]))
  BY <1>2, <1>4 DEF AnnouncedOf
<1> QED
  BY <1>2, <1>4, <1>5 DEF AnnouncedOf

LEMMA AnnouncedTaken ==
  ASSUME HeldOK, NEW s \in Sessions, Receiving(s), Taken(s),
         NEW d \in Tuners, AnnouncedOf(d), Known(d) \subseteq Known(d)', Owned(d)' \subseteq Owned(d),
         Arrived(s).kind = "queued" /\ Arrived(s).job \in SelfJobs /\ SessionTuner[s] = d
           => Arrived(s).job \in Known(d)'
  PROVE  AnnouncedOf(d)'
<1>1. CASE d # SessionTuner[s]
  <2>1. out'[d] = out[d]
    BY <1>1, CalibrationAssumption DEF Taken, HeldOK
  <2> QED
    BY <2>1, AnnouncedKept
<1>2. CASE d = SessionTuner[s]
  <2>1. out[d] \in Seq(Events) /\ out[d] # <<>> /\ out'[d] = Tail(out[d]) /\ Arrived(s) = Head(out[d])
    BY <1>2, CalibrationAssumption DEF Taken, HeldOK, Receiving, Arrived
  <2>2. /\ Covered(Tail(out[d]), Known(d)')
        /\ AnnouncedIn(out[d], Len(out[d]))
             \subseteq Known(d)' \cup AnnouncedIn(Tail(out[d]), Len(Tail(out[d])))
    BY <1>2, <2>1, CoveredTail DEF AnnouncedOf
  <2>3. Owned(d)' \subseteq Known(d)' \cup AnnouncedIn(out'[d], Len(out'[d]))
    BY <2>1, <2>2 DEF AnnouncedOf
  <2> QED
    BY <2>1, <2>2, <2>3 DEF AnnouncedOf
<1> QED
  BY <1>1, <1>2

\* Of a tuner whose events are not cut nothing was lost, unless it is not there.
LEMMA AnnouncedLeft ==
  ASSUME Quiet, NEW D \in SUBSET Tuners, NEW handled, LoseEvents(D, handled),
         NEW d \in Tuners, d \notin cut', AnnouncedOf(d), Known(d) \subseteq Known(d)',
         UNCHANGED workVars, HeldOK
  PROVE  AnnouncedOf(d)'
<1>1. PICK left \in [D -> UNION {Suffixes(out[x]) : x \in D}] :
        /\ out' = [x \in Tuners |-> IF x \notin D THEN out[x]
                                    ELSE IF alive[x] THEN left[x] ELSE <<>>]
        /\ cut' = cut \cup handled \cup {x \in D : left[x] # out[x]}
  BY DEF LoseEvents
<1>2. Owned(d)' = Owned(d)
  BY DEF Owned, workVars
<1>3. CASE out'[d] = out[d]
  BY <1>2, <1>3, AnnouncedKept
<1>4. CASE out'[d] = <<>> /\ ~alive[d]
  <2>1. Owned(d) = {}
    BY <1>4, RangeEmpty, RequestNames DEF Quiet, Owned
  <2> QED
    BY <1>2, <1>4, <2>1, CoveredEmpty DEF AnnouncedOf
<1> QED
  BY <1>1, <1>3, <1>4

LEMMA AnnouncedStep == TypeInv /\ TypeInv' /\ Quiet /\ AnnouncedInv /\ [Next]_vars => AnnouncedInv'
<1> SUFFICES ASSUME TypeInv, TypeInv', Quiet, AnnouncedInv, [Next]_vars, NEW d \in Tuners, d \notin cut'
             PROVE  AnnouncedOf(d)'
  BY DEF AnnouncedInv
<1> USE CalibrationAssumption
<1>0. /\ HeldOK /\ HeldOK' /\ ListenersOK /\ ListenersOK'
      /\ AnnouncedOf(d) /\ Known(d) \subseteq Known(d)'
  BY CutGrows, KnownGrows DEF TypeInv, AnnouncedInv
<1>t. \A e \in Tuners : /\ jobs[e] \in Seq(LiveJobs) /\ reports[e] \in Seq(Reports)
                        /\ out[e] \in Seq(Events)
  BY <1>0 DEF HeldOK
<1>a. CASE UNCHANGED <<workVars, out>>
  BY <1>0, <1>a, AnnouncedKept DEF workVars, Owned
<1>1. ASSUME NEW s \in Sessions, ReceiveQueued(s) PROVE AnnouncedOf(d)'
  <2>1. UNCHANGED workVars /\ Receiving(s) /\ Taken(s) /\ UNCHANGED rowVars
    BY <1>1 DEF ReceiveQueued
  <2>2. Owned(d)' = Owned(d)
    BY <2>1 DEF Owned, workVars
  <2>3. SessionTuner[s] = d /\ Arrived(s).job \in SelfJobs => Arrived(s).job \in Known(d)'
    <3>1. CASE HasRow(Arrived(s).job)
      BY <2>1, <1>0, <3>1 DEF Known
    <3>2. CASE ~HasRow(Arrived(s).job)
      <4>1. litem'[s] = Arrived(s).job
        BY <1>0, <1>1, <3>2 DEF ReceiveQueued, ListenersOK
      <4> QED
        BY <4>1 DEF Known
    <3> QED
      BY <3>1, <3>2
  <2> QED
    BY <1>0, <2>1, <2>2, <2>3, AnnouncedTaken
<1>2. ASSUME NEW s \in Sessions, ReceiveResult(s) \/ ReceiveRefusal(s) PROVE AnnouncedOf(d)'
  <2>1. /\ UNCHANGED workVars /\ Receiving(s) /\ Taken(s) /\ Arrived(s).kind # "queued"
    BY <1>2 DEF ReceiveResult, ReceiveRefusal, Finished
  <2>2. Owned(d)' = Owned(d)
    BY <2>1 DEF Owned, workVars
  <2> QED
    BY <1>0, <2>1, <2>2, AnnouncedTaken
<1>3. ASSUME NEW s \in Sessions, DropEvent(s) PROVE AnnouncedOf(d)'
  <2>1. UNCHANGED workVars /\ out'[d] = out[d]
    BY <1>0, <1>3 DEF DropEvent, Taken, HeldOK
  <2> QED
    BY <1>0, <2>1, AnnouncedKept DEF Owned, workVars
<1>4. ASSUME NEW s \in Sessions, Consider(s) PROVE AnnouncedOf(d)'
  <2>1. UNCHANGED workVars
    BY <1>4 DEF Consider
  <2>2. Owned(d)' = Owned(d)
    BY <2>1 DEF Owned, workVars
  <2>3. CASE out'[d] = out[d]
    BY <1>0, <2>2, <2>3, AnnouncedKept
  <2>4. CASE d = SessionTuner[s] /\ Emit(d, "refused", Head(down[s]).job)
    BY <1>0, <2>2, <2>4, AnnouncedEmit DEF Finished
  <2> QED
    BY <1>0, <1>4, <2>3, <2>4 DEF Consider, Emit, HeldOK
<1>5. ASSUME NEW s \in Sessions, CloseSockets(s) PROVE AnnouncedOf(d)'
  BY <1>0, <1>5, AnnouncedLeft DEF CloseSockets
<1>6. CASE ServerCrash
  BY <1>0, <1>6, AnnouncedLeft DEF ServerCrash
<1>7. ASSUME NEW e \in Tuners, Accept(e) PROVE AnnouncedOf(d)'
  <2>1. UNCHANGED <<work, reports, out>> /\ receiving[e] # NoJob /\ Enqueue(e, receiving[e])
    BY <1>7 DEF Accept
  <2>2. receiving[e] \in RequestJobs
    BY <1>0, <2>1, LiveNames DEF HeldOK
  <2>3. Range(Append(jobs[e], receiving[e])) = Range(jobs[e]) \cup {receiving[e]}
    BY <1>t, RangeAppend
  <2>4. Range(jobs'[d]) \subseteq Range(jobs[d]) \cup {receiving[e]}
    BY <1>0, <2>1, <2>3 DEF Enqueue, HeldOK
  <2>5. Owned(d)' \subseteq Owned(d)
    BY <2>1, <2>2, <2>4, RequestNames DEF Owned
  <2> QED
    BY <1>0, <2>1, <2>5, AnnouncedKept
<1>8. ASSUME NEW e \in Tuners, QueueDrift(e) \/ PumpFollowUp(e) PROVE AnnouncedOf(d)'
  <2>1. PICK job : Emit(e, "queued", job) /\ Enqueue(e, job) /\ UNCHANGED <<work, reports>>
    BY <1>8 DEF QueueDrift, PumpFollowUp, QueueOwn
  <2>2. CASE e # d
    <3>1. out'[d] = out[d] /\ jobs'[d] = jobs[d]
      BY <1>0, <2>1, <2>2 DEF Emit, Enqueue, HeldOK
    <3> QED
      BY <1>0, <2>1, <3>1, AnnouncedKept DEF Owned
  <2>3. CASE e = d
    <3>1. Range(Append(jobs[d], job)) = Range(jobs[d]) \cup {job}
      BY <1>t, RangeAppend
    <3>2. Range(jobs'[d]) = Range(jobs[d]) \cup {job}
      BY <1>0, <2>1, <2>3, <3>1 DEF Enqueue, HeldOK
    <3>3. Owned(d)' \subseteq Owned(d) \cup {j \in SelfJobs : "queued" = "queued" /\ j = job}
      BY <2>1, <3>2 DEF Owned
    <3> QED
      BY <1>0, <2>1, <2>3, <3>3, AnnouncedEmit DEF Finished
  <2> QED
    BY <2>2, <2>3
<1>9. ASSUME NEW e \in Tuners, PumpPlan(e) \/ PumpResult(e) PROVE AnnouncedOf(d)'
  <2>1. /\ reports[e] # <<>> /\ reports' = [reports EXCEPT ![e] = Tail(@)] /\ UNCHANGED <<jobs, work>>
        /\ Emit(e, "queued", Head(reports[e]).job)
           \/ Emit(e, Head(reports[e]).kind, Head(reports[e]).job)
    BY <1>9 DEF PumpPlan, PumpResult
  <2>2. CASE e # d
    <3>1. out'[d] = out[d] /\ reports'[d] = reports[d]
      BY <1>0, <2>1, <2>2 DEF Emit, HeldOK
    <3> QED
      BY <1>0, <2>1, <3>1, AnnouncedKept DEF Owned
  <2>3. CASE e = d
    <3>1. Range(Tail(reports[d])) \subseteq Range(reports[d]) /\ Head(reports[d]) \in Range(reports[d])
      BY <1>t, <2>1, <2>3, RangeTail
    <3>2. reports'[d] = Tail(reports[d])
      BY <1>0, <2>1, <2>3 DEF HeldOK
    <3>3. Owned(d)' \subseteq Owned(d)
      BY <2>1, <3>1, <3>2 DEF Owned
    <3>4. Head(reports[d]).job \in SelfJobs => Head(reports[d]).job \in Owned(d)
      BY <3>1 DEF Owned
    <3> QED
      BY <1>0, <2>1, <2>3, <3>3, <3>4, AnnouncedEmit
  <2> QED
    BY <2>2, <2>3
<1>20. ASSUME NEW e \in Tuners, QueueUnannounced(e) \/ ReportFails(e) PROVE AnnouncedOf(d)'
  <2>1. e # d
    BY <1>20 DEF QueueUnannounced, ReportFails
  <2>2. out'[d] = out[d] /\ jobs'[d] = jobs[d] /\ UNCHANGED work /\ reports'[d] = reports[d]
    BY <1>0, <1>20, <2>1 DEF QueueUnannounced, ReportFails, Emit, Enqueue, HeldOK
  <2> QED
    BY <1>0, <2>2, AnnouncedKept DEF Owned
<1>10. ASSUME NEW e \in Tuners, Begin(e) PROVE AnnouncedOf(d)'
  <2> DEFINE job == Head(jobs[e])
             plan == Report("plan", job, FALSE)
  <2>1. /\ jobs[e] # <<>> /\ jobs' = [jobs EXCEPT ![e] = Tail(@)] /\ UNCHANGED out
        /\ work' = [work EXCEPT ![e] = job]
        /\ reports' = reports \/ reports' = [reports EXCEPT ![e] = Append(@, plan)]
    BY <1>10 DEF Begin
  <2>2. Owned(d)' \subseteq Owned(d)
    <3>1. CASE e # d
      <4>1. jobs'[d] = jobs[d] /\ work'[d] = work[d] /\ reports'[d] = reports[d]
        BY <1>0, <2>1, <3>1 DEF HeldOK
      <4> QED
        BY <4>1 DEF Owned
    <3>2. CASE e = d
      <4>1. Range(Tail(jobs[d])) \subseteq Range(jobs[d]) /\ job \in Range(jobs[d])
        BY <1>t, <2>1, <3>2, RangeTail
      <4>2. Range(Append(reports[d], plan)) = Range(reports[d]) \cup {plan} /\ plan.job = job
        BY <1>t, RangeAppend DEF Report
      <4> HIDE DEF plan, job
      <4>3. jobs'[d] = Tail(jobs[d]) /\ work'[d] = job
            /\ (reports'[d] = reports[d] \/ reports'[d] = Append(reports[d], plan))
        BY <1>0, <2>1, <3>2 DEF HeldOK
      <4>4. \A m \in Range(reports'[d]) : m \in Range(reports[d]) \/ m.job = job
        BY <4>2, <4>3
      <4> QED
        BY <4>1, <4>3, <4>4 DEF Owned
    <3> QED
      BY <3>1, <3>2
  <2> QED
    BY <1>0, <2>1, <2>2, AnnouncedKept
<1>11. ASSUME NEW e \in Tuners, NEW outcome \in Finished, NEW drifted \in BOOLEAN,
              Finish(e, outcome, drifted)
       PROVE  AnnouncedOf(d)'
  <2> DEFINE report == Report(outcome, work[e], drifted)
  <2>1. /\ UNCHANGED <<jobs, out>> /\ work' = [work EXCEPT ![e] = NoJob]
        /\ reports' = [reports EXCEPT ![e] = Append(@, report)]
    BY <1>11 DEF Finish
  <2>2. Owned(d)' \subseteq Owned(d)
    <3>1. CASE e # d
      BY <1>0, <2>1, <3>1 DEF Owned, HeldOK
    <3>2. CASE e = d
      <4>1. Range(Append(reports[d], report)) = Range(reports[d]) \cup {report}
            /\ report.job = work[d]
        BY <1>t, <3>2, RangeAppend DEF Report
      <4> HIDE DEF report
      <4>2. work'[d] = NoJob /\ Range(reports'[d]) = Range(reports[d]) \cup {report}
        BY <1>0, <2>1, <3>2, <4>1 DEF HeldOK
      <4> QED
        BY <2>1, <4>1, <4>2, RequestNames DEF Owned
    <3> QED
      BY <3>1, <3>2
  <2> QED
    BY <1>0, <2>1, <2>2, AnnouncedKept
<1>12. ASSUME NEW e \in Tuners, TunerDies(e) PROVE AnnouncedOf(d)'
  <2>1. PICK k \in 0..Len(out[e]) : out' = [out EXCEPT ![e] = SubSeq(@, 1, k)]
    BY <1>12 DEF TunerDies
  <2>2. CASE e # d
    <3>1. out'[d] = out[d] /\ jobs'[d] = jobs[d] /\ work'[d] = work[d] /\ reports'[d] = reports[d]
      BY <1>0, <1>12, <2>1, <2>2 DEF TunerDies, HeldOK
    <3> QED
      BY <1>0, <3>1, AnnouncedKept DEF Owned
  <2>3. CASE e = d
    <3>1. out'[d] = SubSeq(out[d], 1, k) /\ jobs'[d] = <<>> /\ work'[d] = NoJob /\ reports'[d] = <<>>
      BY <1>0, <1>12, <2>1, <2>3 DEF TunerDies, HeldOK
    <3>2. Owned(d)' = {}
      BY <3>1, RangeEmpty, RequestNames DEF Owned
    <3>3. Covered(SubSeq(out[d], 1, k), Known(d)')
      BY <1>0, <1>t, <2>1, <2>3, CoveredPrefix DEF AnnouncedOf
    <3> QED
      BY <3>1, <3>2, <3>3 DEF AnnouncedOf
  <2> QED
    BY <2>2, <2>3
<1>13. ASSUME NEW e \in Tuners, NEW s \in Sessions, Start(e, s) PROVE AnnouncedOf(d)'
  <2>1. UNCHANGED <<out, jobs>>
    BY <1>13 DEF Start
  <2>2. Owned(d)' \subseteq Owned(d)
    <3>1. CASE UNCHANGED <<work, reports>>
      BY <2>1, <3>1 DEF Owned
    <3>2. CASE /\ work' = [work EXCEPT ![e] = Dead]
               /\ reports' = [reports EXCEPT ![e] = <<Report("failed", NoJob, FALSE)>>]
      <4>1. \A m \in Range(<<Report("failed", NoJob, FALSE)>>) : m.job = NoJob
        BY RangeSingleton DEF Report
      <4>2. \A m \in Range(reports'[d]) : m \in Range(reports[d]) \/ m.job = NoJob
        BY <1>0, <3>2, <4>1 DEF HeldOK
      <4>3. work'[d] = work[d] \/ work'[d] = Dead
        BY <1>0, <3>2 DEF HeldOK
      <4> QED
        BY <2>1, <4>2, <4>3, RequestNames DEF Owned
    <3> QED
      BY <1>13, <3>1, <3>2 DEF Start
  <2> QED
    BY <1>0, <2>1, <2>2, AnnouncedKept
<1>14. ASSUME NEW r \in Requests, QueueRequest(r) \/ CloseRequest(r) PROVE UNCHANGED <<workVars, out>>
  BY <1>14 DEF QueueRequest, CloseRequest, tunerVars
<1>15. ASSUME NEW j \in SelfJobs, NEW e \in Tuners, CloseSelfRow(j, e) PROVE UNCHANGED <<workVars, out>>
  BY <1>15 DEF CloseSelfRow, tunerVars
<1>16. ASSUME NEW q \in Chips, NEW state \in ServiceStates, SetService(q, state)
       PROVE  UNCHANGED <<workVars, out>>
  BY <1>16 DEF SetService, tunerVars
<1>17. ASSUME NEW s \in Sessions,
              \/ AssertState(s) \/ LookForRunning(s) \/ NothingToOffer(s) \/ SendRequest(s)
              \/ SendFails(s) \/ MarkRunning(s) \/ DispatcherReturns(s) \/ CreateRow(s) \/ Hear(s)
              \/ \E r \in Requests : Offer(s, r)
       PROVE  UNCHANGED <<workVars, out>>
  BY <1>17 DEF AssertState, LookForRunning, NothingToOffer, SendRequest, SendFails, MarkRunning,
     DispatcherReturns, CreateRow, Hear, Offer, tunerVars
<1>18. ASSUME NEW e \in Tuners, Tick(e) \/ Attach(e) \/ Detach(e) \/ Release(e)
       PROVE  UNCHANGED <<workVars, out>>
  BY <1>18 DEF Tick, Attach, Detach, Release, tunerVars
<1>19. UNCHANGED vars => UNCHANGED <<workVars, out>>
  BY DEF vars, tunerVars
<1> QED
  BY <1>a, <1>1, <1>2, <1>3, <1>4, <1>5, <1>6, <1>7, <1>8, <1>9, <1>10, <1>11, <1>12, <1>13,
     <1>14, <1>15, <1>16, <1>17, <1>18, <1>19, <1>20 DEF Next

\* The outcome of a calibration nobody dispatched never reaches the server before the
\* row that announces it, unless an event of the tuner was lost, for any number of
\* requests, tuners, sessions and faults.
THEOREM AnnouncedBeforeReportedHolds == Spec => []AnnouncedBeforeReported
<1>1. TypeInv /\ AnnouncedInv => AnnouncedBeforeReported
  <2> SUFFICES ASSUME TypeInv, AnnouncedInv, NEW d \in Tuners \ cut, NEW i \in DOMAIN out[d],
                      out[d][i].kind \in Finished, out[d][i].job \in SelfJobs
               PROVE  Announced(out[d][i].job, d, i - 1)
    BY DEF AnnouncedBeforeReported
  <2>1. out[d] \in Seq(Events) /\ Len(out[d]) \in Nat /\ DOMAIN out[d] = 1..Len(out[d])
    BY LenProperties DEF TypeInv, HeldOK
  <2>2. out[d][i].job \in Known(d) \cup AnnouncedIn(out[d], i - 1)
    BY <2>1 DEF AnnouncedInv, AnnouncedOf, Covered
  <2>3. CASE out[d][i].job \in Known(d)
    BY <2>3 DEF Known, Announced
  <2>4. CASE out[d][i].job \in AnnouncedIn(out[d], i - 1)
    <3>1. PICK k \in 1..(i - 1) : out[d][k].kind = "queued" /\ out[d][k].job = out[d][i].job
      BY <2>4 DEF AnnouncedIn
    <3>2. out[d][k] \in Events
      BY <2>1, <3>1, ElementOfSeq
    <3>3. out[d][k] = [kind |-> "queued", job |-> out[d][i].job]
      BY <3>1, <3>2 DEF Events, Outcomes
    <3> QED
      BY <3>1, <3>3 DEF Announced
  <2> QED
    BY <2>2, <2>3, <2>4
<1> QED
  BY <1>1, TypeInit, TypeStep, AnnouncedInit, QuietStep, AnnouncedStep, PTL DEF Spec

-----------------------------------------------------------------------------
(* What a tuner refuses. *)

\* A tuner told t lets an order pass unless the last state ahead of it, on the socket q or
\* heard, is `disabled`.
Barred(t, q, i) ==
  \E j \in 0..(i - 1) :
    /\ (IF j = 0 THEN t ELSE q[j].kind) = "disabled"
    /\ \A k \in (j + 1)..(i - 1) : q[k].kind \notin ServiceStates

Passing(t, q, L) ==
  {i \in 1..Len(q) : q[i].kind = "calibrate" /\ q[i].job.of \in L /\ ~Barred(t, q, i)}

LEMMA BarredAppend ==
  ASSUME NEW S, NEW q \in Seq(S), NEW e \in S, NEW t
  PROVE  /\ \A i \in 1..(Len(q) + 1) : Barred(t, q, i) <=> Barred(t, Append(q, e), i)
         /\ e.kind = "disabled" => Barred(t, Append(q, e), Len(q) + 2)
         /\ e.kind \notin ServiceStates /\ Barred(t, q, Len(q) + 1)
              => Barred(t, Append(q, e), Len(q) + 2)
<1> DEFINE p == Append(q, e)
<1>1. Len(q) \in Nat /\ (\A i \in 1..Len(q) : p[i] = q[i]) /\ p[Len(q) + 1] = e
  BY AppendProperties, LenProperties
<1> HIDE DEF p
<1>2. \A i \in 1..(Len(q) + 1) : Barred(t, q, i) <=> Barred(t, p, i)
  <2> SUFFICES ASSUME NEW i \in 1..(Len(q) + 1) PROVE Barred(t, q, i) <=> Barred(t, p, i)
    OBVIOUS
  <2>1. \A k \in 1..(i - 1) : p[k] = q[k]
    BY <1>1
  <2>2. ASSUME NEW j \in 0..(i - 1)
        PROVE  /\ (IF j = 0 THEN t ELSE q[j].kind) = (IF j = 0 THEN t ELSE p[j].kind)
               /\ \A k \in (j + 1)..(i - 1) : p[k] = q[k]
    BY <2>1
  <2> QED
    BY <2>2 DEF Barred
<1>3. ASSUME e.kind = "disabled" PROVE Barred(t, p, Len(q) + 2)
  <2>1. Len(q) + 1 \in 0..(Len(q) + 2 - 1) /\ Len(q) + 1 # 0
        /\ p[Len(q) + 1].kind = "disabled"
        /\ ((Len(q) + 1) + 1)..(Len(q) + 2 - 1) = {}
    BY <1>1, <1>3
  <2> QED
    BY <2>1 DEF Barred
<1>4. ASSUME e.kind \notin ServiceStates, Barred(t, q, Len(q) + 1)
      PROVE  Barred(t, p, Len(q) + 2)
  <2>1. Barred(t, p, Len(q) + 1)
    BY <1>1, <1>2, <1>4
  <2>2. PICK j \in 0..(Len(q) + 1 - 1) :
          /\ (IF j = 0 THEN t ELSE p[j].kind) = "disabled"
          /\ \A k \in (j + 1)..(Len(q) + 1 - 1) : p[k].kind \notin ServiceStates
    BY <2>1 DEF Barred
  <2>3. \A k \in (j + 1)..(Len(q) + 2 - 1) : p[k].kind \notin ServiceStates
    BY <1>1, <1>4, <2>2
  <2>4. j \in 0..(Len(q) + 2 - 1)
    BY <1>1
  <2> QED
    BY <2>2, <2>3, <2>4 DEF Barred
<1> QED
  BY <1>2, <1>3, <1>4 DEF p

LEMMA BarredTail ==
  ASSUME NEW S, NEW q \in Seq(S), q # <<>>, NEW t,
         NEW i \in 1..Len(q), Barred(t, q, i + 1)
  PROVE  Barred(IF Head(q).kind \in ServiceStates THEN Head(q).kind ELSE t, Tail(q), i)
<1> DEFINE p == Tail(q)
           u == IF Head(q).kind \in ServiceStates THEN Head(q).kind ELSE t
<1>1. Len(q) \in Nat \ {0} /\ (\A k \in 1..(Len(q) - 1) : p[k] = q[k + 1]) /\ Head(q) = q[1]
  BY HeadTailProperties, LenProperties, EmptySeq
<1> HIDE DEF p
<1>2. PICK j \in 0..(i + 1 - 1) :
        /\ (IF j = 0 THEN t ELSE q[j].kind) = "disabled"
        /\ \A k \in (j + 1)..(i + 1 - 1) : q[k].kind \notin ServiceStates
  BY DEF Barred
<1>3. ASSUME NEW m \in 0..(i - 1), m >= j - 1
      PROVE  \A k \in (m + 1)..(i - 1) : p[k].kind \notin ServiceStates
  <2> SUFFICES ASSUME NEW k \in (m + 1)..(i - 1) PROVE p[k].kind \notin ServiceStates
    OBVIOUS
  <2>1. k + 1 \in (j + 1)..(i + 1 - 1) /\ p[k] = q[k + 1]
    BY <1>1, <1>3
  <2> QED
    BY <1>2, <2>1
<1>4. CASE j \in {0, 1}
  <2>1. u = "disabled"
    BY <1>1, <1>2, <1>4 DEF ServiceStates
  <2>2. 0 \in 0..(i - 1) /\ \A k \in (0 + 1)..(i - 1) : p[k].kind \notin ServiceStates
    <3>1. 0 \in 0..(i - 1) /\ 0 >= j - 1
      BY <1>4
    <3> QED
      BY <1>3, <3>1
  <2> HIDE DEF u
  <2>3. Barred(u, p, i)
    BY <2>1, <2>2 DEF Barred
  <2> QED
    BY <2>3 DEF u, p
<1>5. CASE j > 1
  <2>1. j - 1 \in 0..(i - 1) /\ j - 1 # 0 /\ p[j - 1].kind = "disabled"
    BY <1>1, <1>2, <1>5
  <2>2. \A k \in ((j - 1) + 1)..(i - 1) : p[k].kind \notin ServiceStates
    BY <1>3, <2>1
  <2> HIDE DEF u
  <2>3. Barred(u, p, i)
    BY <2>1, <2>2 DEF Barred
  <2> QED
    BY <2>3 DEF u, p
<1> QED
  BY <1>2, <1>4, <1>5

LEMMA PassingAppend ==
  ASSUME NEW S, NEW q \in Seq(S), NEW e \in S, NEW t, NEW L, NEW i \in Passing(t, Append(q, e), L)
  PROVE  \/ i \in Passing(t, q, L)
         \/ /\ i = Len(q) + 1 /\ ~Barred(t, q, Len(q) + 1)
            /\ e.kind = "calibrate" /\ e.job.of \in L
<1> DEFINE p == Append(q, e)
<1>1. /\ Len(q) \in Nat /\ Len(p) = Len(q) + 1
      /\ \A k \in 1..Len(q) : p[k] = q[k]
      /\ p[Len(q) + 1] = e
  BY AppendProperties, LenProperties
<1>2. \A k \in 1..(Len(q) + 1) : Barred(t, q, k) <=> Barred(t, p, k)
  BY BarredAppend
<1> HIDE DEF p
<1>3. i \in Passing(t, p, L)
  BY DEF p
<1>4. /\ i \in 1..(Len(q) + 1) /\ p[i].kind = "calibrate" /\ p[i].job.of \in L
      /\ ~Barred(t, q, i)
  BY <1>1, <1>2, <1>3 DEF Passing
<1>5. CASE i \in 1..Len(q)
  BY <1>1, <1>4, <1>5 DEF Passing
<1>6. CASE i = Len(q) + 1
  BY <1>1, <1>4, <1>6
<1> QED
  BY <1>1, <1>4, <1>5, <1>6

LEMMA PassingTail ==
  ASSUME NEW S, NEW q \in Seq(S), q # <<>>, NEW t, NEW L
  PROVE  /\ \A i \in Passing(IF Head(q).kind \in ServiceStates THEN Head(q).kind ELSE t, Tail(q), L) :
              i \in Nat \ {0} /\ i + 1 \in Passing(t, q, L)
         /\ Head(q).kind = "calibrate" /\ Head(q).job.of \in L /\ t # "disabled"
              => 1 \in Passing(t, q, L)
<1> DEFINE p == Tail(q)
           u == IF Head(q).kind \in ServiceStates THEN Head(q).kind ELSE t
<1>1. /\ Len(q) \in Nat \ {0} /\ Len(p) = Len(q) - 1
      /\ \A k \in 1..Len(p) : p[k] = q[k + 1]
      /\ Head(q) = q[1]
  BY HeadTailProperties, LenProperties, EmptySeq
<1>2. \A i \in 1..Len(q) : Barred(t, q, i + 1) => Barred(u, p, i)
  BY BarredTail
<1> HIDE DEF p, u
<1>3. \A i \in Passing(u, p, L) : i \in Nat \ {0} /\ i + 1 \in Passing(t, q, L)
  BY <1>1, <1>2 DEF Passing
<1>4. t # "disabled" => ~Barred(t, q, 1)
  BY DEF Barred
<1> QED
  BY <1>1, <1>3, <1>4 DEF Passing, p, u

-----------------------------------------------------------------------------
(* Without faults. *)

\* A tuner that started is served by one session for good, which is the only one to hold
\* or to have said anything.
CalmInv ==
  /\ \A d \in Tuners : (alive[d] <=> lease[d] # NoSession) /\ ~broken[d] /\ work[d] # Dead
  /\ \A s \in Sessions :
       /\ open[s] \/ dpc[s] # "off" \/ down[s] # <<>> \/ said[s] # "nothing" => Leased(s)
       /\ Leased(s) => open[s]

\* A step that does not concern the state of a chip, its requests or a session.
Aside ==
  /\ UNCHANGED <<request, sent, dpc, ditem, down, said, told, service, lateSent, lateAccepts,
                 lease, alive, broken, open>>
  /\ \A d \in Tuners : work'[d] = Dead => work[d] = Dead

LEMMA CalmSteps ==
  ASSUME TypeInv, CalmInv, [Next]_vars, faults' = 0
  PROVE  /\ faults = 0 /\ ~Fault
         /\ \/ Aside
            \/ \E r \in Requests : QueueRequest(r) \/ CloseRequest(r)
            \/ \E q \in Chips, state \in ServiceStates : SetService(q, state)
            \/ \E s \in Sessions, r \in Requests : Offer(s, r)
            \/ \E s \in Sessions :
                 AssertState(s) \/ LookForRunning(s) \/ NothingToOffer(s) \/ SendRequest(s) \/ MarkRunning(s)
                 \/ ReceiveResult(s) \/ Hear(s) \/ Consider(s)
            \/ \E d \in Tuners, s \in Sessions : Start(d, s)
<1> USE DEF rowVars, dispVars, listVars, wireVars, threadVars, workVars, tunerVars, histVars, boundVars
<1>0. faults \in Nat /\ ~Fault
  BY CalibrationAssumption DEF TypeInv, HistoryOK, Fault
<1>1. ASSUME NEW r \in Requests, QueueRequest(r) \/ CloseRequest(r) PROVE faults = 0
  BY <1>1 DEF QueueRequest, CloseRequest
<1>2. ASSUME NEW q \in Chips, NEW state \in ServiceStates, SetService(q, state) PROVE faults = 0
  BY <1>2 DEF SetService
<1>3. ASSUME NEW s \in Sessions, NEW r \in Requests, Offer(s, r) PROVE faults = 0
  BY <1>3 DEF Offer
<1>4. ASSUME NEW s \in Sessions,
             AssertState(s) \/ LookForRunning(s) \/ NothingToOffer(s) \/ SendRequest(s) \/ MarkRunning(s)
             \/ ReceiveResult(s) \/ Hear(s) \/ Consider(s)
      PROVE  faults = 0
  BY <1>0, <1>4 DEF AssertState, LookForRunning, NothingToOffer, SendRequest, MarkRunning, ReceiveResult, Hear, Consider
<1>5. ASSUME NEW d \in Tuners, NEW s \in Sessions, Start(d, s) PROVE faults = 0
  BY <1>0, <1>5 DEF Start
<1>6. ASSUME NEW s \in Sessions, SendFails(s) PROVE FALSE
  <2>1. dpc[s] = "offered" /\ ~open[s]
    BY <1>0, <1>6 DEF SendFails
  <2> QED
    BY <2>1 DEF CalmInv
<1>7. ASSUME NEW s \in Sessions, DispatcherReturns(s) \/ CloseSockets(s) PROVE FALSE
  BY <1>7 DEF DispatcherReturns, CloseSockets, CalmInv
<1>8. ASSUME NEW s \in Sessions, DropEvent(s) PROVE FALSE
  BY <1>0, <1>8 DEF DropEvent
<1>9. ASSUME NEW d \in Tuners, TunerDies(d) \/ Detach(d) \/ Release(d) PROVE FALSE
  BY <1>0, <1>9 DEF TunerDies, Detach, Release, CalmInv
<1>10. CASE ServerCrash
  BY <1>0, <1>10 DEF ServerCrash
<1>17. ASSUME NEW d \in Tuners, QueueUnannounced(d) \/ ReportFails(d) PROVE FALSE
  BY <1>0, <1>17 DEF QueueUnannounced, ReportFails
<1>11. ASSUME NEW s \in Sessions, ReceiveQueued(s) \/ CreateRow(s) \/ ReceiveRefusal(s)
       PROVE  Aside /\ faults = 0
  BY <1>11 DEF ReceiveQueued, CreateRow, ReceiveRefusal, Aside
<1>12. ASSUME NEW j \in SelfJobs, NEW d \in Tuners, CloseSelfRow(j, d) PROVE Aside /\ faults = 0
  BY <1>12 DEF CloseSelfRow, Aside
<1>13. ASSUME NEW d \in Tuners,
              \/ Accept(d) \/ Tick(d) \/ QueueDrift(d) \/ PumpPlan(d) \/ PumpResult(d)
              \/ PumpFollowUp(d) \/ Attach(d)
       PROVE  Aside /\ faults = 0
  BY <1>13 DEF Accept, Tick, QueueDrift, PumpPlan, PumpResult, PumpFollowUp, Attach, Aside
<1>14. ASSUME NEW d \in Tuners, Begin(d) PROVE Aside /\ faults = 0
  <2>1. Head(jobs[d]) # Dead /\ jobs[d] # <<>>
    BY <1>14, FirstJob, LiveNames DEF Begin, TypeInv
  <2>2. \A e \in Tuners : work'[e] = Dead => work[e] = Dead
    BY <1>14, <2>1 DEF Begin, TypeInv, HeldOK
  <2> QED
    BY <1>14, <2>2 DEF Begin, Aside
<1>15. ASSUME NEW d \in Tuners, NEW outcome \in Finished, NEW drifted \in BOOLEAN,
              Finish(d, outcome, drifted)
       PROVE  Aside /\ faults = 0
  <2>1. \A e \in Tuners : work'[e] = Dead => work[e] = Dead
    BY <1>15, NamesAssumption DEF Finish, TypeInv, HeldOK
  <2> QED
    BY <1>15, <2>1 DEF Finish, Aside
<1>16. ASSUME UNCHANGED vars PROVE Aside /\ faults = 0
  BY <1>16 DEF vars, Aside
<1> QED
  BY <1>0, <1>1, <1>2, <1>3, <1>4, <1>5, <1>6, <1>7, <1>8, <1>9, <1>10, <1>11, <1>12, <1>13,
     <1>14, <1>15, <1>16, <1>17 DEF Next

LEMMA CalmInit == Init => CalmInv
  BY CalibrationAssumption, NamesAssumption DEF Init, CalmInv, Leased

\* No two sessions of a tuner are at work.
LEMMA OneSession ==
  ASSUME CalmInv, NEW s \in Sessions, NEW t \in Sessions, SessionTuner[s] = SessionTuner[t],
         dpc[s] # "off" \/ down[s] # <<>>, dpc[t] # "off" \/ down[t] # <<>>
  PROVE  s = t
  BY DEF CalmInv, Leased

LEMMA CalmStep == TypeInv /\ CalmInv /\ [Next]_vars /\ faults' = 0 => CalmInv'
<1> SUFFICES ASSUME TypeInv, CalmInv, [Next]_vars, faults' = 0 PROVE CalmInv'
  OBVIOUS
<1> USE DEF rowVars, dispVars, listVars, wireVars, threadVars, workVars, tunerVars, histVars, boundVars
<1>0. ~Fault
  BY CalmSteps
<1>a. CASE /\ UNCHANGED <<lease, alive, broken, open, work>>
           /\ \A s \in Sessions :
                dpc'[s] # "off" \/ down'[s] # <<>> \/ said'[s] # "nothing" => Leased(s)
  BY <1>a DEF CalmInv, Leased
<1>1. CASE Aside
  BY <1>1 DEF Aside, CalmInv, Leased
<1>2. ASSUME NEW r \in Requests, QueueRequest(r) \/ CloseRequest(r) PROVE CalmInv'
  BY <1>2, <1>a DEF QueueRequest, CloseRequest, CalmInv
<1>3. ASSUME NEW q \in Chips, NEW state \in ServiceStates, SetService(q, state) PROVE CalmInv'
  BY <1>3, <1>a DEF SetService, CalmInv
<1>4. ASSUME NEW s \in Sessions, NEW r \in Requests, Offer(s, r) PROVE CalmInv'
  <2>1. \A t \in Sessions : dpc'[t] # "off" => dpc[t] # "off"
    BY <1>4 DEF Offer, TypeInv, DispatchersOK
  <2> QED
    BY <1>4, <1>a, <2>1 DEF Offer, CalmInv
<1>5. ASSUME NEW s \in Sessions,
             AssertState(s) \/ LookForRunning(s) \/ NothingToOffer(s) \/ SendRequest(s) \/ MarkRunning(s)
      PROVE  CalmInv'
  <2>1. dpc[s] # "off" /\ UNCHANGED <<lease, alive, broken, open, work>>
    BY <1>5 DEF AssertState, LookForRunning, NothingToOffer, SendRequest, MarkRunning
  <2>2. \A t \in Sessions \ {s} : UNCHANGED <<dpc[t], down[t], said[t]>>
    BY <1>5 DEF AssertState, LookForRunning, NothingToOffer, SendRequest, MarkRunning, TypeInv, DispatchersOK, HeldOK
  <2> QED
    BY <1>a, <2>1, <2>2 DEF CalmInv
<1>6. ASSUME NEW s \in Sessions, ReceiveResult(s) PROVE CalmInv'
  BY <1>6, <1>a DEF ReceiveResult, CalmInv
<1>7. ASSUME NEW s \in Sessions, Hear(s) \/ Consider(s) PROVE CalmInv'
  <2>1. down[s] # <<>> /\ UNCHANGED <<lease, alive, broken, open, work, dpc, said>>
    BY <1>7 DEF Hear, Consider, Served
  <2>2. \A t \in Sessions \ {s} : UNCHANGED down[t]
    BY <1>7 DEF Hear, Consider, TypeInv, HeldOK
  <2> QED
    BY <1>a, <2>1, <2>2 DEF CalmInv
<1>8. ASSUME NEW d \in Tuners, NEW s \in Sessions, Start(d, s) PROVE CalmInv'
  <2>1. /\ ~alive[d] /\ lease[d] = NoSession /\ SessionTuner[s] = d
        /\ alive' = [alive EXCEPT ![d] = TRUE]
        /\ lease' = [lease EXCEPT ![d] = s]
        /\ open' = [open EXCEPT ![s] = TRUE]
        /\ dpc' = [dpc EXCEPT ![s] = "top"]
        /\ UNCHANGED <<work, broken, down, said>>
    BY <1>0, <1>8, CalibrationAssumption DEF Start, CalmInv
  <2>2. /\ alive'[d] /\ lease'[d] = s /\ s # NoSession
        /\ \A e \in Tuners \ {d} : alive'[e] = alive[e] /\ lease'[e] = lease[e]
        /\ open'[s]
        /\ \A t \in Sessions \ {s} : open'[t] = open[t] /\ dpc'[t] = dpc[t]
    BY <2>1, CalibrationAssumption DEF TypeInv, FlagsOK, LinksOK, DispatchersOK
  <2>3. \A t \in Sessions : SessionTuner[t] = d /\ t # s => ~Leased(t) /\ ~Leased(t)'
    BY <2>1, <2>2, CalibrationAssumption DEF Leased
  <2>4. \A t \in Sessions : SessionTuner[t] # d => (Leased(t)' <=> Leased(t))
    BY <2>2, CalibrationAssumption DEF Leased
  <2>5. Leased(s)'
    BY <2>1, <2>2 DEF Leased
  <2>6. \A e \in Tuners : (alive'[e] <=> lease'[e] # NoSession) /\ ~broken'[e] /\ work'[e] # Dead
    BY <2>1, <2>2 DEF CalmInv
  <2>7. \A t \in Sessions :
          /\ open'[t] \/ dpc'[t] # "off" \/ down'[t] # <<>> \/ said'[t] # "nothing" => Leased(t)'
          /\ Leased(t)' => open'[t]
    <3> SUFFICES ASSUME NEW t \in Sessions
                 PROVE  /\ open'[t] \/ dpc'[t] # "off" \/ down'[t] # <<>> \/ said'[t] # "nothing"
                             => Leased(t)'
                        /\ Leased(t)' => open'[t]
      OBVIOUS
    <3>1. CASE t = s
      BY <2>2, <2>5, <3>1
    <3>2. CASE t # s /\ SessionTuner[t] = d
      BY <2>1, <2>2, <2>3, <3>2 DEF CalmInv
    <3>3. CASE SessionTuner[t] # d
      BY <2>1, <2>2, <2>4, <3>3 DEF CalmInv
    <3> QED
      BY <3>1, <3>2, <3>3
  <2> QED
    BY <2>6, <2>7 DEF CalmInv
<1> QED
  BY <1>1, <1>2, <1>3, <1>4, <1>5, <1>6, <1>7, <1>8, CalmSteps

-----------------------------------------------------------------------------
(* Without faults no request is sent twice. *)

OnceInv ==
  /\ \A r \in Requests : request[r] = "pending" /\ sent[r] > 0 =>
       \E s \in Sessions : SessionTuner[s] = RequestTuner[r] /\ dpc[s] = "sent" /\ ditem[s] = Asked(r)
  /\ \A s \in Sessions : dpc[s] = "offered" => sent[ditem[s].of] = 0
  /\ \A s \in Sessions : \A i \in 1..Len(down[s]) :
       down[s][i].kind = "calibrate" => RequestTuner[down[s][i].job.of] = SessionTuner[s]

LEMMA OnceInit == Init => OnceInv
<1> SUFFICES ASSUME Init PROVE OnceInv
  OBVIOUS
<1>1. \A s \in Sessions : Len(down[s]) = 0
  BY EmptySeq DEF Init
<1> QED
  BY <1>1 DEF Init, OnceInv

\* What is on a socket is what was there, with what is put behind it.
LEMMA OrdersAdded ==
  ASSUME HeldOK, NEW s \in Sessions, NEW e \in Orders, NEW q, q = Append(down[s], e),
         NEW i \in 1..Len(q)
  PROVE  q[i] = e \/ (i \in 1..Len(down[s]) /\ q[i] = down[s][i])
<1>1. down[s] \in Seq(Orders)
  BY DEF HeldOK
<1> QED
  BY <1>1, AppendProperties, LenProperties

LEMMA OrdersTaken ==
  ASSUME HeldOK, NEW s \in Sessions, down[s] # <<>>, NEW i \in 1..Len(Tail(down[s]))
  PROVE  i + 1 \in 1..Len(down[s]) /\ Tail(down[s])[i] = down[s][i + 1]
<1>1. down[s] \in Seq(Orders)
  BY DEF HeldOK
<1> QED
  BY <1>1, HeadTailProperties, LenProperties

LEMMA OnceStep == TypeInv /\ CalmInv /\ OnceInv /\ [Next]_vars /\ faults' = 0 => OnceInv'
<1> SUFFICES ASSUME TypeInv, CalmInv, OnceInv, [Next]_vars, faults' = 0 PROVE OnceInv'
  OBVIOUS
<1> USE DEF rowVars, dispVars, listVars, wireVars, threadVars, workVars, tunerVars, histVars, boundVars
<1>0. ~Fault
  BY CalmSteps
<1>a. CASE UNCHANGED <<request, sent, dpc, ditem, down>>
  BY <1>a DEF OnceInv
<1>b. CASE /\ UNCHANGED <<sent, dpc, ditem, down>>
           /\ \A r \in Requests : request'[r] = "pending" => request[r] = "pending" \/ sent[r] = 0
  BY <1>b DEF OnceInv
<1>1. CASE Aside
  BY <1>1, <1>a DEF Aside
<1>2. ASSUME NEW r \in Requests, QueueRequest(r) PROVE OnceInv'
  <2>1. sent[r] = 0
    BY <1>2 DEF QueueRequest, TypeInv, KnownOK, HistoryOK
  <2> QED
    BY <1>2, <1>b, <2>1 DEF QueueRequest, TypeInv, RowsOK
<1>3. ASSUME NEW r \in Requests, CloseRequest(r) PROVE OnceInv'
  BY <1>3, <1>b DEF CloseRequest, TypeInv, RowsOK
<1>4. ASSUME NEW q \in Chips, NEW state \in ServiceStates, SetService(q, state) PROVE OnceInv'
  BY <1>4, <1>a DEF SetService
<1>5. ASSUME NEW s \in Sessions, NEW r \in Requests, Offer(s, r) PROVE OnceInv'
  <2>1. /\ dpc[s] = "found_free" /\ request[r] = "pending" /\ RequestTuner[r] = SessionTuner[s]
        /\ dpc' = [dpc EXCEPT ![s] = "offered"] /\ ditem' = [ditem EXCEPT ![s] = Asked(r)]
        /\ UNCHANGED <<request, sent, down>>
    BY <1>5 DEF Offer, NextRequests, Pending
  <2>2. /\ dpc'[s] = "offered" /\ ditem'[s] = Asked(r)
        /\ \A t \in Sessions \ {s} : dpc'[t] = dpc[t] /\ ditem'[t] = ditem[t]
    BY <2>1 DEF TypeInv, DispatchersOK
  <2>3. sent[r] = 0
    <3> SUFFICES ASSUME sent[r] > 0 PROVE FALSE
      BY DEF TypeInv, HistoryOK
    <3>1. PICK t \in Sessions : SessionTuner[t] = RequestTuner[r] /\ dpc[t] = "sent"
      BY <2>1 DEF OnceInv
    <3> QED
      BY <2>1, <3>1, OneSession
  <2>4. \A t \in Sessions : dpc'[t] = "offered" => sent'[ditem'[t].of] = 0
    BY <2>1, <2>2, <2>3, RequestNames DEF OnceInv
  <2>5. \A p \in Requests : request'[p] = "pending" /\ sent'[p] > 0 =>
          \E t \in Sessions : SessionTuner[t] = RequestTuner[p] /\ dpc'[t] = "sent" /\ ditem'[t] = Asked(p)
    <3> SUFFICES ASSUME NEW p \in Requests, request[p] = "pending", sent[p] > 0
                 PROVE  \E t \in Sessions : /\ SessionTuner[t] = RequestTuner[p]
                                            /\ dpc'[t] = "sent" /\ ditem'[t] = Asked(p)
      BY <2>1
    <3>1. PICK t \in Sessions : /\ SessionTuner[t] = RequestTuner[p]
                                /\ dpc[t] = "sent" /\ ditem[t] = Asked(p)
      BY DEF OnceInv
    <3>2. t # s
      BY <2>1, <3>1
    <3> QED
      BY <2>2, <3>1, <3>2
  <2> QED
    BY <2>1, <2>4, <2>5 DEF OnceInv
<1>6. ASSUME NEW s \in Sessions, AssertState(s) PROVE OnceInv'
  <2>1. /\ dpc[s] = "top" /\ dpc' = [dpc EXCEPT ![s] = "fetch"]
        /\ UNCHANGED <<request, sent, ditem>>
        /\ down' = down \/ down' = [down EXCEPT ![s] = Append(@, [kind |-> service[Chip(s)], job |-> NoJob])]
    BY <1>0, <1>6 DEF AssertState
  <2>2. /\ dpc'[s] = "fetch" /\ \A t \in Sessions \ {s} : dpc'[t] = dpc[t]
    BY <2>1 DEF TypeInv, DispatchersOK
  <2>3. service[Chip(s)] \in ServiceStates
    BY CalibrationAssumption DEF TypeInv, RowsOK, Chip
  <2> DEFINE e == [kind |-> service[Chip(s)], job |-> NoJob]
  <2>4. e \in Orders /\ e.kind # "calibrate"
    BY <2>3 DEF Orders, ServiceStates
  <2> HIDE DEF e
  <2>5. \A t \in Sessions : \A i \in 1..Len(down'[t]) :
          down'[t][i].kind = "calibrate" => RequestTuner[down'[t][i].job.of] = SessionTuner[t]
    <3>1. CASE down' = down
      BY <3>1 DEF OnceInv
    <3>2. CASE down' = [down EXCEPT ![s] = Append(down[s], e)]
      <4> SUFFICES ASSUME NEW t \in Sessions, NEW i \in 1..Len(down'[t]), down'[t][i].kind = "calibrate"
                   PROVE  RequestTuner[down'[t][i].job.of] = SessionTuner[t]
        OBVIOUS
      <4>1. down'[t] = IF t = s THEN Append(down[s], e) ELSE down[t]
        BY <3>2 DEF TypeInv, HeldOK
      <4>2. CASE t = s
        <5>1. i \in 1..Len(down[s]) /\ down'[s][i] = down[s][i]
          BY <2>4, <4>1, <4>2, OrdersAdded DEF TypeInv
        <5> QED
          BY <4>2, <5>1 DEF OnceInv
      <4>3. CASE t # s
        BY <4>1, <4>3 DEF OnceInv
      <4> QED
        BY <4>2, <4>3
    <3> QED
      BY <2>1, <3>1, <3>2 DEF e
  <2> QED
    BY <2>1, <2>2, <2>5 DEF OnceInv
<1>7. ASSUME NEW s \in Sessions, LookForRunning(s) \/ NothingToOffer(s) PROVE OnceInv'
  <2>1. /\ dpc[s] \in {"fetch", "found_free"}
        /\ dpc' = [dpc EXCEPT ![s] = "top"] \/ dpc' = [dpc EXCEPT ![s] = "found_free"]
        /\ UNCHANGED <<request, sent, ditem, down>>
    BY <1>7 DEF LookForRunning, NothingToOffer
  <2>2. /\ dpc'[s] \in {"top", "found_free"} /\ \A t \in Sessions \ {s} : dpc'[t] = dpc[t]
    BY <2>1 DEF TypeInv, DispatchersOK
  <2> QED
    BY <2>1, <2>2 DEF OnceInv
<1>8. ASSUME NEW s \in Sessions, SendRequest(s) PROVE OnceInv'
  <2> DEFINE r == ditem[s].of
             e == [kind |-> "calibrate", job |-> ditem[s]]
  <2>1. /\ dpc[s] = "offered" /\ ditem[s] # NoJob /\ r \in Requests /\ ditem[s] = Asked(r)
        /\ RequestTuner[r] = SessionTuner[s]
        /\ dpc' = [dpc EXCEPT ![s] = "sent"]
        /\ down' = [down EXCEPT ![s] = Append(down[s], e)]
        /\ sent' = [sent EXCEPT ![r] = @ + 1]
        /\ UNCHANGED <<request, ditem>>
    BY <1>8, HeldRequest DEF SendRequest, TypeInv, DispatchersOK, KnownOK
  <2>2. /\ dpc'[s] = "sent" /\ \A t \in Sessions \ {s} : dpc'[t] = dpc[t] /\ down'[t] = down[t]
        /\ down'[s] = Append(down[s], e)
        /\ \A p \in Requests \ {r} : sent'[p] = sent[p]
    BY <2>1 DEF TypeInv, DispatchersOK, HeldOK, HistoryOK
  <2>3. \A p \in Requests : request'[p] = "pending" /\ sent'[p] > 0 =>
          \E t \in Sessions : SessionTuner[t] = RequestTuner[p] /\ dpc'[t] = "sent" /\ ditem'[t] = Asked(p)
    <3> SUFFICES ASSUME NEW p \in Requests, request[p] = "pending", sent'[p] > 0
                 PROVE  \E t \in Sessions : /\ SessionTuner[t] = RequestTuner[p]
                                            /\ dpc'[t] = "sent" /\ ditem'[t] = Asked(p)
      BY <2>1
    <3>1. CASE p = r
      BY <2>1, <2>2, <3>1
    <3>2. CASE p # r
      <4>1. PICK t \in Sessions : /\ SessionTuner[t] = RequestTuner[p]
                                  /\ dpc[t] = "sent" /\ ditem[t] = Asked(p)
        BY <2>2, <3>2 DEF OnceInv
      <4>2. t # s
        BY <2>1, <4>1
      <4> QED
        BY <2>1, <2>2, <4>1, <4>2
    <3> QED
      BY <3>1, <3>2
  <2>4. \A t \in Sessions : dpc'[t] = "offered" => sent'[ditem'[t].of] = 0
    <3> SUFFICES ASSUME NEW t \in Sessions, dpc'[t] = "offered" PROVE sent'[ditem[t].of] = 0
      BY <2>1
    <3>1. t # s /\ dpc[t] = "offered" /\ sent[ditem[t].of] = 0
      BY <2>2 DEF OnceInv
    <3>2. ditem[t] # NoJob /\ ditem[t].of \in Requests /\ RequestTuner[ditem[t].of] = SessionTuner[t]
      BY <3>1, HeldRequest DEF TypeInv, DispatchersOK, KnownOK
    <3>3. ditem[t].of # r
      BY <2>1, <3>1, <3>2, OneSession
    <3> QED
      BY <2>2, <3>1, <3>2, <3>3
  <2>5. \A t \in Sessions : \A i \in 1..Len(down'[t]) :
          down'[t][i].kind = "calibrate" => RequestTuner[down'[t][i].job.of] = SessionTuner[t]
    <3> SUFFICES ASSUME NEW t \in Sessions, NEW i \in 1..Len(down'[t]), down'[t][i].kind = "calibrate"
                 PROVE  RequestTuner[down'[t][i].job.of] = SessionTuner[t]
      OBVIOUS
    <3>1. CASE t # s
      BY <2>2, <3>1 DEF OnceInv
    <3>2. CASE t = s
      <4>1. down[s] \in Seq(Orders)
        BY DEF TypeInv, HeldOK
      <4>2. down'[s][i] = e \/ (i \in 1..Len(down[s]) /\ down'[s][i] = down[s][i])
        <5>1. down[s] \in Seq(Orders \cup {e}) /\ e \in Orders \cup {e}
          BY <4>1, SeqMonotonic
        <5> HIDE DEF e
        <5> QED
          BY <2>2, <3>2, <5>1, AppendProperties, LenProperties
      <4>3. e.job.of = r
        OBVIOUS
      <4> QED
        BY <2>1, <3>2, <4>2, <4>3 DEF OnceInv
    <3> QED
      BY <3>1, <3>2
  <2> QED
    BY <2>3, <2>4, <2>5 DEF OnceInv
<1>9. ASSUME NEW s \in Sessions, MarkRunning(s) PROVE OnceInv'
  <2> DEFINE r == ditem[s].of
  <2>1. /\ dpc[s] = "sent" /\ ditem[s] # NoJob /\ r \in Requests
        /\ request' = [request EXCEPT ![r] = "running"]
        /\ dpc' = [dpc EXCEPT ![s] = "top"] /\ ditem' = [ditem EXCEPT ![s] = NoJob]
        /\ UNCHANGED <<sent, down>>
    BY <1>9, HeldRequest DEF MarkRunning, TypeInv, DispatchersOK
  <2>2. /\ dpc'[s] = "top" /\ request'[r] = "running"
        /\ \A t \in Sessions \ {s} : dpc'[t] = dpc[t] /\ ditem'[t] = ditem[t]
        /\ \A p \in Requests \ {r} : request'[p] = request[p]
    BY <2>1 DEF TypeInv, DispatchersOK, RowsOK
  <2>3. \A p \in Requests : request'[p] = "pending" /\ sent'[p] > 0 =>
          \E t \in Sessions : SessionTuner[t] = RequestTuner[p] /\ dpc'[t] = "sent" /\ ditem'[t] = Asked(p)
    <3> SUFFICES ASSUME NEW p \in Requests, request'[p] = "pending", sent[p] > 0
                 PROVE  \E t \in Sessions : /\ SessionTuner[t] = RequestTuner[p]
                                            /\ dpc'[t] = "sent" /\ ditem'[t] = Asked(p)
      BY <2>1
    <3>1. p # r /\ request[p] = "pending"
      BY <2>2
    <3>2. PICK t \in Sessions : /\ SessionTuner[t] = RequestTuner[p]
                                /\ dpc[t] = "sent" /\ ditem[t] = Asked(p)
      BY <3>1 DEF OnceInv
    <3>3. t # s
      BY <3>1, <3>2, RequestNames
    <3> QED
      BY <2>2, <3>2, <3>3
  <2> QED
    BY <2>1, <2>2, <2>3 DEF OnceInv
<1>10. ASSUME NEW s \in Sessions, ReceiveResult(s) PROVE OnceInv'
  <2>1. UNCHANGED <<sent, dpc, ditem, down>>
    BY <1>10 DEF ReceiveResult
  <2>2. \A r \in Requests : request'[r] = "pending" => request[r] = "pending"
    BY <1>10 DEF ReceiveResult, TypeInv, RowsOK, Finished
  <2> QED
    BY <1>b, <2>1, <2>2
<1>11. ASSUME NEW s \in Sessions, Hear(s) \/ Consider(s) PROVE OnceInv'
  <2>1. /\ down[s] # <<>> /\ UNCHANGED <<request, sent, dpc, ditem>>
        /\ down' = [down EXCEPT ![s] = Tail(@)]
    BY <1>11 DEF Hear, Consider, Served
  <2>2. /\ \A t \in Sessions \ {s} : down'[t] = down[t]
        /\ down'[s] = Tail(down[s])
    BY <2>1 DEF TypeInv, HeldOK
  <2>3. \A t \in Sessions : \A i \in 1..Len(down'[t]) :
          down'[t][i].kind = "calibrate" => RequestTuner[down'[t][i].job.of] = SessionTuner[t]
    BY <2>1, <2>2, OrdersTaken DEF OnceInv, TypeInv
  <2> QED
    BY <2>1, <2>3 DEF OnceInv
<1>12. ASSUME NEW d \in Tuners, NEW s \in Sessions, Start(d, s) PROVE OnceInv'
  <2>1. \/ dpc[s] = "off" /\ dpc' = [dpc EXCEPT ![s] = "top"] /\ UNCHANGED <<request, sent, ditem, down>>
        \/ UNCHANGED <<request, sent, dpc, ditem, down>>
    BY <1>12 DEF Start, Free
  <2>2. CASE UNCHANGED <<request, sent, dpc, ditem, down>>
    BY <2>2, <1>a
  <2>3. CASE dpc[s] = "off" /\ dpc' = [dpc EXCEPT ![s] = "top"] /\ UNCHANGED <<request, sent, ditem, down>>
    <3>1. dpc'[s] = "top" /\ \A t \in Sessions \ {s} : dpc'[t] = dpc[t]
      BY <2>3 DEF TypeInv, DispatchersOK
    <3> QED
      BY <2>3, <3>1 DEF OnceInv
  <2> QED
    BY <2>1, <2>2, <2>3
<1> QED
  BY <1>1, <1>2, <1>3, <1>4, <1>5, <1>6, <1>7, <1>8, <1>9, <1>10, <1>11, <1>12, CalmSteps

-----------------------------------------------------------------------------
(* A switched-off chip lets one request through. *)

\* The requests on a socket that were sent late and that their tuner would take.
Late(s) == Passing(told[SessionTuner[s]], down[s], lateSent)

\* There is one at most, or one was taken; a session with one has told the tuner since, or
\* will before it looks for another.
LateOf(s) ==
  /\ said[s] = "disabled" => Barred(told[SessionTuner[s]], down[s], Len(down[s]) + 1)
  /\ \A i, k \in Late(s) : i = k
  /\ Leased(s) /\ lateAccepts[SessionTuner[s]] > 0 => Late(s) = {}
  /\ Late(s) # {} \/ (Leased(s) /\ lateAccepts[SessionTuner[s]] > 0)
       => said[s] = "disabled" \/ dpc[s] \in {"sent", "top"}

LateInv ==
  /\ \A r \in lateSent : service[ChipOf[RequestTuner[r]]] = "disabled"
  /\ \A d \in Tuners : lateAccepts[d] > 0 => service[ChipOf[d]] = "disabled" /\ lateAccepts[d] = 1
  /\ \A s \in Sessions : LateOf(s)

\* A session that holds and said nothing has no such request.
LEMMA SilentLate ==
  ASSUME NEW s \in Sessions, down'[s] = <<>>, said'[s] = "nothing",
         dpc'[s] = "top" \/ ~Leased(s)'
  PROVE  LateOf(s)'
<1>1. Len(down'[s]) = 0
  BY EmptySeq
<1>2. Late(s)' = {}
  BY <1>1 DEF Late, Passing
<1> QED
  BY <1>2 DEF LateOf

LEMMA LateInit == Init => LateInv
<1> SUFFICES ASSUME Init PROVE LateInv
  OBVIOUS
<1>1. \A s \in Sessions : LateOf(s)
  <2> SUFFICES ASSUME NEW s \in Sessions PROVE LateOf(s)
    OBVIOUS
  <2>1. down[s] = <<>> /\ said[s] = "nothing" /\ ~Leased(s)
    BY CalibrationAssumption DEF Init, Leased
  <2>2. Len(down[s]) = 0
    BY <2>1, EmptySeq
  <2>3. Late(s) = {}
    BY <2>2 DEF Late, Passing
  <2> QED
    BY <2>1, <2>3 DEF LateOf
<1> QED
  BY <1>1 DEF Init, LateInv

\* What is on a socket, and late, and the chip it is for.
LEMMA LateOrders ==
  ASSUME TypeInv, OnceInv, NEW s \in Sessions, NEW i \in 1..Len(down[s]), down[s][i].kind = "calibrate"
  PROVE  /\ down[s][i].job.of \in Requests /\ sent[down[s][i].job.of] > 0
         /\ RequestTuner[down[s][i].job.of] = SessionTuner[s]
<1>1. down[s][i] \in Orders
  BY ElementOfSeq DEF TypeInv, HeldOK
<1>2. down[s][i].job \in SentJobs
  BY <1>1 DEF Orders, ServiceStates
<1> QED
  BY <1>2, LiveNames DEF OnceInv

\* Other sessions than the one that steps.
LEMMA LateFrame ==
  ASSUME NEW s \in Sessions, LateOf(s), SessionTuner[s] \in Tuners,
         said'[s] = said[s], down'[s] = down[s], dpc'[s] = dpc[s], Leased(s)' <=> Leased(s),
         told'[SessionTuner[s]] = told[SessionTuner[s]],
         lateAccepts'[SessionTuner[s]] = lateAccepts[SessionTuner[s]],
         \A i \in 1..Len(down[s]) : down[s][i].kind = "calibrate" /\ down[s][i].job.of \in lateSent'
           => down[s][i].job.of \in lateSent
  PROVE  LateOf(s)'
<1>1. Late(s)' \subseteq Late(s)
  BY DEF Late, Passing
<1> QED
  BY <1>1 DEF LateOf

\* A session whose dispatcher moves on: not to the next request before it told the state.
LEMMA LateMoves ==
  ASSUME NEW s \in Sessions, LateOf(s), SessionTuner[s] \in Tuners,
         said'[s] = said[s], down'[s] = down[s], Leased(s)' <=> Leased(s),
         told'[SessionTuner[s]] = told[SessionTuner[s]],
         lateAccepts'[SessionTuner[s]] = lateAccepts[SessionTuner[s]],
         lateSent' = lateSent,
         dpc'[s] \in {"sent", "top"} \/ dpc[s] \notin {"sent", "top"}
  PROVE  LateOf(s)'
<1>1. Late(s)' = Late(s)
  BY DEF Late, Passing
<1> QED
  BY <1>1 DEF LateOf

\* A request that is sent passes only if it is the first since the chip was switched off.
LEMMA LateSend ==
  ASSUME TypeInv, CalmInv, OnceInv, LateInv, NEW s \in Sessions, SendRequest(s)
  PROVE  LateInv'
<1> USE DEF wireVars, threadVars, workVars, tunerVars, boundVars
<1> DEFINE r == ditem[s].of
           d == SessionTuner[s]
           e == [kind |-> "calibrate", job |-> ditem[s]]
<1>1. /\ dpc[s] = "offered" /\ ditem[s] # NoJob /\ r \in Requests /\ ditem[s] = Asked(r)
      /\ RequestTuner[r] = d /\ d \in Tuners
      /\ sent[r] = 0
      /\ UNCHANGED <<told, said, service, lease, lateAccepts>>
  BY HeldRequest, CalibrationAssumption DEF SendRequest, TypeInv, DispatchersOK, KnownOK, OnceInv
<1>2. /\ dpc'[s] = "sent" /\ \A t \in Sessions \ {s} : dpc'[t] = dpc[t] /\ down'[t] = down[t]
      /\ down'[s] = Append(down[s], e)
      /\ lateSent' = IF service[ChipOf[d]] = "disabled" THEN lateSent \cup {r} ELSE lateSent
  BY DEF SendRequest, TypeInv, DispatchersOK, HeldOK, Chip
<1>3. \A p \in lateSent' : service'[ChipOf[RequestTuner[p]]] = "disabled"
  BY <1>1, <1>2 DEF LateInv
<1>4. \A x \in Tuners : lateAccepts'[x] > 0 => service'[ChipOf[x]] = "disabled" /\ lateAccepts'[x] = 1
  BY <1>1 DEF LateInv
<1>5. \A t \in Sessions : \A i \in 1..Len(down[t]) :
        down[t][i].kind = "calibrate" /\ down[t][i].job.of \in lateSent'
          => down[t][i].job.of \in lateSent
  <2> SUFFICES ASSUME NEW t \in Sessions, NEW i \in 1..Len(down[t]), down[t][i].kind = "calibrate"
               PROVE  down[t][i].job.of # r
    BY <1>2
  <2>1. sent[down[t][i].job.of] > 0
    BY LateOrders
  <2> QED
    BY <1>1, <2>1
<1>6. \A t \in Sessions : Leased(t)' <=> Leased(t)
  BY <1>1 DEF Leased
<1>7. ASSUME NEW t \in Sessions, t # s PROVE LateOf(t)'
  <2>1. LateOf(t) /\ SessionTuner[t] \in Tuners
    BY CalibrationAssumption DEF LateInv
  <2>2. /\ said'[t] = said[t] /\ down'[t] = down[t] /\ dpc'[t] = dpc[t] /\ (Leased(t)' <=> Leased(t))
        /\ told'[SessionTuner[t]] = told[SessionTuner[t]]
        /\ lateAccepts'[SessionTuner[t]] = lateAccepts[SessionTuner[t]]
    BY <1>1, <1>2, <1>6, <1>7
  <2>3. \A i \in 1..Len(down[t]) : down[t][i].kind = "calibrate" /\ down[t][i].job.of \in lateSent'
           => down[t][i].job.of \in lateSent
    BY <1>5
  <2> QED
    BY <2>1, <2>2, <2>3, LateFrame
<1>8. LateOf(s)'
  <2> DEFINE S == Orders \cup {e}
             t == told[d]
             q == down[s]
  <2>1. q \in Seq(S) /\ e \in S /\ e.kind = "calibrate" /\ e.kind \notin ServiceStates /\ e.job.of = r
    <3>1. q \in Seq(S)
      BY SeqMonotonic DEF TypeInv, HeldOK
    <3> QED
      BY <3>1 DEF ServiceStates
  <2>2. /\ down'[s] = Append(q, e) /\ told'[d] = t /\ Late(s) = Passing(t, q, lateSent)
        /\ Late(s)' = Passing(t, Append(q, e), lateSent')
        /\ said'[s] = said[s]
    BY <1>1, <1>2 DEF Late
  <2>3. LateOf(s)
    BY DEF LateInv
  <2>4. \A i \in Passing(t, q, lateSent') : i \in Late(s)
    BY <1>5, <2>2 DEF Passing
  <2> HIDE DEF S, e, q, t
  <2>5. Len(q) \in Nat /\ Len(Append(q, e)) = Len(q) + 1
    BY <2>1, AppendProperties, LenProperties
  <2>6. \A i \in Late(s)' :
          \/ i \in Late(s)
          \/ i = Len(q) + 1 /\ ~Barred(t, q, Len(q) + 1) /\ r \in lateSent'
    BY <2>1, <2>2, <2>4, PassingAppend
  <2>7. said'[s] = "disabled" => Barred(t, Append(q, e), Len(Append(q, e)) + 1)
    <3> SUFFICES ASSUME said[s] = "disabled" PROVE Barred(t, Append(q, e), Len(q) + 2)
      BY <2>2, <2>5
    <3>1. Barred(t, q, Len(q) + 1)
      BY <2>3 DEF LateOf, t, q
    <3> QED
      BY <2>1, <3>1, BarredAppend
  <2>8. CASE said[s] = "disabled"
    <3>1. Barred(t, q, Len(q) + 1)
      BY <2>3, <2>8 DEF LateOf, t, q
    <3>2. Late(s)' \subseteq Late(s)
      BY <2>6, <3>1
    <3> QED
      BY <1>1, <1>2, <1>6, <2>2, <2>3, <2>7, <2>8, <3>2 DEF LateOf, t
  <2>9. CASE said[s] # "disabled"
    <3>1. Late(s) = {} /\ ~(Leased(s) /\ lateAccepts[d] > 0)
      BY <1>1, <2>3, <2>9 DEF LateOf
    <3>2. \A i, k \in Late(s)' : i = k
      BY <2>6, <3>1
    <3>3. ~(Leased(s)' /\ lateAccepts'[d] > 0)
      BY <1>1, <1>6, <3>1
    <3> QED
      BY <1>2, <2>2, <2>7, <3>2, <3>3 DEF LateOf, t
  <2> QED
    BY <2>8, <2>9
<1> QED
  BY <1>3, <1>4, <1>7, <1>8 DEF LateInv

\* A dispatcher that goes on to look for a request has told the tuner the state of the chip.
LEMMA LateAssert ==
  ASSUME TypeInv, CalmInv, OnceInv, LateInv, ~Fault, NEW s \in Sessions, AssertState(s)
  PROVE  LateInv'
<1> USE DEF tunerVars, threadVars, workVars, histVars
<1> DEFINE d == SessionTuner[s]
           e == [kind |-> service[Chip(s)], job |-> NoJob]
<1>1. /\ d \in Tuners /\ dpc[s] = "top" /\ Chip(s) = ChipOf[d] /\ service[Chip(s)] \in ServiceStates
      /\ UNCHANGED <<told, service, lease, lateSent, lateAccepts>>
  BY CalibrationAssumption DEF AssertState, TypeInv, RowsOK, Chip
<1>2. /\ \A t \in Sessions \ {s} : dpc'[t] = dpc[t] /\ down'[t] = down[t] /\ said'[t] = said[t]
      /\ said'[s] = service[Chip(s)]
      /\ \/ down'[s] = down[s] /\ said'[s] = said[s]
         \/ down'[s] = Append(down[s], e)
  BY DEF AssertState, TypeInv, DispatchersOK, HeldOK
<1>3. /\ \A p \in lateSent' : service'[ChipOf[RequestTuner[p]]] = "disabled"
      /\ \A x \in Tuners : lateAccepts'[x] > 0 => service'[ChipOf[x]] = "disabled" /\ lateAccepts'[x] = 1
  BY <1>1 DEF LateInv
<1>4. \A t \in Sessions : Leased(t)' <=> Leased(t)
  BY <1>1 DEF Leased
<1>5. ASSUME NEW t \in Sessions, t # s PROVE LateOf(t)'
  <2>1. LateOf(t) /\ SessionTuner[t] \in Tuners
    BY CalibrationAssumption DEF LateInv
  <2>2. /\ said'[t] = said[t] /\ down'[t] = down[t] /\ dpc'[t] = dpc[t] /\ (Leased(t)' <=> Leased(t))
        /\ told'[SessionTuner[t]] = told[SessionTuner[t]]
        /\ lateAccepts'[SessionTuner[t]] = lateAccepts[SessionTuner[t]]
    BY <1>1, <1>2, <1>4, <1>5
  <2> QED
    BY <1>1, <2>1, <2>2, LateFrame
<1>6. LateOf(s)'
  <2> DEFINE t == told[d]
             q == down[s]
  <2>1. LateOf(s) /\ q \in Seq(Orders) /\ e \in Orders /\ Len(q) \in Nat
    BY <1>1, LenProperties DEF LateInv, TypeInv, HeldOK, Orders
  <2>2. e.kind = service[Chip(s)] /\ e.kind # "calibrate"
    BY <1>1 DEF ServiceStates
  <2>3. Late(s) = Passing(t, q, lateSent) /\ Late(s)' = Passing(t, down'[s], lateSent) /\ told'[d] = t
    BY <1>1 DEF Late
  <2> HIDE DEF e, q, t
  <2>4. Late(s)' \subseteq Late(s)
    <3>1. CASE down'[s] = q
      BY <2>3, <3>1
    <3>2. CASE down'[s] = Append(q, e)
      <4>1. \A i \in Passing(t, Append(q, e), lateSent) : i \in Passing(t, q, lateSent)
        BY <2>1, <2>2, PassingAppend
      <4> QED
        BY <2>3, <3>2, <4>1
    <3> QED
      BY <1>2, <3>1, <3>2 DEF q, e
  <2>5. said'[s] = "disabled" => Barred(t, down'[s], Len(down'[s]) + 1)
    <3>1. CASE down'[s] = down[s] /\ said'[s] = said[s]
      BY <2>1, <3>1 DEF LateOf, t
    <3>2. CASE down'[s] = Append(q, e)
      <4>1. e.kind = "disabled" => Barred(t, Append(q, e), Len(q) + 2)
        BY <2>1, BarredAppend
      <4>2. Len(Append(q, e)) = Len(q) + 1
        BY <2>1, AppendProperties
      <4>3. Len(Append(q, e)) + 1 = Len(q) + 2
        BY <2>1, <4>2
      <4> QED
        BY <1>2, <2>2, <3>2, <4>1, <4>3
    <3> QED
      BY <1>2, <3>1, <3>2 DEF q
  <2>6. ASSUME Late(s)' # {} \/ (Leased(s)' /\ lateAccepts'[d] > 0)
        PROVE  said'[s] = "disabled"
    <3>1. CASE lateAccepts'[d] > 0
      BY <1>1, <1>2, <1>3, <3>1
    <3>2. CASE Late(s)' # {}
      <4>1. PICK i \in Late(s) : TRUE
        BY <2>4, <3>2
      <4>2. i \in 1..Len(down[s]) /\ down[s][i].kind = "calibrate" /\ down[s][i].job.of \in lateSent
        BY <4>1, <2>3 DEF Passing, q
      <4>3. RequestTuner[down[s][i].job.of] = d
        BY <4>2, LateOrders
      <4> QED
        BY <1>1, <1>2, <4>2, <4>3 DEF LateInv
    <3> QED
      BY <2>6, <3>1, <3>2
  <2>7. /\ \A i, k \in Late(s)' : i = k
        /\ Leased(s)' /\ lateAccepts'[d] > 0 => Late(s)' = {}
    BY <1>1, <1>4, <2>1, <2>4 DEF LateOf
  <2> QED
    BY <2>3, <2>5, <2>6, <2>7 DEF LateOf, t
<1> QED
  BY <1>3, <1>5, <1>6 DEF LateInv

\* A tuner takes what is first on its socket.  It takes a late request only if none of
\* the others passes.
LEMMA LateTaken ==
  ASSUME TypeInv, CalmInv, OnceInv, LateInv, NEW s \in Sessions, Hear(s) \/ Consider(s)
  PROVE  LateInv'
<1> USE DEF wireVars, threadVars, workVars, tunerVars
<1> DEFINE d == SessionTuner[s]
           q == down[s]
           t == told[d]
           u == IF Head(q).kind \in ServiceStates THEN Head(q).kind ELSE t
<1>1. /\ d \in Tuners /\ q # <<>> /\ Leased(s) /\ down'[s] = Tail(q) /\ told'[d] = u
      /\ UNCHANGED <<service, lease, said, dpc, lateSent>>
      /\ \A e \in Tuners \ {d} : told'[e] = told[e] /\ lateAccepts'[e] = lateAccepts[e]
      /\ \A x \in Sessions \ {s} : down'[x] = down[x]
  <2>1. d \in Tuners /\ q # <<>> /\ Leased(s)
    BY CalibrationAssumption DEF Hear, Consider, Served, CalmInv
  <2>2. "calibrate" \notin ServiceStates
    BY DEF ServiceStates
  <2>3. down' = [down EXCEPT ![s] = Tail(@)] /\ UNCHANGED <<service, lease, said, dpc, lateSent>>
    BY DEF Hear, Consider, dispVars, histVars
  <2>4. down'[s] = Tail(q) /\ \A x \in Sessions \ {s} : down'[x] = down[x]
    BY <2>3 DEF TypeInv, HeldOK
  <2>5. told'[d] = u /\ \A e \in Tuners \ {d} : told'[e] = told[e]
    BY <2>1, <2>2 DEF Hear, Consider, TypeInv, FlagsOK
  <2>6. \A e \in Tuners \ {d} : lateAccepts'[e] = lateAccepts[e]
    BY DEF Hear, Consider, TypeInv, HistoryOK, histVars
  <2> HIDE DEF u
  <2> QED
    BY <2>1, <2>3, <2>4, <2>5, <2>6
<1>2. \/ lateAccepts'[d] = lateAccepts[d]
      \/ /\ lateAccepts'[d] = lateAccepts[d] + 1
         /\ Head(q).kind = "calibrate" /\ Head(q).job.of \in lateSent /\ t # "disabled"
  BY <1>1 DEF Hear, Consider, TypeInv, HistoryOK, histVars
<1>3. /\ q \in Seq(Orders) /\ Len(q) \in Nat \ {0} /\ Len(Tail(q)) = Len(q) - 1
      /\ Head(q) = q[1]
  BY <1>1, HeadTailProperties, LenProperties, EmptySeq DEF TypeInv, HeldOK
<1>4. Late(s) = Passing(t, q, lateSent) /\ Late(s)' = Passing(u, Tail(q), lateSent) /\ LateOf(s)
  BY <1>1 DEF Late, LateInv
<1>5. lateAccepts[d] \in Nat /\ (Leased(s)' <=> Leased(s))
  BY <1>1 DEF TypeInv, HistoryOK, Leased
<1>6. lateAccepts'[d] = lateAccepts[d] + 1 =>
        /\ 1 \in Late(s) /\ lateAccepts[d] = 0
        /\ service[ChipOf[d]] = "disabled"
  <2> SUFFICES ASSUME lateAccepts'[d] = lateAccepts[d] + 1
               PROVE  /\ 1 \in Late(s) /\ lateAccepts[d] = 0
                      /\ service[ChipOf[d]] = "disabled"
    OBVIOUS
  <2>1. Head(q).kind = "calibrate" /\ Head(q).job.of \in lateSent /\ t # "disabled"
    BY <1>2, <1>5
  <2>2. 1 \in Late(s)
    BY <1>1, <1>3, <1>4, <2>1, PassingTail
  <2>3. RequestTuner[Head(q).job.of] = d
    BY <1>3, <2>1, LateOrders
  <2>4. lateAccepts[d] = 0
    BY <1>1, <1>4, <1>5, <2>2 DEF LateOf
  <2> QED
    BY <2>1, <2>2, <2>3, <2>4 DEF LateInv
<1>7. \A i \in Late(s)' : i \in Nat \ {0} /\ i + 1 \in Late(s)
  BY <1>1, <1>3, <1>4, PassingTail
<1>8. /\ \A p \in lateSent' : service'[ChipOf[RequestTuner[p]]] = "disabled"
      /\ \A x \in Tuners : lateAccepts'[x] > 0 => service'[ChipOf[x]] = "disabled" /\ lateAccepts'[x] = 1
  <2>1. \A p \in lateSent' : service'[ChipOf[RequestTuner[p]]] = "disabled"
    BY <1>1 DEF LateInv
  <2>2. ASSUME NEW x \in Tuners, lateAccepts'[x] > 0
        PROVE  service'[ChipOf[x]] = "disabled" /\ lateAccepts'[x] = 1
    <3>1. CASE lateAccepts'[x] = lateAccepts[x]
      BY <1>1, <2>2, <3>1 DEF LateInv
    <3>2. CASE x = d /\ lateAccepts'[d] = lateAccepts[d] + 1
      BY <1>1, <1>6, <3>2
    <3> QED
      BY <1>1, <1>2, <3>1, <3>2
  <2> QED
    BY <2>1, <2>2
<1>9. ASSUME NEW x \in Sessions, x # s PROVE LateOf(x)'
  <2>1. LateOf(x) /\ SessionTuner[x] \in Tuners
    BY CalibrationAssumption DEF LateInv
  <2>2. /\ said'[x] = said[x] /\ down'[x] = down[x] /\ dpc'[x] = dpc[x]
        /\ (Leased(x)' <=> Leased(x))
    BY <1>1, <1>9 DEF Leased
  <2>3. CASE SessionTuner[x] = d
    <3>1. ~Leased(x)
      BY <1>1, <1>9, <2>3 DEF Leased
    <3>2. down'[x] = <<>> /\ said'[x] = "nothing" /\ ~Leased(x)'
      BY <2>2, <3>1 DEF CalmInv
    <3> QED
      BY <3>2, SilentLate
  <2>4. CASE SessionTuner[x] # d
    <3>1. /\ told'[SessionTuner[x]] = told[SessionTuner[x]]
          /\ lateAccepts'[SessionTuner[x]] = lateAccepts[SessionTuner[x]]
      BY <1>1, <2>1, <2>4
    <3> QED
      BY <1>1, <2>1, <2>2, <3>1, LateFrame
  <2> QED
    BY <2>3, <2>4
<1>10. LateOf(s)'
  <2>1. said'[s] = "disabled" => Barred(u, Tail(q), Len(Tail(q)) + 1)
    <3> SUFFICES ASSUME said[s] = "disabled" PROVE Barred(u, Tail(q), Len(Tail(q)) + 1)
      BY <1>1
    <3>1. Barred(t, q, Len(q) + 1)
      BY <1>4 DEF LateOf
    <3>2. Len(q) \in 1..Len(q) /\ Len(Tail(q)) + 1 = Len(q)
      BY <1>3
    <3>3. Barred(u, Tail(q), Len(q))
      BY <1>1, <1>3, <3>1, <3>2, BarredTail
    <3> QED
      BY <3>2, <3>3
  <2> HIDE DEF u, t, q
  <2>2. \A i, k \in Late(s)' : i = k
    <3> SUFFICES ASSUME NEW i \in Late(s)', NEW k \in Late(s)' PROVE i = k
      OBVIOUS
    <3>1. i \in Nat /\ k \in Nat /\ i + 1 = k + 1
      BY <1>4, <1>7 DEF LateOf
    <3> QED
      BY <3>1
  <2>3. Leased(s)' /\ lateAccepts'[d] > 0 => Late(s)' = {}
    <3>1. CASE lateAccepts'[d] = lateAccepts[d]
      BY <1>1, <1>4, <1>7, <3>1 DEF LateOf
    <3>2. CASE lateAccepts'[d] = lateAccepts[d] + 1
      <4> SUFFICES ASSUME NEW i \in Late(s)' PROVE FALSE
        OBVIOUS
      <4>1. i \in Nat \ {0} /\ i + 1 = 1
        BY <1>4, <1>6, <1>7, <3>2 DEF LateOf
      <4> QED
        BY <4>1
    <3> QED
      BY <1>2, <3>1, <3>2
  <2>4. Late(s)' # {} \/ (Leased(s)' /\ lateAccepts'[d] > 0)
          => Late(s) # {} \/ (Leased(s) /\ lateAccepts[d] > 0)
    BY <1>2, <1>5, <1>6, <1>7
  <2>5. Late(s)' # {} \/ (Leased(s)' /\ lateAccepts'[d] > 0)
          => said'[s] = "disabled" \/ dpc'[s] \in {"sent", "top"}
    BY <1>1, <1>4, <2>4 DEF LateOf
  <2> QED
    BY <1>1, <2>1, <2>2, <2>3, <2>5 DEF LateOf
<1> QED
  BY <1>8, <1>9, <1>10 DEF LateInv

\* A chip whose service state changes starts afresh.
LEMMA LateService ==
  ASSUME TypeInv, OnceInv, LateInv, NEW q \in Chips, NEW state \in ServiceStates, SetService(q, state)
  PROVE  LateInv'
<1> USE DEF dispVars, wireVars, threadVars, tunerVars
<1>1. /\ lateSent' = {r \in lateSent : ChipOf[RequestTuner[r]] # q}
      /\ \A d \in Tuners : lateAccepts'[d] = IF ChipOf[d] = q THEN 0 ELSE lateAccepts[d]
      /\ \A c \in Chips \ {q} : service'[c] = service[c]
      /\ UNCHANGED <<lease, said, dpc, down, told>>
  BY DEF SetService, TypeInv, RowsOK
<1>2. \A d \in Tuners : ChipOf[d] \in Chips
  BY CalibrationAssumption
<1>3. \A p \in lateSent' : service'[ChipOf[RequestTuner[p]]] = "disabled"
  <2>1. \A p \in lateSent : RequestTuner[p] \in Tuners
    BY CalibrationAssumption DEF TypeInv, HistoryOK
  <2> QED
    BY <1>1, <1>2, <2>1 DEF LateInv
<1>4. \A x \in Tuners : lateAccepts'[x] > 0 => service'[ChipOf[x]] = "disabled" /\ lateAccepts'[x] = 1
  BY <1>1, <1>2 DEF LateInv
<1>5. ASSUME NEW x \in Sessions PROVE LateOf(x)'
  <2>1. LateOf(x) /\ SessionTuner[x] \in Tuners
    BY CalibrationAssumption DEF LateInv
  <2>2. Leased(x)' <=> Leased(x)
    BY <1>1 DEF Leased
  <2>3. CASE Chip(x) # q
    BY <1>1, <2>1, <2>2, <2>3, LateFrame DEF Chip
  <2>4. CASE Chip(x) = q
    <3>1. Late(x)' = {}
      <4> SUFFICES ASSUME NEW i \in Late(x)' PROVE FALSE
        OBVIOUS
      <4>1. i \in 1..Len(down[x]) /\ down[x][i].kind = "calibrate" /\ down[x][i].job.of \in lateSent'
        BY <1>1 DEF Late, Passing
      <4>2. RequestTuner[down[x][i].job.of] = SessionTuner[x]
        BY <4>1, LateOrders
      <4> QED
        BY <1>1, <2>4, <4>1, <4>2 DEF Chip
    <3>2. lateAccepts'[SessionTuner[x]] = 0
      BY <1>1, <2>1, <2>4 DEF Chip
    <3>3. said'[x] = "disabled" =>
            Barred(told'[SessionTuner[x]], down'[x], Len(down'[x]) + 1)
      BY <1>1, <2>1 DEF LateOf
    <3> QED
      BY <3>1, <3>2, <3>3 DEF LateOf
  <2> QED
    BY <2>3, <2>4
<1> QED
  BY <1>3, <1>4, <1>5 DEF LateInv

\* The session that begins has nothing on its socket.
LEMMA LateStart ==
  ASSUME TypeInv, CalmInv, LateInv, ~Fault, NEW d \in Tuners, NEW s \in Sessions, Start(d, s)
  PROVE  LateInv'
<1> USE DEF rowVars, dispVars, threadVars, histVars
<1>1. /\ ~alive[d] /\ lease[d] = NoSession /\ SessionTuner[s] = d
      /\ lease' = [lease EXCEPT ![d] = s]
      /\ dpc' = [dpc EXCEPT ![s] = "top"]
      /\ UNCHANGED <<service, down, said, told, lateSent, lateAccepts>>
  BY CalibrationAssumption DEF Start, CalmInv
<1>2. /\ lease'[d] = s /\ (\A e \in Tuners \ {d} : lease'[e] = lease[e])
      /\ dpc'[s] = "top" /\ \A x \in Sessions \ {s} : dpc'[x] = dpc[x]
  BY <1>1 DEF TypeInv, LinksOK, DispatchersOK
<1>3. ASSUME NEW x \in Sessions PROVE LateOf(x)'
  <2>1. LateOf(x) /\ SessionTuner[x] \in Tuners
    BY CalibrationAssumption DEF LateInv
  <2>2. CASE SessionTuner[x] = d
    <3>1. down'[x] = <<>> /\ said'[x] = "nothing"
      BY <1>1, <2>2, CalibrationAssumption DEF CalmInv, Leased
    <3>2. dpc'[x] = "top" \/ ~Leased(x)'
      BY <1>2, <2>2 DEF Leased
    <3> QED
      BY <3>1, <3>2, SilentLate
  <2>3. CASE SessionTuner[x] # d
    <3>1. /\ said'[x] = said[x] /\ down'[x] = down[x] /\ dpc'[x] = dpc[x]
          /\ (Leased(x)' <=> Leased(x))
      BY <1>1, <1>2, <2>1, <2>3 DEF Leased
    <3> QED
      BY <1>1, <2>1, <3>1, LateFrame
  <2> QED
    BY <2>2, <2>3
<1> QED
  BY <1>1, <1>3 DEF LateInv

\* Steps that change neither the wire nor what is late.
LEMMA LateAside ==
  ASSUME LateInv, UNCHANGED <<down, said, told, service, lateSent, lateAccepts, lease, dpc>>
  PROVE  LateInv'
<1>1. ASSUME NEW x \in Sessions PROVE LateOf(x)'
  <2>1. LateOf(x) /\ SessionTuner[x] \in Tuners /\ (Leased(x)' <=> Leased(x))
    BY CalibrationAssumption DEF LateInv, Leased
  <2> QED
    BY <2>1, LateFrame
<1> QED
  BY <1>1 DEF LateInv

LEMMA LateTurns ==
  ASSUME TypeInv, LateInv, NEW s \in Sessions,
         (\E r \in Requests : Offer(s, r)) \/ LookForRunning(s) \/ NothingToOffer(s) \/ MarkRunning(s)
  PROVE  LateInv'
<1> USE DEF dispVars, wireVars, threadVars, tunerVars, histVars
<1>1. /\ UNCHANGED <<down, said, told, service, lateSent, lateAccepts, lease>>
      /\ dpc'[s] \in {"sent", "top"} \/ dpc[s] \notin {"sent", "top"}
      /\ \A x \in Sessions \ {s} : dpc'[x] = dpc[x]
  BY DEF Offer, LookForRunning, NothingToOffer, MarkRunning, TypeInv, DispatchersOK
<1>2. ASSUME NEW x \in Sessions PROVE LateOf(x)'
  <2>1. LateOf(x) /\ SessionTuner[x] \in Tuners /\ (Leased(x)' <=> Leased(x))
    BY <1>1, CalibrationAssumption DEF LateInv, Leased
  <2>2. CASE x = s
    BY <1>1, <2>1, <2>2, LateMoves
  <2>3. CASE x # s
    BY <1>1, <2>1, <2>3, LateFrame
  <2> QED
    BY <2>2, <2>3
<1> QED
  BY <1>1, <1>2 DEF LateInv

LEMMA LateStep == TypeInv /\ CalmInv /\ OnceInv /\ LateInv /\ [Next]_vars /\ faults' = 0 => LateInv'
<1> SUFFICES ASSUME TypeInv, CalmInv, OnceInv, LateInv, [Next]_vars, faults' = 0 PROVE LateInv'
  OBVIOUS
<1>0. ~Fault
  BY CalmSteps
<1>1. CASE Aside
  BY <1>1, LateAside DEF Aside
<1>2. ASSUME NEW r \in Requests, QueueRequest(r) \/ CloseRequest(r) PROVE LateInv'
  BY <1>2, LateAside
     DEF QueueRequest, CloseRequest, dispVars, wireVars, threadVars, tunerVars, histVars
<1>3. ASSUME NEW s \in Sessions, ReceiveResult(s) PROVE LateInv'
  BY <1>3, LateAside DEF ReceiveResult, dispVars, wireVars, threadVars, histVars
<1>4. ASSUME NEW q \in Chips, NEW state \in ServiceStates, SetService(q, state) PROVE LateInv'
  BY <1>4, LateService
<1>5. ASSUME NEW s \in Sessions, NEW r \in Requests, Offer(s, r) PROVE LateInv'
  BY <1>5, LateTurns
<1>6. ASSUME NEW s \in Sessions, LookForRunning(s) \/ NothingToOffer(s) \/ MarkRunning(s) PROVE LateInv'
  BY <1>6, LateTurns
<1>7. ASSUME NEW s \in Sessions, AssertState(s) PROVE LateInv'
  BY <1>0, <1>7, LateAssert
<1>8. ASSUME NEW s \in Sessions, SendRequest(s) PROVE LateInv'
  BY <1>8, LateSend
<1>9. ASSUME NEW s \in Sessions, Hear(s) \/ Consider(s) PROVE LateInv'
  BY <1>9, LateTaken
<1>10. ASSUME NEW d \in Tuners, NEW s \in Sessions, Start(d, s) PROVE LateInv'
  BY <1>0, <1>10, LateStart
<1> QED
  BY <1>1, <1>2, <1>3, <1>4, <1>5, <1>6, <1>7, <1>8, <1>9, <1>10, CalmSteps

\* Faults are only counted up.
LEMMA FaultsOnlyGrow == ASSUME TypeInv, [Next]_vars, faults' = 0 PROVE faults = 0
<1>0. faults \in Nat
  BY CalibrationAssumption DEF TypeInv, HistoryOK
<1>1. \/ UNCHANGED faults
      \/ faults' = faults + 1
  BY DEF Next, vars, rowVars, boundVars, Fault, QueueRequest, CloseRequest, CloseSelfRow, SetService,
     Offer, AssertState, LookForRunning, NothingToOffer, SendRequest, SendFails, MarkRunning, DispatcherReturns,
     ReceiveQueued, CreateRow, ReceiveResult, ReceiveRefusal, DropEvent, Hear, Consider,
     CloseSockets, Accept, Tick, QueueDrift, PumpPlan, PumpResult, PumpFollowUp, QueueUnannounced, ReportFails,
     Begin, Finish,
     Attach, TunerDies, Detach, Release, Start, ServerCrash
<1> QED
  BY <1>0, <1>1

SwitchInv == faults = 0 => CalmInv /\ OnceInv /\ LateInv

LEMMA SwitchStep == TypeInv /\ SwitchInv /\ [Next]_vars => SwitchInv'
<1> SUFFICES ASSUME TypeInv, SwitchInv, [Next]_vars, faults' = 0
             PROVE  CalmInv' /\ OnceInv' /\ LateInv'
  BY DEF SwitchInv
<1>1. faults = 0
  BY FaultsOnlyGrow
<1>2. CalmInv /\ OnceInv /\ LateInv
  BY <1>1 DEF SwitchInv
<1> QED
  BY <1>2, CalmStep, OnceStep, LateStep

\* Without faults a tuner accepts at most one request that was sent after its chip had
\* been switched off: the dispatcher tells it the state before it looks for another
\* request (FetchNextCalibration, which still offers them, and handle_event).
THEOREM SwitchOffHolds == Spec => []SwitchOffLetsOneThrough
<1>1. Init => SwitchInv
  BY CalmInit, OnceInit, LateInit DEF SwitchInv
<1>2. TypeInv /\ SwitchInv => SwitchOffLetsOneThrough
  <2> SUFFICES ASSUME TypeInv, SwitchInv, faults = 0, NEW d \in Tuners PROVE lateAccepts[d] <= 1
    BY DEF SwitchOffLetsOneThrough
  <2>1. lateAccepts[d] \in Nat /\ (lateAccepts[d] > 0 => lateAccepts[d] = 1)
    BY DEF TypeInv, HistoryOK, SwitchInv, LateInv
  <2> QED
    BY <2>1
<1> QED
  BY <1>1, <1>2, TypeInit, TypeStep, SwitchStep, PTL DEF Spec
=============================================================================
