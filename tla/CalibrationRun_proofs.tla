------------------------ MODULE CalibrationRun_proofs ------------------------
(***************************************************************************)
(* Theorems about CalibrationRun, for every catalog of routines, every     *)
(* chip and every value of the bounds.  The first three hold of any list   *)
(* of nodes; the last three rest on what the orders of a catalog come to   *)
(* (WalkAssumption, BenchmarkAssumption).                                  *)
(***************************************************************************)
EXTENDS CalibrationRun, SequenceTheorems, WellFoundedInduction, TLAPS

-----------------------------------------------------------------------------
(* The report and the ledger of a walk. *)

LogOK == \E S : log \in Seq(S)
LedgerOK == ledger = [produced |-> ledger.produced, unsatisfied |-> ledger.unsatisfied]

Failed(e) == e.outcome \in {"refused", "failed"}

\* A node is answered for: what is logged of it, and what its success or failure
\* leaves in the ledger.
Logs(n, t, outcome, culprits) == log' = Append(log, Entry(n, t, outcome, culprits))

LEMMA LogEnds ==
  ASSUME LogOK
  PROVE  Len(log) \in Nat /\ DOMAIN log = 1..Len(log)
<1>1. PICK S : log \in Seq(S)
  BY DEF LogOK
<1> QED
  BY <1>1, LenProperties

LEMMA LogGrows ==
  ASSUME LogOK, NEW e, log' = Append(log, e)
  PROVE  /\ LogOK'
         /\ Len(log) \in Nat /\ Len(log') = Len(log) + 1
         /\ DOMAIN log = 1..Len(log) /\ DOMAIN log' = 1..(Len(log) + 1)
         /\ \A i \in 1..Len(log) : log'[i] = log[i]
         /\ log'[Len(log) + 1] = e
<1>1. PICK S : log \in Seq(S)
  BY DEF LogOK
<1> DEFINE T == S \cup {e}
<1>2. log \in Seq(T) /\ e \in T
  BY <1>1, SeqMonotonic
<1> HIDE DEF T
<1>3. /\ Append(log, e) \in Seq(T) /\ Len(Append(log, e)) = Len(log) + 1
      /\ \A i \in 1..Len(log) : Append(log, e)[i] = log[i]
      /\ Append(log, e)[Len(log) + 1] = e
  BY <1>2, AppendProperties
<1>4. Len(log) \in Nat /\ DOMAIN log = 1..Len(log)
  BY <1>2, LenProperties
<1>5. DOMAIN Append(log, e) = 1..Len(Append(log, e))
  BY <1>3, LenProperties
<1> QED
  BY <1>3, <1>4, <1>5 DEF LogOK

\* What a step may do to the report: begin another, answer for a node, or neither.
Begins == log' = <<>> /\ ledger' \in {ledger, EmptyLedger}
          /\ (phase' = "walking" => ledger' = EmptyLedger)
Leaves == UNCHANGED <<log, ledger>> /\ (phase' = "walking" => phase = "walking")

LEMMA Moves ==
  ASSUME [Next]_vars
  PROVE  \/ Begins \/ Leaves
         \/ \E n, t : Skip(n, t) \/ Measure(n, t) \/ Republish(n, t) \/ Fail(n, t)
<1>1. ASSUME NEW m, NEW order, NEW qubits, NEW edges, Start(m, order, qubits, edges)
      PROVE  Begins
  BY <1>1 DEF Start, Begins
<1>2. Calibrate => Begins
  BY <1>1 DEF Calibrate
<1>3. CheckFidelity => Begins
  BY <1>1 DEF CheckFidelity
<1>4. ASSUME NEW asked, NEW order, Recalibrate(asked, order) PROVE Begins
  <2>1. CASE order = <<>>
    BY <1>4, <2>1 DEF Recalibrate, NothingToRecalibrate, Begins
  <2>2. CASE order # <<>>
    BY <1>1, <1>4, <2>2 DEF Recalibrate
  <2> QED
    BY <2>1, <2>2
<1>5. Restart => Begins
  BY DEF Restart, Begins
<1>6. Finish \/ Save \/ SaveFails \/ Record \/ RecordFails => Leaves
  BY DEF Finish, Save, SaveFails, Record, RecordFails, Leaves
<1>7. UNCHANGED vars => Leaves
  BY DEF vars, Leaves
<1>8. Walk => \E n, t : Skip(n, t) \/ Measure(n, t) \/ Republish(n, t) \/ Fail(n, t)
  BY DEF Walk
<1> QED
  BY <1>2, <1>3, <1>4, <1>5, <1>6, <1>7, <1>8 DEF Next

\* A node that is skipped has culprits, any other has none; a success is credited to
\* the parameters the routine updates, a failure held against them.
LEMMA SkipMoves ==
  ASSUME NEW n, NEW t, LedgerOK, Skip(n, t)
  PROVE  /\ phase = "walking" /\ phase' = "walking" /\ Culprits(n, t) # {}
         /\ Logs(n, t, "skipped", Culprits(n, t))
         /\ ledger' = [produced |-> ledger.produced,
                       unsatisfied |-> ledger.unsatisfied \cup (Updates(n, t) \X Culprits(n, t))]
  BY DEF Skip, AtNode, Logs, Unsatisfied, LedgerOK

LEMMA SuccessMoves ==
  ASSUME NEW n, NEW t, LedgerOK, Measure(n, t) \/ Republish(n, t)
  PROVE  /\ phase = "walking" /\ phase' = "walking" /\ Culprits(n, t) = {}
         /\ Logs(n, t, "measured", {}) \/ Logs(n, t, "republished", {})
         /\ ledger' = [produced |-> ledger.produced \cup Updates(n, t),
                       unsatisfied |-> ledger.unsatisfied]
  BY DEF Measure, Republish, AtNode, Logs, Produced, LedgerOK

LEMMA FailMoves ==
  ASSUME NEW n, NEW t, LedgerOK, Fail(n, t)
  PROVE  /\ phase = "walking" /\ phase' = "walking" /\ Culprits(n, t) = {}
         /\ Logs(n, t, "refused", {}) \/ Logs(n, t, "failed", {})
         /\ ledger' = [produced |-> ledger.produced,
                       unsatisfied |-> ledger.unsatisfied \cup (Updates(n, t) \X {n})]
  BY DEF Fail, AtNode, Logs, Unsatisfied, LedgerOK

LEMMA EntryFields ==
  \A n, t, outcome, culprits :
    LET e == Entry(n, t, outcome, culprits)
    IN  e.routine = n /\ e.target = t /\ e.outcome = outcome /\ e.culprits = culprits
  BY DEF Entry

ReportOK == LogOK /\ LedgerOK

LEMMA ReportInit == Init => ReportOK
<1>1. <<>> \in Seq({})
  BY EmptySeq
<1> QED
  BY <1>1 DEF Init, ReportOK, LogOK, LedgerOK, EmptyLedger

LEMMA ReportStep == ReportOK /\ [Next]_vars => ReportOK'
<1> SUFFICES ASSUME ReportOK, [Next]_vars PROVE ReportOK'
  OBVIOUS
<1> USE DEF ReportOK
<1>1. CASE Begins
  <2>1. <<>> \in Seq({})
    BY EmptySeq
  <2> QED
    BY <1>1, <2>1 DEF Begins, LogOK, LedgerOK, EmptyLedger
<1>2. CASE Leaves
  BY <1>2 DEF Leaves, LogOK, LedgerOK
<1>3. ASSUME NEW n, NEW t, Skip(n, t) \/ Measure(n, t) \/ Republish(n, t) \/ Fail(n, t)
      PROVE  ReportOK'
  <2>1. LogOK'
    BY <1>3, LogGrows, SkipMoves, SuccessMoves, FailMoves DEF Logs
  <2>2. LedgerOK'
    BY <1>3, SkipMoves, SuccessMoves, FailMoves DEF LedgerOK
  <2> QED
    BY <2>1, <2>2
<1> QED
  BY <1>1, <1>2, <1>3, Moves

-----------------------------------------------------------------------------
(* Blame. *)

\* Whoever the ledger blames failed in this walk.
BlameInv ==
  /\ SkipsNameAFailure
  /\ phase = "walking" => \A u \in ledger.unsatisfied :
                            \E j \in DOMAIN log : log[j].routine = u[2] /\ Failed(log[j])

LEMMA BlameStep == ReportOK /\ BlameInv /\ [Next]_vars => BlameInv'
<1> SUFFICES ASSUME ReportOK, BlameInv, [Next]_vars PROVE BlameInv'
  OBVIOUS
<1>0. LogOK /\ LedgerOK
  BY DEF ReportOK
<1>1. CASE Begins
  <2>1. DOMAIN log' = {}
    BY <1>1 DEF Begins
  <2> QED
    BY <1>1, <2>1 DEF Begins, EmptyLedger, BlameInv, SkipsNameAFailure
<1>2. CASE Leaves
  BY <1>2 DEF Leaves, BlameInv, SkipsNameAFailure
<1>3. ASSUME NEW n, NEW t, NEW outcome, NEW culprits, NEW blamed, phase = "walking",
             Logs(n, t, outcome, culprits), culprits \subseteq {u[2] : u \in ledger.unsatisfied},
             \A u \in ledger'.unsatisfied :
               u \in ledger.unsatisfied \/ u[2] \in culprits
                 \/ (u[2] = n /\ outcome \in {"refused", "failed"})
      PROVE  BlameInv'
  <2> DEFINE e == Entry(n, t, outcome, culprits)
  <2>1. /\ Len(log) \in Nat /\ DOMAIN log = 1..Len(log) /\ DOMAIN log' = 1..(Len(log) + 1)
        /\ \A i \in 1..Len(log) : log'[i] = log[i]
        /\ log'[Len(log) + 1] = e
    BY <1>0, <1>3, LogGrows DEF Logs
  <2>2. e.routine = n /\ e.outcome = outcome /\ e.culprits = culprits
    BY EntryFields
  <2> HIDE DEF e
  <2>3. \A c \in culprits : \E j \in 1..Len(log) : log[j].routine = c /\ Failed(log[j])
    BY <1>3, <2>1 DEF BlameInv
  <2>4. SkipsNameAFailure'
    <3> SUFFICES ASSUME NEW i \in 1..(Len(log) + 1), NEW c \in log'[i].culprits
                 PROVE  \E j \in 1..(i - 1) :
                          log'[j].routine = c /\ log'[j].outcome \in {"refused", "failed"}
      BY <2>1 DEF SkipsNameAFailure
    <3>1. CASE i = Len(log) + 1
      BY <2>1, <2>2, <2>3, <3>1 DEF Failed
    <3>2. CASE i \in 1..Len(log)
      <4>1. PICK j \in 1..(i - 1) :
              log[j].routine = c /\ log[j].outcome \in {"refused", "failed"}
        BY <2>1, <3>2 DEF BlameInv, SkipsNameAFailure
      <4> QED
        BY <2>1, <3>2, <4>1
    <3> QED
      BY <2>1, <3>1, <3>2
  <2>5. ASSUME NEW u \in ledger'.unsatisfied
        PROVE  \E j \in DOMAIN log' : log'[j].routine = u[2] /\ Failed(log'[j])
    <3>1. CASE u \in ledger.unsatisfied \/ u[2] \in culprits
      <4>1. PICK j \in 1..Len(log) : log[j].routine = u[2] /\ Failed(log[j])
        BY <1>3, <2>1, <2>3, <3>1 DEF BlameInv
      <4> QED
        BY <2>1, <4>1
    <3>2. CASE u[2] = n /\ outcome \in {"refused", "failed"}
      BY <2>1, <2>2, <3>2 DEF Failed
    <3> QED
      BY <1>3, <3>1, <3>2
  <2> QED
    BY <2>4, <2>5 DEF BlameInv
<1>4. ASSUME NEW n, NEW t, Skip(n, t) PROVE BlameInv'
  <2>1. Culprits(n, t) \subseteq {u[2] : u \in ledger.unsatisfied}
    BY DEF Culprits
  <2>2. \A u \in ledger'.unsatisfied : u \in ledger.unsatisfied \/ u[2] \in Culprits(n, t)
    BY <1>0, <1>4, SkipMoves
  <2> QED
    BY <1>0, <1>3, <1>4, <2>1, <2>2, SkipMoves
<1>5. ASSUME NEW n, NEW t, Measure(n, t) \/ Republish(n, t) PROVE BlameInv'
  BY <1>0, <1>3, <1>5, SuccessMoves
<1>6. ASSUME NEW n, NEW t, Fail(n, t) PROVE BlameInv'
  BY <1>0, <1>3, <1>6, FailMoves
<1> QED
  BY <1>1, <1>2, <1>4, <1>5, <1>6, Moves

\* What a skip blames did fail, earlier in the same walk, however many skipped
\* routines the blame was handed through, whatever the catalog and the order.
THEOREM SkipsNameAFailureHolds == Spec => []SkipsNameAFailure
<1>1. Init => BlameInv
  BY DEF Init, BlameInv, SkipsNameAFailure, EmptyLedger
<1>2. BlameInv => SkipsNameAFailure
  BY DEF BlameInv
<1> QED
  BY <1>1, <1>2, ReportInit, ReportStep, BlameStep, PTL DEF Spec

-----------------------------------------------------------------------------
(* What a measurement rests on. *)

\* The ledger and the report agree: what it calls produced some success updates, and
\* what a failed or skipped node was to update it holds against somebody.
LedgerInv ==
  /\ \A p \in ledger.produced :
       \E k \in DOMAIN log : Succeeded(log[k]) /\ p \in Updates(log[k].routine, log[k].target)
  /\ \A j \in DOMAIN log : ~Succeeded(log[j]) =>
       \A p \in Updates(log[j].routine, log[j].target) : \E u \in ledger.unsatisfied : u[1] = p

RefusalInv == NothingMeasuresOnARefusal /\ (phase = "walking" => LedgerInv)

\* A node that is run reads nothing that is held against somebody and was not produced.
LEMMA RunsOnProduced ==
  ASSUME NEW n, NEW t, Culprits(n, t) = {}, NEW p \in Reads(n, t),
         NEW u \in ledger.unsatisfied, u[1] = p
  PROVE  p \in ledger.produced
<1> SUFFICES ASSUME p \notin ledger.produced PROVE u[2] \in Culprits(n, t)
  OBVIOUS
<1> QED
  BY DEF Culprits

LEMMA RefusalStep == ReportOK /\ RefusalInv /\ [Next]_vars => RefusalInv'
<1> SUFFICES ASSUME ReportOK, RefusalInv, [Next]_vars PROVE RefusalInv'
  OBVIOUS
<1>0. LogOK /\ LedgerOK
  BY DEF ReportOK
<1>1. CASE Begins
  <2>1. DOMAIN log' = {}
    BY <1>1 DEF Begins
  <2>2. NothingMeasuresOnARefusal'
    BY <2>1 DEF NothingMeasuresOnARefusal
  <2>3. phase' = "walking" => LedgerInv'
    BY <1>1, <2>1 DEF Begins, EmptyLedger, LedgerInv
  <2> QED
    BY <2>2, <2>3 DEF RefusalInv
<1>2. CASE Leaves
  BY <1>2 DEF Leaves, RefusalInv, NothingMeasuresOnARefusal, LedgerInv, Ran
<1>3. ASSUME NEW n, NEW t, NEW outcome, NEW culprits, phase = "walking",
             Logs(n, t, outcome, culprits),
             ledger.unsatisfied \subseteq ledger'.unsatisfied,
             outcome = "skipped" \/ Culprits(n, t) = {},
             IF outcome \in {"measured", "republished"}
             THEN ledger'.produced = ledger.produced \cup Updates(n, t)
             ELSE /\ ledger'.produced = ledger.produced
                  /\ \A p \in Updates(n, t) : \E u \in ledger'.unsatisfied : u[1] = p
      PROVE  RefusalInv'
  <2> DEFINE e == Entry(n, t, outcome, culprits)
  <2>1. /\ Len(log) \in Nat /\ DOMAIN log = 1..Len(log) /\ DOMAIN log' = 1..(Len(log) + 1)
        /\ \A i \in 1..Len(log) : log'[i] = log[i]
        /\ log'[Len(log) + 1] = e
    BY <1>0, <1>3, LogGrows DEF Logs
  <2>2. /\ e.routine = n /\ e.target = t /\ e.outcome = outcome
        /\ Succeeded(e) <=> outcome \in {"measured", "republished"}
    BY EntryFields DEF Succeeded
  <2> HIDE DEF e
  <2>3. LedgerInv
    BY <1>3 DEF RefusalInv
  <2>4. LedgerInv'
    <3>1. ASSUME NEW p \in ledger'.produced
          PROVE  \E k \in DOMAIN log' :
                   Succeeded(log'[k]) /\ p \in Updates(log'[k].routine, log'[k].target)
      <4>1. CASE p \in ledger.produced
        <5>1. PICK k \in DOMAIN log :
                Succeeded(log[k]) /\ p \in Updates(log[k].routine, log[k].target)
          BY <2>3, <4>1 DEF LedgerInv
        <5>2. k \in DOMAIN log' /\ log'[k] = log[k]
          BY <2>1, <5>1
        <5> QED
          BY <5>1, <5>2
      <4>2. CASE Succeeded(e) /\ p \in Updates(n, t)
        <5>1. Len(log) + 1 \in DOMAIN log'
          BY <2>1
        <5> QED
          BY <2>1, <2>2, <4>2, <5>1
      <4> QED
        BY <1>3, <2>2, <4>1, <4>2
    <3>2. ASSUME NEW j \in DOMAIN log', ~Succeeded(log'[j]),
                 NEW p \in Updates(log'[j].routine, log'[j].target)
          PROVE  \E u \in ledger'.unsatisfied : u[1] = p
      <4>1. CASE j = Len(log) + 1
        BY <1>3, <2>1, <2>2, <3>2, <4>1
      <4>2. CASE j \in DOMAIN log
        <5>1. log'[j] = log[j]
          BY <2>1, <4>2
        <5>2. \E u \in ledger.unsatisfied : u[1] = p
          BY <2>3, <3>2, <4>2, <5>1 DEF LedgerInv
        <5> QED
          BY <1>3, <5>2
      <4> QED
        BY <2>1, <4>1, <4>2
    <3> QED
      BY <3>1, <3>2 DEF LedgerInv
  <2>5. NothingMeasuresOnARefusal'
    <3> SUFFICES ASSUME NEW j \in DOMAIN log', ~Succeeded(log'[j]),
                        NEW p \in Updates(log'[j].routine, log'[j].target),
                        NEW i \in DOMAIN log', log'[i].outcome # "skipped", i > j,
                        p \in Reads(log'[i].routine, log'[i].target)
                 PROVE  \E k \in 1..(i - 1) :
                          Succeeded(log'[k]) /\ p \in Updates(log'[k].routine, log'[k].target)
      BY DEF NothingMeasuresOnARefusal, Ran
    <3>1. j \in DOMAIN log /\ log'[j] = log[j]
      BY <2>1
    <3>2. CASE i = Len(log) + 1
      <4>1. p \in Reads(n, t) /\ Culprits(n, t) = {}
        BY <1>3, <2>1, <2>2, <3>2
      <4>2. PICK u \in ledger.unsatisfied : u[1] = p
        BY <2>3, <3>1 DEF LedgerInv
      <4>3. p \in ledger.produced
        BY <4>1, <4>2, RunsOnProduced
      <4>4. PICK k \in DOMAIN log : Succeeded(log[k]) /\ p \in Updates(log[k].routine, log[k].target)
        BY <2>3, <4>3 DEF LedgerInv
      <4>5. k \in 1..(i - 1) /\ log'[k] = log[k]
        BY <2>1, <3>2, <4>4
      <4> QED
        BY <4>4, <4>5
    <3>3. CASE i \in DOMAIN log
      <4>1. log'[i] = log[i]
        BY <2>1, <3>3
      <4>2. PICK k \in 1..(i - 1) : Succeeded(log[k]) /\ p \in Updates(log[k].routine, log[k].target)
        BY <3>1, <3>3, <4>1 DEF RefusalInv, NothingMeasuresOnARefusal, Ran
      <4>3. log'[k] = log[k]
        BY <2>1, <3>3, <4>2
      <4> QED
        BY <4>2, <4>3
    <3> QED
      BY <2>1, <3>2, <3>3
  <2> QED
    BY <2>4, <2>5 DEF RefusalInv
<1>4. ASSUME NEW n, NEW t, Skip(n, t) PROVE RefusalInv'
  <2>1. \A p \in Updates(n, t) : \E u \in ledger'.unsatisfied : u[1] = p
    <3> SUFFICES ASSUME NEW p \in Updates(n, t) PROVE \E u \in ledger'.unsatisfied : u[1] = p
      OBVIOUS
    <3>1. PICK c : c \in Culprits(n, t)
      BY <1>0, <1>4, SkipMoves
    <3>2. <<p, c>> \in ledger'.unsatisfied /\ <<p, c>>[1] = p
      BY <1>0, <1>4, <3>1, SkipMoves
    <3> QED
      BY <3>2
  <2>2. /\ ledger.unsatisfied \subseteq ledger'.unsatisfied
        /\ ledger'.produced = ledger.produced
    BY <1>0, <1>4, SkipMoves
  <2> QED
    BY <1>0, <1>3, <1>4, <2>1, <2>2, SkipMoves
<1>5. ASSUME NEW n, NEW t, Measure(n, t) \/ Republish(n, t) PROVE RefusalInv'
  <2>1. /\ ledger'.unsatisfied = ledger.unsatisfied
        /\ ledger'.produced = ledger.produced \cup Updates(n, t)
    BY <1>0, <1>5, SuccessMoves
  <2> QED
    BY <1>0, <1>3, <1>5, <2>1, SuccessMoves
<1>6. ASSUME NEW n, NEW t, Fail(n, t) PROVE RefusalInv'
  <2>1. /\ ledger'.unsatisfied = ledger.unsatisfied \cup (Updates(n, t) \X {n})
        /\ ledger'.produced = ledger.produced
    BY <1>0, <1>6, FailMoves
  <2>2. ASSUME NEW p \in Updates(n, t) PROVE \E u \in ledger'.unsatisfied : u[1] = p
    <3>1. <<p, n>> \in ledger'.unsatisfied /\ <<p, n>>[1] = p
      BY <2>1
    <3> QED
      BY <3>1
  <2> QED
    BY <1>0, <1>3, <1>6, <2>1, <2>2, FailMoves
<1> QED
  BY <1>1, <1>2, <1>4, <1>5, <1>6, Moves

\* No routine runs on a parameter whose producers all failed or were skipped earlier
\* in the walk: the ledger, which the guard reads, keeps up with the report.
THEOREM NothingMeasuresOnARefusalHolds == Spec => []NothingMeasuresOnARefusal
<1>1. Init => RefusalInv
  BY DEF Init, RefusalInv, NothingMeasuresOnARefusal, LedgerInv, EmptyLedger
<1>2. RefusalInv => NothingMeasuresOnARefusal
  BY DEF RefusalInv
<1> QED
  BY <1>1, <1>2, ReportInit, ReportStep, RefusalStep, PTL DEF Spec

-----------------------------------------------------------------------------
(* The two files. *)

\* A set of numbers that is bounded and not empty has a greatest one.
LEMMA GreatestOf ==
  ASSUME NEW n \in Nat, NEW S \in SUBSET (1..n), S # {}
  PROVE  Max(S) \in S
<1> DEFINE T == {n - x : x \in S}
           R == OpToRel(<, Nat)
<1>1. T \subseteq Nat /\ T # {}
  <2> HIDE DEF R
  <2>1. \A x \in S : x \in 1..n /\ n - x \in Nat
    OBVIOUS
  <2>2. \E x \in S : TRUE
    OBVIOUS
  <2> QED
    BY <2>1, <2>2
<1>2. PICK m \in T : \A y \in T : <<y, m>> \notin R
  <2>1. IsWellFoundedOn(R, Nat)
    BY NatLessThanWellFounded
  <2> HIDE DEF T, R
  <2> QED
    BY <1>1, <2>1, WFMin
<1>3. \A y \in T : ~ (y < m)
  BY <1>1, <1>2 DEF OpToRel
<1>4. PICK x \in S : m = n - x
  BY <1>2
<1>5. \A y \in S : x >= y
  BY <1>3, <1>4
<1> QED
  BY <1>4, <1>5 DEF Max

\* Of these routines a record promises that the value recorded was written: they do
\* not hand back a prior, and write where they say they update.
Promises(n) == ~ Routine[n].republishes /\ n # "readout_discrimination"

\* Values are known by the run they were written in, none of them by a later one.
ValuesOK ==
  /\ run \in Nat
  /\ device = [p \in Params |-> device[p]] /\ file = [p \in Params |-> file[p]]
  /\ \A p \in Params : device[p].run \in 0..run /\ file[p].run \in 0..run

\* What this walk measured is in the device, and in the file once that is saved ...
Measured(p) ==
  \E i \in DOMAIN log : /\ Succeeded(log[i]) /\ Promises(log[i].routine)
                        /\ p \in Updates(log[i].routine, log[i].target)
MeasuredInv ==
  /\ phase \in {"walking", "saving", "recording"} =>
       \A p \in Params : Measured(p) => device[p].run = run
  /\ phase = "recording" => \A p \in Params : Measured(p) => file[p].run = run

\* ... and what is on record is no newer than either.
RecordInv ==
  /\ provenance = [p \in Params |-> provenance[p]]
  /\ \A p \in Params : provenance[p] # None =>
       /\ provenance[p].run \in 0..run
       /\ Promises(provenance[p].by) =>
            device[p].run >= provenance[p].run /\ file[p].run >= provenance[p].run

FilesInv == ValuesOK /\ MeasuredInv /\ RecordInv

LEMMA FilesInit == Init => FilesInv
<1> SUFFICES ASSUME Init PROVE FilesInv
  OBVIOUS
<1>1. ValuesOK
  BY DEF Init, ValuesOK, Given
<1>2. MeasuredInv /\ RecordInv
  BY DEF Init, MeasuredInv, RecordInv
<1> QED
  BY <1>1, <1>2 DEF FilesInv

\* A run begins, or the driver is restarted: what is in memory is what it was or what
\* is in the file.
LEMMA FilesBegin ==
  ASSUME FilesInv, run' \in {run, run + 1}, device' \in {device, file},
         UNCHANGED <<file, provenance>>, log' = <<>>
  PROVE  FilesInv'
<1>1. ValuesOK'
  BY DEF FilesInv, ValuesOK
<1>2. DOMAIN log' = {}
  OBVIOUS
<1>3. MeasuredInv'
  BY <1>2 DEF MeasuredInv, Measured
<1>4. RecordInv'
  BY DEF FilesInv, ValuesOK, RecordInv
<1> QED
  BY <1>1, <1>3, <1>4 DEF FilesInv

\* A node writes some parameters in the name of this run.
LEMMA FilesWrite ==
  ASSUME ReportOK, FilesInv, phase = "walking", phase' = "walking",
         UNCHANGED <<run, file, provenance>>,
         NEW n, NEW t, NEW outcome, NEW culprits, Logs(n, t, outcome, culprits),
         NEW written, device' = [p \in Params |-> device'[p]],
         \A p \in Params : device'[p].run = IF p \in written THEN run ELSE device[p].run,
         outcome \in {"measured", "republished"} /\ Promises(n)
           => Updates(n, t) \cap Params \subseteq written
  PROVE  FilesInv'
<1>1. ValuesOK'
  BY DEF FilesInv, ValuesOK
<1>2. MeasuredInv'
  <2> DEFINE e == Entry(n, t, outcome, culprits)
  <2>1. /\ Len(log) \in Nat /\ DOMAIN log = 1..Len(log) /\ DOMAIN log' = 1..(Len(log) + 1)
        /\ \A i \in 1..Len(log) : log'[i] = log[i]
        /\ log'[Len(log) + 1] = e
    BY LogGrows DEF Logs, ReportOK
  <2>2. /\ e.routine = n /\ e.target = t
        /\ Succeeded(e) <=> outcome \in {"measured", "republished"}
    BY EntryFields DEF Succeeded
  <2> HIDE DEF e
  <2> SUFFICES ASSUME NEW p \in Params, Measured(p)' PROVE device'[p].run = run
    BY DEF MeasuredInv
  <2>3. PICK i \in DOMAIN log' : /\ Succeeded(log'[i]) /\ Promises(log'[i].routine)
                                 /\ p \in Updates(log'[i].routine, log'[i].target)
    BY DEF Measured
  <2>4. CASE i = Len(log) + 1
    BY <2>1, <2>2, <2>3, <2>4
  <2>5. CASE i \in DOMAIN log
    <3>1. Measured(p)
      BY <2>1, <2>3, <2>5 DEF Measured
    <3> QED
      BY <3>1 DEF FilesInv, MeasuredInv
  <2> QED
    BY <2>1, <2>4, <2>5
<1>3. RecordInv'
  BY DEF FilesInv, ValuesOK, RecordInv
<1> QED
  BY <1>1, <1>2, <1>3 DEF FilesInv

LEMMA FilesStep == ReportOK /\ FilesInv /\ [Next]_vars => FilesInv'
<1> SUFFICES ASSUME ReportOK, FilesInv, [Next]_vars PROVE FilesInv'
  OBVIOUS
<1>1. ASSUME NEW m, NEW order, NEW qubits, NEW edges, Start(m, order, qubits, edges)
      PROVE  FilesInv'
  BY <1>1, FilesBegin DEF Start
<1>2. ASSUME NEW asked, NEW order, Recalibrate(asked, order) PROVE FilesInv'
  <2>1. CASE order = <<>>
    BY <1>2, <2>1, FilesBegin DEF Recalibrate, NothingToRecalibrate
  <2>2. CASE order # <<>>
    BY <1>1, <1>2, <2>2 DEF Recalibrate
  <2> QED
    BY <2>1, <2>2
<1>3. CASE Restart
  BY <1>3, FilesBegin DEF Restart
<1>4. ASSUME NEW n, NEW t, Skip(n, t) PROVE FilesInv'
  <2>1. /\ phase = "walking" /\ phase' = "walking" /\ UNCHANGED <<run, file, provenance, device>>
        /\ Logs(n, t, "skipped", Culprits(n, t))
    BY <1>4 DEF Skip, AtNode, Logs
  <2>2. device' = [p \in Params |-> device'[p]]
    BY <2>1 DEF FilesInv, ValuesOK
  <2> DEFINE nothing == {}
  <2>3. \A p \in Params : device'[p].run = IF p \in nothing THEN run ELSE device[p].run
    BY <2>1
  <2>4. "skipped" \notin {"measured", "republished"}
    OBVIOUS
  <2> HIDE DEF nothing
  <2> QED
    BY <2>1, <2>2, <2>3, <2>4, FilesWrite
<1>5. ASSUME NEW n, NEW t, Measure(n, t) PROVE FilesInv'
  <2>1. /\ phase = "walking" /\ phase' = "walking" /\ UNCHANGED <<run, file, provenance>>
        /\ Logs(n, t, "measured", {}) /\ device' = Write(Written(n, t), n, "measured")
    BY <1>5 DEF Measure, AtNode, Logs
  <2>2. Promises(n) => Written(n, t) = Updates(n, t) \cap Params
    BY DEF Promises, Written
  <2>3. Promises(n) => Updates(n, t) \cap Params \subseteq Written(n, t)
    BY <2>2
  <2>4. /\ device' = [p \in Params |-> device'[p]]
        /\ \A p \in Params : device'[p].run = IF p \in Written(n, t) THEN run ELSE device[p].run
    BY <2>1 DEF Write
  <2> QED
    BY <2>1, <2>3, <2>4, FilesWrite
<1>6. ASSUME NEW n, NEW t, Republish(n, t) PROVE FilesInv'
  <2>1. /\ phase = "walking" /\ phase' = "walking" /\ UNCHANGED <<run, file, provenance, device>>
        /\ Logs(n, t, "republished", {}) /\ ~Promises(n)
    BY <1>6 DEF Republish, AtNode, Logs, Promises
  <2>2. device' = [p \in Params |-> device'[p]]
    BY <2>1 DEF FilesInv, ValuesOK
  <2>3. \A p \in Params : device'[p].run = IF p \in {} THEN run ELSE device[p].run
    BY <2>1
  <2> QED
    BY <2>1, <2>2, <2>3, FilesWrite
<1>7. ASSUME NEW n, NEW t, Fail(n, t) PROVE FilesInv'
  <2>1. PICK left : /\ phase = "walking" /\ phase' = "walking" /\ UNCHANGED <<run, file, provenance>>
                    /\ (Logs(n, t, "refused", {}) \/ Logs(n, t, "failed", {}))
                    /\ device' = Write(left, n, "trial")
    BY <1>7 DEF Fail, AtNode, Logs
  <2>2. /\ device' = [p \in Params |-> device'[p]]
        /\ \A p \in Params : device'[p].run = IF p \in left THEN run ELSE device[p].run
    BY <2>1 DEF Write
  <2>3. "refused" \notin {"measured", "republished"} /\ "failed" \notin {"measured", "republished"}
    OBVIOUS
  <2> QED
    BY <2>1, <2>2, <2>3, FilesWrite
<1>8. CASE Finish
  <2>1. /\ phase = "walking" /\ phase' \in {"idle", "saving"}
        /\ UNCHANGED <<run, log, device, file, provenance>>
    BY <1>8 DEF Finish
  <2> QED
    BY <2>1 DEF FilesInv, ValuesOK, MeasuredInv, Measured, RecordInv
<1>9. CASE Save
  <2>1. /\ phase = "saving" /\ phase' = "recording" /\ file' = device
        /\ UNCHANGED <<run, log, device, provenance>>
    BY <1>9 DEF Save
  <2> QED
    BY <2>1 DEF FilesInv, ValuesOK, MeasuredInv, Measured, RecordInv
<1>10. CASE SaveFails \/ RecordFails
  <2>1. phase' = "idle" /\ UNCHANGED <<run, log, device, file, provenance>>
    BY <1>10 DEF SaveFails, RecordFails
  <2> QED
    BY <2>1 DEF FilesInv, ValuesOK, MeasuredInv, RecordInv
<1>11. CASE Record
  <2>1. /\ phase = "recording" /\ phase' = "idle" /\ UNCHANGED <<run, log, device, file>>
        /\ provenance' = [p \in Params |->
             IF Attributed(p) = {} THEN provenance[p]
             ELSE [by |-> log[Max(Attributed(p))].routine, run |-> run]]
    BY <1>11 DEF Record
  <2>2. ASSUME NEW p \in Params, Attributed(p) # {}
        PROVE  /\ provenance'[p].run = run
               /\ Promises(provenance'[p].by) => (device[p].run = run /\ file[p].run = run)
    <3> DEFINE i == Max(Attributed(p))
    <3>1. Len(log) \in Nat /\ DOMAIN log = 1..Len(log)
      BY LogEnds DEF ReportOK
    <3>2. Attributed(p) \subseteq 1..Len(log)
      BY <3>1 DEF Attributed
    <3>3. i \in Attributed(p)
      BY <2>2, <3>1, <3>2, GreatestOf
    <3> HIDE DEF i
    <3>4. /\ i \in DOMAIN log /\ Succeeded(log[i])
          /\ p \in Updates(log[i].routine, log[i].target)
      BY <3>3 DEF Attributed
    <3>5. provenance'[p] = [by |-> log[i].routine, run |-> run]
      BY <2>1, <2>2 DEF i
    <3>6. provenance'[p].by = log[i].routine /\ provenance'[p].run = run
      BY <3>5
    <3>7. Promises(log[i].routine) => Measured(p)
      BY <3>4 DEF Measured
    <3> QED
      BY <2>1, <3>6, <3>7 DEF FilesInv, MeasuredInv
  <2>3. ASSUME NEW p \in Params, Attributed(p) = {} PROVE provenance'[p] = provenance[p]
    BY <2>1, <2>3
  <2>4. provenance' = [p \in Params |-> provenance'[p]]
    BY <2>1
  <2>5. ValuesOK' /\ MeasuredInv'
    BY <2>1 DEF FilesInv, ValuesOK, MeasuredInv
  <2>6. RecordInv'
    <3> SUFFICES ASSUME NEW p \in Params, provenance'[p] # None
                 PROVE  /\ provenance'[p].run \in 0..run
                        /\ Promises(provenance'[p].by) =>
                             /\ device[p].run >= provenance'[p].run
                             /\ file[p].run >= provenance'[p].run
      BY <2>1, <2>4 DEF RecordInv
    <3>1. CASE Attributed(p) = {}
      BY <2>3, <3>1 DEF FilesInv, RecordInv
    <3>2. CASE Attributed(p) # {}
      BY <2>2, <3>2 DEF FilesInv, ValuesOK
    <3> QED
      BY <3>1, <3>2
  <2> QED
    BY <2>5, <2>6 DEF FilesInv
<1>12. CASE UNCHANGED vars
  BY <1>12 DEF vars, FilesInv, ValuesOK, MeasuredInv, Measured, RecordInv
<1> QED
  BY <1>1, <1>2, <1>3, <1>4, <1>5, <1>6, <1>7, <1>8, <1>9, <1>10, <1>11, <1>12
     DEF Next, Calibrate, CheckFidelity, Walk

\* What the sidecar says was measured is in the device config, or something newer is,
\* through failed write-backs, restarts between the two files and walks that fail.
THEOREM RecordedValueIsInTheFileHolds == Spec => []RecordedValueIsInTheFile
<1>1. FilesInv => RecordedValueIsInTheFile
  BY DEF FilesInv, RecordInv, Promises, RecordedValueIsInTheFile
<1> QED
  BY <1>1, ReportInit, ReportStep, FilesInit, FilesStep, PTL DEF Spec

-----------------------------------------------------------------------------
(* The nodes of a walk. *)

Visits(e, node) == e.routine = node[1] /\ e.target = node[2]

\* What is left to visit are nodes, of a fidelity check benchmarks; what is reported
\* and what is left are together the walk, one for one.
WalkInv ==
  /\ todo \in Seq(AllNodes)
  /\ log \in Seq(Entries)
  /\ phase # "idle" => run >= 1
  /\ mode = "fidelity_check" =>
       /\ phase \in {"idle", "walking"}
       /\ phase = "walking" => todo \in Seq(Benchmarks)
  /\ phase = "walking" /\ mode = "full" =>
       /\ Len(log) + Len(todo) = Len(FullWalk)
       /\ \A i \in 1..Len(log) : Visits(log[i], FullWalk[i])
       /\ \A i \in 1..Len(todo) : todo[i] = FullWalk[Len(log) + i]

BoundsInv ==
  /\ phase \in {"idle", "walking", "saving", "recording"}
  /\ mode \in Modes
  /\ run \in 0..MaxRuns
  /\ status \in {"success", "partial_failure", "failed"}
  /\ failures \in 0..MaxFailures

LEMMA NodeFacts ==
  ASSUME NEW node \in AllNodes
  PROVE  /\ node = <<node[1], node[2]>> /\ node[1] \in Names /\ node[2] \in Targets
         /\ node[1] \in Enabled
  BY DEF AllNodes

LEMMA HeadIsFirst ==
  ASSUME NEW S, NEW s \in Seq(S), s # <<>>
  PROVE  /\ Len(s) \in Nat /\ Len(s) >= 1 /\ Head(s) = s[1] /\ Head(s) \in S
         /\ Tail(s) \in Seq(S) /\ Len(Tail(s)) = Len(s) - 1
         /\ \A i \in 1..(Len(s) - 1) : Tail(s)[i] = s[i + 1]
<1>1. Len(s) \in Nat /\ Len(s) # 0
  BY EmptySeq, LenProperties
<1>2. /\ Head(s) \in S /\ Tail(s) \in Seq(S) /\ Len(Tail(s)) = Len(s) - 1
      /\ \A i \in 1..(Len(s) - 1) : Tail(s)[i] = s[i + 1]
  BY HeadTailProperties
<1>3. Head(s) = s[1]
  OBVIOUS
<1> QED
  BY <1>1, <1>2, <1>3

LEMMA NodesVisited ==
  ASSUME WalkInv, NEW n, NEW t, AtNode(n, t)
  PROVE  /\ <<n, t>> \in AllNodes /\ n \in Names /\ t \in Targets /\ phase = "walking"
         /\ mode = "fidelity_check" => <<n, t>> \in Benchmarks
<1>1. todo # <<>> /\ Head(todo) = <<n, t>> /\ phase = "walking"
  BY DEF AtNode
<1>2. <<n, t>> \in AllNodes
  BY <1>1, HeadIsFirst DEF WalkInv
<1>3. n \in Names /\ t \in Targets
  BY <1>2 DEF AllNodes
<1>4. ASSUME mode = "fidelity_check" PROVE <<n, t>> \in Benchmarks
  <2>1. todo \in Seq(Benchmarks)
    BY <1>1, <1>4 DEF WalkInv
  <2> QED
    BY <1>1, <2>1, HeadIsFirst
<1> QED
  BY <1>1, <1>2, <1>3, <1>4

LEMMA WalkInit == Init => WalkInv /\ BoundsInv
<1> SUFFICES ASSUME Init PROVE WalkInv /\ BoundsInv
  OBVIOUS
<1>1. \A S : <<>> \in Seq(S)
  BY EmptySeq
<1>2. /\ phase = "idle" /\ mode = "full" /\ run = 0 /\ todo = <<>> /\ log = <<>>
      /\ status = "success" /\ failures = 0
  BY DEF Init
<1> QED
  BY <1>1, <1>2, BoundAssumption DEF WalkInv, BoundsInv, Modes

LEMMA BoundsStep == BoundsInv /\ [Next]_vars => BoundsInv'
<1> SUFFICES ASSUME BoundsInv, [Next]_vars PROVE BoundsInv'
  OBVIOUS
<1> USE BoundAssumption DEF BoundsInv
<1>1. ASSUME NEW m \in Modes, NEW order, NEW qubits, NEW edges, Start(m, order, qubits, edges)
      PROVE  BoundsInv'
  BY <1>1 DEF Start
<1>2. CASE Calibrate \/ CheckFidelity
  <2>1. "full" \in Modes /\ "fidelity_check" \in Modes
    BY DEF Modes
  <2> QED
    BY <1>1, <1>2, <2>1 DEF Calibrate, CheckFidelity
<1>3. ASSUME NEW asked, NEW order, Recalibrate(asked, order) PROVE BoundsInv'
  <2>1. "partial" \in Modes
    BY DEF Modes
  <2>2. CASE order = <<>>
    BY <1>3, <2>1, <2>2 DEF Recalibrate, NothingToRecalibrate
  <2>3. CASE order # <<>>
    BY <1>1, <1>3, <2>1, <2>3 DEF Recalibrate
  <2> QED
    BY <2>2, <2>3
<1>4. ASSUME NEW n, NEW t, Skip(n, t) \/ Measure(n, t) PROVE BoundsInv'
  BY <1>4 DEF Skip, Measure
<1>5. ASSUME NEW n, NEW t, Republish(n, t) PROVE BoundsInv'
  BY <1>5 DEF Republish
<1>6. ASSUME NEW n, NEW t, Fail(n, t) PROVE BoundsInv'
  BY <1>6 DEF Fail
<1>7. CASE Finish
  BY <1>7 DEF Finish, FinalStatus
<1>8. CASE Save \/ SaveFails \/ Record \/ RecordFails
  BY <1>8 DEF Save, SaveFails, Record, RecordFails
<1>9. CASE Restart
  BY <1>9 DEF Restart
<1>10. CASE UNCHANGED vars
  BY <1>10 DEF vars
<1> QED
  BY <1>1, <1>2, <1>3, <1>4, <1>5, <1>6, <1>7, <1>8, <1>9, <1>10 DEF Next, Walk

\* A walk begins with nothing reported and the nodes of its order to visit.
LEMMA WalkBegins ==
  ASSUME BoundsInv, NEW m \in Modes, NEW order, NEW qubits, NEW edges,
         Nodes(order, qubits, edges) \in Seq(AllNodes),
         m = "fidelity_check" => Nodes(order, qubits, edges) \in Seq(Benchmarks),
         m = "full" => Nodes(order, qubits, edges) = FullWalk,
         Start(m, order, qubits, edges)
  PROVE  WalkInv'
<1>1. <<>> \in Seq(AllNodes) /\ <<>> \in Seq(Entries)
  BY EmptySeq
<1>2. todo' \in Seq(AllNodes) /\ log' \in Seq(Entries)
  BY <1>1 DEF Start
<1>3. run' >= 1 /\ phase' \in {"idle", "walking"} /\ mode' = m
  BY DEF Start, BoundsInv
<1>4. ASSUME phase' = "walking"
      PROVE  todo' = Nodes(order, qubits, edges) /\ log' = <<>>
  BY <1>4 DEF Start
<1>5. phase' = "walking" /\ mode' = "fidelity_check" => todo' \in Seq(Benchmarks)
  BY <1>3, <1>4
<1>6. ASSUME phase' = "walking", mode' = "full"
      PROVE  /\ Len(log') + Len(todo') = Len(FullWalk)
             /\ \A i \in 1..Len(log') : Visits(log'[i], FullWalk[i])
             /\ \A i \in 1..Len(todo') : todo'[i] = FullWalk[Len(log') + i]
  <2>1. todo' = FullWalk /\ log' = <<>>
    BY <1>3, <1>4, <1>6
  <2>2. FullWalk \in Seq(AllNodes)
    BY <1>2, <2>1
  <2>3. Len(FullWalk) \in Nat
    BY <2>2, LenProperties
  <2>4. Len(log') = 0
    BY <2>1
  <2> QED
    BY <2>1, <2>3, <2>4
<1> QED
  BY <1>2, <1>3, <1>5, <1>6 DEF WalkInv

\* A node is answered for: the report grows by it, and what is left shrinks by it.
LEMMA WalkAdvances ==
  ASSUME WalkInv, NEW n, NEW t, AtNode(n, t),
         todo' = Tail(todo), UNCHANGED <<phase, mode, run>>,
         NEW outcome \in {"measured", "republished", "refused", "failed", "skipped"},
         NEW culprits \in SUBSET Names, Logs(n, t, outcome, culprits)
  PROVE  WalkInv'
<1> DEFINE e == Entry(n, t, outcome, culprits)
<1>1. todo # <<>> /\ Head(todo) = <<n, t>> /\ phase = "walking"
  BY DEF AtNode
<1>2. n \in Names /\ t \in Targets
  BY NodesVisited
<1>3. e \in Entries
  BY <1>2 DEF Entry, Entries
<1>4. e.routine = n /\ e.target = t
  BY EntryFields
<1>5. log' = Append(log, e)
  BY DEF Logs
<1> HIDE DEF e
<1>6. /\ log' \in Seq(Entries) /\ Len(log') = Len(log) + 1 /\ log'[Len(log) + 1] = e
      /\ \A i \in 1..Len(log) : log'[i] = log[i]
  BY <1>3, <1>5, AppendProperties DEF WalkInv
<1>7. Len(log) \in Nat
  BY LenProperties DEF WalkInv
<1>8. /\ Len(todo) \in Nat /\ Len(todo) >= 1 /\ todo[1] = <<n, t>>
      /\ todo' \in Seq(AllNodes) /\ Len(todo') = Len(todo) - 1
      /\ \A i \in 1..(Len(todo) - 1) : todo'[i] = todo[i + 1]
  BY <1>1, HeadIsFirst DEF WalkInv
<1>9. ASSUME mode = "fidelity_check" PROVE todo' \in Seq(Benchmarks)
  BY <1>1, <1>9, HeadIsFirst DEF WalkInv
<1>10. ASSUME mode = "full"
       PROVE  /\ Len(log') + Len(todo') = Len(FullWalk)
              /\ \A i \in 1..Len(log') : Visits(log'[i], FullWalk[i])
              /\ \A i \in 1..Len(todo') : todo'[i] = FullWalk[Len(log') + i]
  <2>1. /\ Len(log) + Len(todo) = Len(FullWalk)
        /\ \A i \in 1..Len(log) : Visits(log[i], FullWalk[i])
        /\ \A i \in 1..Len(todo) : todo[i] = FullWalk[Len(log) + i]
    BY <1>1, <1>10 DEF WalkInv
  <2>2. Len(log') + Len(todo') = Len(FullWalk)
    BY <1>6, <1>7, <1>8, <2>1
  <2>3. Visits(e, FullWalk[Len(log) + 1])
    BY <1>4, <1>7, <1>8, <2>1 DEF Visits
  <2>4. ASSUME NEW i \in 1..Len(log') PROVE Visits(log'[i], FullWalk[i])
    <3>1. CASE i = Len(log) + 1
      BY <1>6, <2>3, <3>1
    <3>2. CASE i \in 1..Len(log)
      BY <1>6, <2>1, <3>2
    <3> QED
      BY <1>6, <1>7, <3>1, <3>2
  <2>5. ASSUME NEW i \in 1..Len(todo') PROVE todo'[i] = FullWalk[Len(log') + i]
    <3>1. i \in 1..(Len(todo) - 1) /\ i + 1 \in 1..Len(todo)
      BY <1>8
    <3>2. todo'[i] = FullWalk[Len(log) + (i + 1)]
      BY <1>8, <2>1, <3>1
    <3>3. Len(log) + (i + 1) = Len(log') + i
      BY <1>6, <1>7, <3>1
    <3> QED
      BY <3>2, <3>3
  <2> QED
    BY <2>2, <2>4, <2>5
<1>11. (phase # "idle" => run >= 1)' /\ phase' = "walking"
  BY <1>1 DEF WalkInv
<1> QED
  BY <1>6, <1>8, <1>9, <1>10, <1>11 DEF WalkInv

\* Blame is laid on routines.
BlamedNames ==
  ledger.produced \subseteq Targets \X Paths /\ ledger.unsatisfied \subseteq (Targets \X Paths) \X Names

LEMMA CulpritsAreNames ==
  ASSUME BlamedNames, NEW n, NEW t
  PROVE  Culprits(n, t) \in SUBSET Names
  BY DEF BlamedNames, Culprits

LEMMA WalkStep == BlamedNames /\ BoundsInv /\ WalkInv /\ [Next]_vars => WalkInv'
<1> SUFFICES ASSUME BlamedNames, BoundsInv, WalkInv, [Next]_vars PROVE WalkInv'
  OBVIOUS
<1>0. {"full", "partial", "fidelity_check"} \subseteq Modes
  BY DEF Modes
<1>1. CASE Calibrate
  <2>1. Nodes(FullOrder, Qubits, Edges) = FullWalk
    BY DEF FullWalk
  <2>2. Nodes(FullOrder, Qubits, Edges) \in Seq(AllNodes)
    BY <2>1, WalkAssumption
  <2> QED
    BY <1>0, <1>1, <2>1, <2>2, WalkBegins DEF Calibrate
<1>2. CASE CheckFidelity
  <2>1. Nodes(BenchmarkOrder, Qubits, Edges) \in Seq(Benchmarks)
    BY WalkAssumption
  <2>2. Benchmarks \subseteq AllNodes
    BY DEF Benchmarks
  <2>3. Nodes(BenchmarkOrder, Qubits, Edges) \in Seq(AllNodes)
    BY <2>1, <2>2, SeqMonotonic
  <2> QED
    BY <1>0, <1>2, <2>1, <2>3, WalkBegins DEF CheckFidelity
<1>3. ASSUME NEW asked \in SUBSET NamesOf(Qubits), NEW order \in Diagnoses,
             Recalibrate(asked, order)
      PROVE  WalkInv'
  <2>1. CASE order = <<>>
    <3>1. /\ phase = "idle" /\ phase' = "idle" /\ mode' = "partial" /\ log' = <<>> /\ todo' = todo
      BY <1>3, <2>1 DEF Recalibrate, NothingToRecalibrate
    <3>2. <<>> \in Seq(Entries)
      BY EmptySeq
    <3> QED
      BY <3>1, <3>2 DEF WalkInv
  <2>2. CASE order # <<>>
    <3>1. Start("partial", order, Narrowed(asked), Touching(asked))
      BY <1>3, <2>2 DEF Recalibrate
    <3>2. Nodes(order, Narrowed(asked), Touching(asked)) \in Seq(AllNodes)
      BY WalkAssumption
    <3> QED
      BY <1>0, <3>1, <3>2, WalkBegins
  <2> QED
    BY <2>1, <2>2
<1>4. ASSUME NEW n, NEW t, Skip(n, t) PROVE WalkInv'
  BY <1>4, CulpritsAreNames, WalkAdvances DEF Skip, Logs
<1>5. ASSUME NEW n, NEW t, Measure(n, t) \/ Republish(n, t) PROVE WalkInv'
  <2>1. {} \in SUBSET Names
    OBVIOUS
  <2> QED
    BY <1>5, <2>1, WalkAdvances DEF Measure, Republish, Logs
<1>6. ASSUME NEW n, NEW t, Fail(n, t) PROVE WalkInv'
  <2>1. {} \in SUBSET Names
    OBVIOUS
  <2>2. /\ AtNode(n, t) /\ todo' = Tail(todo) /\ UNCHANGED <<phase, mode, run>>
        /\ Logs(n, t, "refused", {}) \/ Logs(n, t, "failed", {})
    BY <1>6 DEF Fail, Logs
  <2> QED
    BY <2>1, <2>2, WalkAdvances
<1>7. CASE Finish
  <2>1. /\ phase = "walking" /\ phase' \in {"idle", "saving"} /\ UNCHANGED <<mode, run, todo, log>>
        /\ mode = "fidelity_check" => phase' = "idle"
    BY <1>7 DEF Finish
  <2> QED
    BY <2>1 DEF WalkInv
<1>8. CASE Save \/ SaveFails
  <2>1. /\ phase = "saving" /\ phase' \in {"idle", "recording"} /\ UNCHANGED <<mode, run, todo, log>>
    BY <1>8 DEF Save, SaveFails
  <2> QED
    BY <2>1 DEF WalkInv
<1>9. CASE Record \/ RecordFails
  <2>1. phase' = "idle" /\ UNCHANGED <<mode, run, todo, log>>
    BY <1>9 DEF Record, RecordFails
  <2> QED
    BY <2>1 DEF WalkInv
<1>10. CASE Restart
  <2>1. phase' = "idle" /\ todo' = <<>> /\ log' = <<>> /\ UNCHANGED <<mode, run>>
    BY <1>10 DEF Restart
  <2>2. <<>> \in Seq(AllNodes) /\ <<>> \in Seq(Entries)
    BY EmptySeq
  <2> QED
    BY <2>1, <2>2 DEF WalkInv
<1>11. CASE UNCHANGED vars
  BY <1>11 DEF vars, WalkInv
<1> QED
  BY <1>1, <1>2, <1>3, <1>4, <1>5, <1>6, <1>7, <1>8, <1>9, <1>10, <1>11 DEF Next, Walk

LEMMA BlamedInit == Init => BlamedNames
  BY DEF Init, BlamedNames, EmptyLedger

LEMMA BlamedStep == ReportOK /\ WalkInv /\ BlamedNames /\ [Next]_vars => BlamedNames'
<1> SUFFICES ASSUME ReportOK, WalkInv, BlamedNames, [Next]_vars PROVE BlamedNames'
  OBVIOUS
<1>0. LedgerOK
  BY DEF ReportOK
<1>1. CASE Begins
  BY <1>1 DEF Begins, BlamedNames, EmptyLedger
<1>2. CASE Leaves
  BY <1>2 DEF Leaves, BlamedNames
<1>3. ASSUME NEW n, NEW t, AtNode(n, t)
      PROVE  n \in Names /\ Updates(n, t) \subseteq Targets \X Paths
  <2>1. n \in Names /\ t \in Targets
    BY <1>3, NodesVisited
  <2>2. Routine[n].updates \subseteq Paths
    BY <2>1 DEF Paths
  <2> QED
    BY <2>1, <2>2 DEF Updates
<1>4. ASSUME NEW n, NEW t, Skip(n, t) PROVE BlamedNames'
  <2>1. AtNode(n, t) /\ Culprits(n, t) \subseteq Names
    BY <1>4, CulpritsAreNames DEF Skip
  <2>2. ledger' = [produced |-> ledger.produced,
                   unsatisfied |-> ledger.unsatisfied \cup (Updates(n, t) \X Culprits(n, t))]
    BY <1>0, <1>4, SkipMoves
  <2>3. Updates(n, t) \X Culprits(n, t) \subseteq (Targets \X Paths) \X Names
    BY <1>3, <2>1
  <2> QED
    BY <2>2, <2>3 DEF BlamedNames
<1>5. ASSUME NEW n, NEW t, Measure(n, t) \/ Republish(n, t) PROVE BlamedNames'
  <2>1. AtNode(n, t)
    BY <1>5 DEF Measure, Republish
  <2>2. ledger' = [produced |-> ledger.produced \cup Updates(n, t),
                   unsatisfied |-> ledger.unsatisfied]
    BY <1>0, <1>5, SuccessMoves
  <2> QED
    BY <1>3, <2>1, <2>2 DEF BlamedNames
<1>6. ASSUME NEW n, NEW t, Fail(n, t) PROVE BlamedNames'
  <2>1. AtNode(n, t)
    BY <1>6 DEF Fail
  <2>2. ledger' = [produced |-> ledger.produced,
                   unsatisfied |-> ledger.unsatisfied \cup (Updates(n, t) \X {n})]
    BY <1>0, <1>6, FailMoves
  <2>3. Updates(n, t) \X {n} \subseteq (Targets \X Paths) \X Names
    BY <1>3, <2>1
  <2> QED
    BY <2>2, <2>3 DEF BlamedNames
<1> QED
  BY <1>1, <1>2, <1>4, <1>5, <1>6, Moves

\* A walk is of nodes, and what it blames are routines.
WalkedInv == ReportOK /\ BoundsInv /\ WalkInv /\ BlamedNames

LEMMA WalkedInit == Init => WalkedInv
  BY ReportInit, WalkInit, BlamedInit DEF WalkedInv

LEMMA WalkedStep == WalkedInv /\ [Next]_vars => WalkedInv'
  BY ReportStep, BoundsStep, WalkStep, BlamedStep DEF WalkedInv

\* A walk reports every node there is, once: no skip and no failure ends it, and no
\* node is visited again.
THEOREM EveryNodeIsReportedHolds == Spec => []EveryNodeIsReported
<1>1. WalkedInv => EveryNodeIsReported
  <2> SUFFICES ASSUME WalkedInv, phase = "walking", todo = <<>>, mode = "full"
               PROVE  /\ {<<log[i].routine, log[i].target>> : i \in DOMAIN log} = AllNodes
                      /\ \A i, j \in DOMAIN log :
                           <<log[i].routine, log[i].target>> = <<log[j].routine, log[j].target>>
                             => i = j
    BY DEF EveryNodeIsReported
  <2>1. /\ FullWalk \in Seq(AllNodes) /\ NamesOf(FullWalk) = AllNodes
        /\ \A i, j \in DOMAIN FullWalk : FullWalk[i] = FullWalk[j] => i = j
    BY WalkAssumption
  <2>2. Len(todo) = 0
    OBVIOUS
  <2>3. Len(log) \in Nat /\ DOMAIN log = 1..Len(log)
    BY LogEnds DEF WalkedInv, ReportOK
  <2>4. Len(FullWalk) = Len(log) /\ \A i \in 1..Len(log) : Visits(log[i], FullWalk[i])
    BY <2>2, <2>3 DEF WalkedInv, WalkInv
  <2>5. DOMAIN FullWalk = DOMAIN log
    BY <2>1, <2>3, <2>4, LenProperties
  <2>6. ASSUME NEW i \in DOMAIN log
        PROVE  <<log[i].routine, log[i].target>> = FullWalk[i]
    <3>1. FullWalk[i] \in AllNodes
      BY <2>1, <2>5 DEF NamesOf
    <3> QED
      BY <2>3, <2>4, <3>1, NodeFacts DEF Visits
  <2>7. {<<log[i].routine, log[i].target>> : i \in DOMAIN log} = NamesOf(FullWalk)
    BY <2>5, <2>6 DEF NamesOf
  <2>8. ASSUME NEW i \in DOMAIN log, NEW j \in DOMAIN log,
               <<log[i].routine, log[i].target>> = <<log[j].routine, log[j].target>>
        PROVE  i = j
    <3>1. FullWalk[i] = FullWalk[j] /\ i \in DOMAIN FullWalk /\ j \in DOMAIN FullWalk
      BY <2>5, <2>6, <2>8
    <3> QED
      BY <2>1, <3>1
  <2> QED
    BY <2>1, <2>7, <2>8
<1> QED
  BY <1>1, WalkedInit, WalkedStep, PTL DEF Spec

-----------------------------------------------------------------------------
(* What is in the device, the file and the sidecar. *)

ContentsOK ==
  /\ device \in [Params -> Origins]
  /\ file \in [Params -> Origins]
  /\ provenance \in [Params -> Records]

UnreadOK == unread \in BOOLEAN

LEMMA ContentsInit == Init => ContentsOK /\ UnreadOK
<1> SUFFICES ASSUME Init PROVE ContentsOK /\ UnreadOK
  OBVIOUS
<1>1. Given \in Origins
  BY BoundAssumption DEF Given, Origins
<1>2. None \in Records
  BY DEF Records
<1>3. /\ device = [p \in Params |-> Given] /\ file = device
      /\ provenance = [p \in Params |-> None]
  BY DEF Init
<1>4. ContentsOK
  BY <1>1, <1>2, <1>3 DEF ContentsOK
<1>5. UnreadOK
  BY Zenon DEF Init, UnreadOK
<1> QED
  BY <1>4, <1>5

LEMMA UnreadStep == UnreadOK /\ [Next]_vars => UnreadOK'
<1> SUFFICES ASSUME UnreadOK, [Next]_vars PROVE unread' = unread \/ unread' = TRUE \/ unread' = FALSE
  BY Zenon DEF UnreadOK
<1>1. ASSUME NEW m, NEW order, NEW qubits, NEW edges, Start(m, order, qubits, edges)
      PROVE  unread' = FALSE
  BY <1>1, Zenon DEF Start
<1>2. ASSUME NEW asked, NEW order, Recalibrate(asked, order) PROVE unread' = FALSE
  BY <1>1, <1>2, Zenon DEF Recalibrate, NothingToRecalibrate
<1>3. ASSUME NEW n, NEW t, Skip(n, t) \/ Measure(n, t) \/ Republish(n, t) \/ Fail(n, t)
      PROVE  unread' = unread
  BY <1>3, Zenon DEF Skip, Measure, Republish, Fail
<1>4. Finish \/ SaveFails \/ Record \/ RecordFails => unread' = unread
  BY Zenon DEF Finish, SaveFails, Record, RecordFails
<1>5. Save => unread' = TRUE
  BY Zenon DEF Save
<1>6. Restart => unread' = FALSE
  BY Zenon DEF Restart
<1>7. UNCHANGED vars => unread' = unread
  BY Zenon DEF vars
<1>8. Calibrate \/ CheckFidelity => unread' = FALSE
  BY <1>1, Zenon DEF Calibrate, CheckFidelity
<1>9. Walk => unread' = unread
  BY <1>3, Zenon DEF Walk
<1> QED
  BY <1>2, <1>4, <1>5, <1>6, <1>7, <1>8, <1>9, Zenon DEF Next

LEMMA WriteOK ==
  ASSUME WalkedInv, device \in [Params -> Origins], NEW n \in Names, NEW written,
         NEW how \in {"measured", "trial"}
  PROVE  Write(written, n, how) \in [Params -> Origins]
<1>1. run \in 0..MaxRuns
  BY DEF WalkedInv, BoundsInv
<1>2. [by |-> n, run |-> run, how |-> how] \in Origins
  BY <1>1 DEF Origins
<1> QED
  BY <1>2 DEF Write

LEMMA ContentsStep == WalkedInv /\ ContentsOK /\ [Next]_vars => ContentsOK'
<1> SUFFICES ASSUME WalkedInv, ContentsOK, [Next]_vars PROVE ContentsOK'
  OBVIOUS
<1> USE DEF ContentsOK
<1>1. ASSUME NEW m, NEW order, NEW qubits, NEW edges, Start(m, order, qubits, edges)
      PROVE  ContentsOK'
  <2>1. device' \in {device, file} /\ UNCHANGED <<file, provenance>>
    BY <1>1 DEF Start
  <2> QED
    BY <2>1
<1>2. ASSUME NEW asked, NEW order, Recalibrate(asked, order) PROVE ContentsOK'
  <2>1. CASE order = <<>>
    <3>1. device' \in {device, file} /\ UNCHANGED <<file, provenance>>
      BY <1>2, <2>1 DEF Recalibrate, NothingToRecalibrate
    <3> QED
      BY <3>1
  <2>2. CASE order # <<>>
    BY <1>1, <1>2, <2>2 DEF Recalibrate
  <2> QED
    BY <2>1, <2>2
<1>3. ASSUME NEW n, NEW t, Skip(n, t) \/ Republish(n, t) PROVE ContentsOK'
  <2>1. UNCHANGED <<device, file, provenance>>
    BY <1>3 DEF Skip, Republish
  <2> QED
    BY <2>1
<1>4. ASSUME NEW n, NEW t, Measure(n, t) PROVE ContentsOK'
  <2>1. /\ AtNode(n, t) /\ UNCHANGED <<file, provenance>>
        /\ device' = Write(Written(n, t), n, "measured")
    BY <1>4 DEF Measure
  <2>2. n \in Names
    BY <2>1, NodesVisited DEF WalkedInv
  <2> QED
    BY <2>1, <2>2, WriteOK
<1>5. ASSUME NEW n, NEW t, Fail(n, t) PROVE ContentsOK'
  <2>1. PICK left : /\ AtNode(n, t) /\ UNCHANGED <<file, provenance>>
                    /\ device' = Write(left, n, "trial")
    BY <1>5 DEF Fail
  <2>2. n \in Names
    BY <2>1, NodesVisited DEF WalkedInv
  <2> QED
    BY <2>1, <2>2, WriteOK
<1>6. CASE Finish \/ SaveFails \/ RecordFails
  <2>1. UNCHANGED <<device, file, provenance>>
    BY <1>6 DEF Finish, SaveFails, RecordFails
  <2> QED
    BY <2>1
<1>7. CASE Save
  <2>1. file' = device /\ UNCHANGED <<device, provenance>>
    BY <1>7 DEF Save
  <2> QED
    BY <2>1
<1>8. CASE Record
  <2>1. /\ phase = "recording" /\ UNCHANGED <<device, file>>
        /\ provenance' = [p \in Params |->
             IF Attributed(p) = {} THEN provenance[p]
             ELSE [by |-> log[Max(Attributed(p))].routine, run |-> run]]
    BY <1>8 DEF Record
  <2>2. run \in 1..MaxRuns
    BY <2>1 DEF WalkedInv, WalkInv, BoundsInv
  <2>3. ASSUME NEW p \in Params, Attributed(p) # {}
        PROVE  [by |-> log[Max(Attributed(p))].routine, run |-> run] \in Records
    <3>1. Len(log) \in Nat /\ DOMAIN log = 1..Len(log)
      BY LogEnds DEF WalkedInv, ReportOK
    <3>2. Attributed(p) \subseteq 1..Len(log)
      BY <3>1 DEF Attributed
    <3>3. Max(Attributed(p)) \in 1..Len(log)
      BY <2>3, <3>1, <3>2, GreatestOf
    <3>4. log[Max(Attributed(p))] \in Entries
      BY <3>3, ElementOfSeq DEF WalkedInv, WalkInv
    <3>5. log[Max(Attributed(p))].routine \in Names
      BY <3>4 DEF Entries
    <3> QED
      BY <2>2, <3>5 DEF Records
  <2>4. \A p \in Params : provenance[p] \in Records
    OBVIOUS
  <2>5. provenance' \in [Params -> Records]
    BY <2>1, <2>3, <2>4
  <2> QED
    BY <2>1, <2>5
<1>9. CASE Restart
  <2>1. device' = file /\ UNCHANGED <<file, provenance>>
    BY <1>9 DEF Restart
  <2> QED
    BY <2>1
<1>10. CASE UNCHANGED vars
  BY <1>10 DEF vars
<1> QED
  BY <1>1, <1>2, <1>3, <1>4, <1>5, <1>6, <1>7, <1>8, <1>9, <1>10
     DEF Next, Calibrate, CheckFidelity, Walk

TypeInv == WalkedInv /\ ContentsOK /\ UnreadOK

LEMMA TypeInit == Init => TypeInv
  BY WalkedInit, ContentsInit DEF TypeInv

LEMMA TypeStep == TypeInv /\ [Next]_vars => TypeInv'
  BY WalkedStep, ContentsStep, UnreadStep DEF TypeInv

\* Every variable keeps to what the code may put there, whatever the catalog, the chip
\* and the number of runs and failures.
THEOREM TypeCorrect == Spec => []TypeOK
<1>1. TypeInv => TypeOK
  <2> SUFFICES ASSUME TypeInv PROVE TypeOK
    OBVIOUS
  <2>1. NamesOf(todo) \subseteq Names \X Targets
    <3>1. \A i \in DOMAIN todo : todo[i] \in AllNodes
      BY ElementOfSeq, LenProperties DEF TypeInv, WalkedInv, WalkInv
    <3>2. AllNodes \subseteq Names \X Targets
      BY DEF AllNodes
    <3> QED
      BY <3>1, <3>2 DEF NamesOf
  <2>2. NamesOf(log) \subseteq Entries
    BY ElementOfSeq, LenProperties DEF TypeInv, WalkedInv, WalkInv, NamesOf
  <2>3. BoundsInv /\ BlamedNames /\ ContentsOK /\ UnreadOK
    BY DEF TypeInv, WalkedInv
  <2> QED
    BY <2>1, <2>2, <2>3, Zenon DEF TypeOK, BoundsInv, BlamedNames, ContentsOK, UnreadOK
<1> QED
  BY <1>1, TypeInit, TypeStep, PTL DEF Spec

-----------------------------------------------------------------------------
(* A fidelity check. *)

\* A fidelity check writes nothing: what it visits are benchmarks, which update no
\* parameter, and it is over before there is anything to save or to record.
THEOREM FidelityCheckChangesNothingHolds == Spec => FidelityCheckChangesNothing
<1> DEFINE Quiet == mode = "fidelity_check" /\ phase # "idle" /\ ~ Restart
                      => UNCHANGED <<device, file, provenance>>
<1>1. TypeInv /\ [Next]_vars => Quiet
  <2> SUFFICES ASSUME TypeInv, [Next]_vars, mode = "fidelity_check", phase # "idle",
                      ~ Restart
               PROVE  UNCHANGED <<device, file, provenance>>
    OBVIOUS
  <2>1. phase = "walking" /\ WalkInv /\ device = [p \in Params |-> device[p]]
    BY DEF TypeInv, WalkedInv, WalkInv, BoundsInv, ContentsOK
  <2>2. ASSUME NEW m, NEW order, NEW qubits, NEW edges, Start(m, order, qubits, edges)
        PROVE  FALSE
    BY <2>1, <2>2 DEF Start
  <2>3. ASSUME NEW asked, NEW order, Recalibrate(asked, order) PROVE FALSE
    BY <2>1, <2>3 DEF Recalibrate
  <2>4. ASSUME NEW n, NEW t, Skip(n, t) PROVE UNCHANGED <<device, file, provenance>>
    BY <2>4 DEF Skip
  <2>5. ASSUME NEW n, NEW t, AtNode(n, t), NEW how
        PROVE  /\ Written(n, t) = {} /\ Trials(n, t) = {}
               /\ Write({}, n, how) = device
    <3>1. <<n, t>> \in Benchmarks /\ n \in Names
      BY <2>1, <2>5, NodesVisited
    <3>2. Routine[n].benchmark
      BY <3>1 DEF Benchmarks
    <3>3. Routine[n].updates = {} /\ Routine[n].trials = {} /\ n # "readout_discrimination"
      BY <3>1, <3>2, BenchmarkAssumption
    <3>4. Written(n, t) = {} /\ Trials(n, t) = {}
      BY <3>3 DEF Written, Updates, Trials
    <3>5. Write({}, n, how) = [p \in Params |-> device[p]]
      BY DEF Write
    <3> QED
      BY <2>1, <3>4, <3>5
  <2>6. ASSUME NEW n, NEW t, Measure(n, t) \/ Republish(n, t) \/ Fail(n, t)
        PROVE  UNCHANGED <<device, file, provenance>>
    <3>1. CASE Measure(n, t)
      BY <2>5, <3>1 DEF Measure
    <3>2. CASE Republish(n, t)
      BY <3>2 DEF Republish
    <3>3. CASE Fail(n, t)
      <4>0. AtNode(n, t) /\ UNCHANGED <<file, provenance>>
        BY <3>3 DEF Fail
      <4>1. PICK left : /\ left \subseteq Trials(n, t) \cup Written(n, t)
                        /\ device' = Write(left, n, "trial")
        BY <3>3 DEF Fail, HalfApplied
      <4>2. left = {}
        BY <2>5, <4>0, <4>1
      <4> QED
        BY <2>5, <4>0, <4>1, <4>2
    <3> QED
      BY <2>6, <3>1, <3>2, <3>3
  <2>7. ~ (Save \/ SaveFails \/ Record \/ RecordFails)
    BY <2>1 DEF Save, SaveFails, Record, RecordFails
  <2>8. Finish \/ UNCHANGED vars => UNCHANGED <<device, file, provenance>>
    BY DEF Finish, vars
  <2> QED
    BY <2>2, <2>3, <2>4, <2>6, <2>7, <2>8
       DEF Next, Calibrate, CheckFidelity, Walk
<1>2. TypeInv /\ [Next]_vars => [Quiet]_vars
  BY <1>1
<1> QED
  BY <1>2, TypeInit, TypeStep, PTL DEF Spec, FidelityCheckChangesNothing

=============================================================================
