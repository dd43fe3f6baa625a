--------------------------- MODULE CalibrationRun ---------------------------
(***************************************************************************)
(* One tuner over its life: Tuner (tuners/base/__init__.py), the walk of    *)
(* CalibrationDAG.run and its parameter ledger (tuners/base/dag.py), the    *)
(* write-back of the device config and the provenance sidecar               *)
(* (tuners/base/provenance.py). All under src/qpi-driver/py/qpi_driver.     *)
(*                                                                         *)
(* A parameter is a pair <<target, path>>. Its value is abstracted to where *)
(* it came from: who wrote it, in which run, and whether that was a         *)
(* measurement, a prior republished, or the trial of a routine that went on *)
(* to fail.                                                                 *)
(***************************************************************************)
EXTENDS CalibrationGraph, FiniteSets, FiniteSetsExt

CONSTANTS
    Registered,     \* routine names in registration order
    Alphabetical,   \* the same, sorted
    Routine,        \* name -> record of RoutineCatalog
    Seeds,          \* RECALIBRATION_SEEDS
    Enabled,        \* the routines calibration.yml leaves enabled
    Qubits,         \* target_qubits, a sequence
    Edges,          \* target_edges, a sequence
    Endpoints,      \* edge -> <<parent, child>>
    Has,            \* target -> the calibrated parameters it has
    FluxPorts,      \* the qubits with a flux port
    MaxRuns,        \* bound: operations asked of the tuner
    MaxFailures,    \* bound: routines, write-backs and restarts that go wrong
    None

Names == NamesOf(Registered)
Depends == [n \in Names |-> Routine[n].depends_on]
Targets == NamesOf(Qubits) \cup NamesOf(Edges)
BesidePoint == {"measure_2state.acq_rotation", "measure_2state.acq_threshold"}
\* The parameters some routine that is enabled may write.
Params ==
    LET touched == UNION {Routine[n].updates \cup Routine[n].trials :
                            n \in Names \cap Enabled} \cup BesidePoint
    IN  UNION {{t} \X (Has[t] \cap touched) : t \in Targets}
Paths == UNION {Routine[n].updates \cup Routine[n].reads : n \in Names}
Modes == {"full", "partial", "fidelity_check"}

ASSUME GraphAssumption ==
    /\ NamesOf(Alphabetical) = Names
    /\ \A n \in Names : Depends[n] \subseteq Names
ASSUME TargetAssumption ==
    /\ NamesOf(Qubits) \cap NamesOf(Edges) = {}
    /\ \A e \in NamesOf(Edges) : \A i \in {1, 2} : Endpoints[e][i] \in NamesOf(Qubits)
ASSUME BoundAssumption == MaxRuns \in Nat /\ MaxFailures \in Nat

VARIABLES
    phase,      \* "idle", "walking", "saving" (in _persist), "recording"
    mode,       \* what was asked for
    run,        \* how many operations were asked for: names this one
    todo,       \* the nodes <<routine, target>> still to visit
    ledger,     \* _ParameterLedger: what this walk produced and failed to
    log,        \* report.routine_results, errors and notes, in order
    status,     \* report.status
    device,     \* the parameters in memory
    file,       \* the parameters in the device config on disk
    unread,     \* ConfigFile.changed(): the file moved since it was read
    provenance, \* the sidecar: parameter -> who measured it, in which run
    failures    \* how much has gone wrong so far

vars == <<phase, mode, run, todo, ledger, log, status, device, file, unread,
          provenance, failures>>

Given == [by |-> None, run |-> 0, how |-> "given"]
Origins == [by : Names \cup {None}, run : 0..MaxRuns,
            how : {"given", "measured", "trial"}]
Records == [by : Names, run : 1..MaxRuns] \cup {None}
Entries == [routine : Names, target : Targets,
            outcome : {"measured", "republished", "refused", "failed", "skipped"},
            culprits : SUBSET Names]

----------------------------------------------------------------------------
(* Which nodes a walk visits *)

\* _applies: a predicate of the routine over what the target is.
Applies(n, t) ==
    LET r == Routine[n]
        control == IF r.targets = "edges" THEN Endpoints[t][1] ELSE t
    IN  /\ r.needs \subseteq Has[t]
        /\ r.lacks \cap Has[t] = {}
        /\ r.flux => control \in FluxPorts

\* _targets_for, over the target lists of the (narrowed) config.
TargetsFor(n, qubits, edges) ==
    SelectSeq(IF Routine[n].targets = "edges" THEN edges ELSE qubits,
              LAMBDA t : Applies(n, t))

\* The nodes of a walk, routine by routine.
Nodes(order, qubits, edges) ==
    FoldLeft(LAMBDA nodes, n :
                 nodes \o [i \in DOMAIN TargetsFor(n, qubits, edges) |->
                             <<n, TargetsFor(n, qubits, edges)[i]>>],
             <<>>, order)

FullOrder == ExecutionOrder(Registered, Alphabetical, Depends, Enabled)
BenchmarkOrder == SelectSeq(FullOrder, LAMBDA n : Routine[n].benchmark)

\* _narrow_to: the qubits asked for, the edges touching one of them, and the
\* other qubits of those edges, appended last.
Touching(asked) ==
    SelectSeq(Edges, LAMBDA e : {Endpoints[e][1], Endpoints[e][2]} \cap asked # {})
Partners(asked) ==
    UNION {{Endpoints[e][1], Endpoints[e][2]} : e \in NamesOf(Touching(asked))}
Narrowed(asked) ==
    SelectSeq(Qubits, LAMBDA q : q \in asked)
        \o SelectSeq(Qubits, LAMBDA q : q \in Partners(asked) \ asked)

----------------------------------------------------------------------------
(* The parameter ledger *)

EmptyLedger == [produced |-> {}, unsatisfied |-> {}]

\* _sites: an edge is asked about its endpoints as well as itself.
Sites(n, t) ==
    IF Routine[n].targets = "edges"
    THEN {t, Endpoints[t][1], Endpoints[t][2]} ELSE {t}

Reads(n, t) == Sites(n, t) \X Routine[n].reads
Updates(n, t) == {t} \X Routine[n].updates

CulpritsOfItself(n, t) ==
    {u[2] : u \in {v \in ledger.unsatisfied :
                     v[1] \in ({t} \X Routine[n].reads) \ ledger.produced}}

\* blockers and blame: who failed to produce what this routine reads.
Culprits(n, t) ==
    {u[2] : u \in {v \in ledger.unsatisfied :
                     v[1] \in Reads(n, t) \ ledger.produced}}

UnsatisfiedBare(n, t, culprits) ==
    [ledger EXCEPT !.unsatisfied = @ \cup Updates(n, t)]

UnsatisfiedByItself(n, t, culprits) ==
    [ledger EXCEPT !.unsatisfied = @ \cup (Updates(n, t) \X {n})]

\* unsatisfied
Unsatisfied(n, t, culprits) ==
    [ledger EXCEPT !.unsatisfied = @ \cup (Updates(n, t) \X culprits)]

\* produced
Produced(n, t) == [ledger EXCEPT !.produced = @ \cup Updates(n, t)]

----------------------------------------------------------------------------
(* What a routine does to the device *)

\* `apply` writes the parameters the target has. The discriminator's line goes
\* beside the two-state operating point once that is calibrated.
Written(n, t) ==
    IF /\ n = "readout_discrimination"
       /\ {t} \X BesidePoint \subseteq Params
       /\ <<t, "measure_2state.frequency">> \in Params
       /\ device[<<t, "measure_2state.frequency">>].how # "given"
    THEN {t} \X BesidePoint
    ELSE Updates(n, t) \cap Params

Trials(n, t) == ({t} \X Routine[n].trials) \cap Params

\* What an `apply` that raises leaves written: some of its parameters, not all.
HalfApplied(n, t) == {{}} \cup (SUBSET Written(n, t) \ {Written(n, t)})

Write(params, n, how) ==
    [p \in Params |-> IF p \in params THEN [by |-> n, run |-> run, how |-> how]
                      ELSE device[p]]

Entry(n, t, outcome, culprits) ==
    [routine |-> n, target |-> t, outcome |-> outcome, culprits |-> culprits]

Succeeded(e) == e.outcome \in {"measured", "republished"}

\* report.errors and report.routine_results: the sweep of a refused fit is kept
\* as a result as well.
Errors == {i \in DOMAIN log : log[i].outcome \in {"refused", "failed"}}
Results == {i \in DOMAIN log : Succeeded(log[i]) \/ log[i].outcome = "refused"}
Ran == {i \in DOMAIN log : log[i].outcome # "skipped"}

----------------------------------------------------------------------------

Init ==
    /\ phase = "idle"
    /\ mode = "full"
    /\ run = 0
    /\ todo = <<>>
    /\ ledger = EmptyLedger
    /\ log = <<>>
    /\ status = "success"
    /\ device = [p \in Params |-> Given]
    /\ file = device
    /\ unread = FALSE
    /\ provenance = [p \in Params |-> None]
    /\ failures = 0

\* _refresh_device_config, the validations, and the head of `run`: an order with
\* nothing in it, or no qubit to run it on, is a failed report.
Start(m, order, qubits, edges) ==
    /\ phase = "idle"
    /\ run < MaxRuns
    /\ run' = run + 1
    /\ mode' = m
    /\ device' = IF unread THEN file ELSE device
    /\ unread' = FALSE
    /\ ledger' = EmptyLedger
    /\ log' = <<>>
    /\ IF order = <<>> \/ qubits = <<>>
       THEN /\ status' = "failed"
            /\ phase' = "idle"
            /\ todo' = <<>>
       ELSE /\ status' = "success"
            /\ phase' = "walking"
            /\ todo' = Nodes(order, qubits, edges)
    /\ UNCHANGED <<file, provenance, failures>>

Calibrate == Start("full", FullOrder, Qubits, Edges)

CheckFidelity == Start("fidelity_check", BenchmarkOrder, Qubits, Edges)

Checkable == {n \in Names : Routine[n].has_check}
Verdict(bad) ==
    [n \in Names |-> IF n \notin Checkable THEN "unknown"
                     ELSE IF n \in bad THEN "failed" ELSE "passed"]

Diagnosis ==
    [bad \in SUBSET Checkable |->
        Diagnose(Registered, Alphabetical, Depends, Enabled, Verdict(bad), Seeds)]

Diagnoses == {Diagnosis[bad] : bad \in SUBSET Checkable}

\* recalibrate: diagnose first. A diagnosis that blames nothing runs nothing, and
\* its report is a success that is not persisted.
NothingToRecalibrate ==
    /\ run' = run + 1
    /\ mode' = "partial"
    /\ device' = IF unread THEN file ELSE device
    /\ unread' = FALSE
    /\ log' = <<>>
    /\ status' = "success"
    /\ UNCHANGED <<phase, todo, ledger, file, provenance, failures>>

Recalibrate(asked, order) ==
    /\ phase = "idle"
    /\ run < MaxRuns
    /\ IF order = <<>>
       THEN NothingToRecalibrate
       ELSE Start("partial", order, Narrowed(asked), Touching(asked))

\* The nodes there are: each routine that is enabled, where it applies.
AllNodes ==
    {node \in (Names \cap Enabled) \X Targets :
        /\ node[2] \in NamesOf(Edges) <=> Routine[node[1]].targets = "edges"
        /\ Applies(node[1], node[2])}

FullWalk == Nodes(FullOrder, Qubits, Edges)

Benchmarks == {node \in AllNodes : Routine[node[1]].benchmark}

\* What the orders come to, of a catalog without a cycle: a full walk visits every
\* node once, a fidelity check benchmarks, a partial walk some nodes.
ASSUME WalkAssumption ==
    /\ FullWalk \in Seq(AllNodes)
    /\ NamesOf(FullWalk) = AllNodes
    /\ \A i, j \in DOMAIN FullWalk : FullWalk[i] = FullWalk[j] => i = j
    /\ Nodes(BenchmarkOrder, Qubits, Edges) \in Seq(Benchmarks)
    /\ \A asked \in SUBSET NamesOf(Qubits), order \in Diagnoses :
          Nodes(order, Narrowed(asked), Touching(asked)) \in Seq(AllNodes)

\* A benchmark is a routine whose result is a fidelity: it writes nothing.
ASSUME BenchmarkAssumption ==
    \A n \in Names : Routine[n].benchmark =>
        /\ Routine[n].updates = {} /\ Routine[n].trials = {}
        /\ n # "readout_discrimination"

----------------------------------------------------------------------------
(* The walk, one node at a time *)

AtNode(n, t) == phase = "walking" /\ todo # <<>> /\ Head(todo) = <<n, t>>

SkipTheRest(n, t) ==
    /\ AtNode(n, t)
    /\ Culprits(n, t) # {}
    /\ todo' = <<>>
    /\ log' = Append(log, Entry(n, t, "skipped", Culprits(n, t)))
    /\ ledger' = Unsatisfied(n, t, Culprits(n, t))
    /\ UNCHANGED <<phase, mode, run, status, device, file, unread, provenance,
                   failures>>

\* A node whose input this walk failed to produce is skipped, and what it would
\* have written is blamed on the routines that failed, not on it.
Skip(n, t) ==
    /\ AtNode(n, t)
    /\ Culprits(n, t) # {}
    /\ todo' = Tail(todo)
    /\ log' = Append(log, Entry(n, t, "skipped", Culprits(n, t)))
    /\ ledger' = Unsatisfied(n, t, Culprits(n, t))
    /\ UNCHANGED <<phase, mode, run, status, device, file, unread, provenance,
                   failures>>

\* _run_one: measured, applied and recorded.
Measure(n, t) ==
    /\ AtNode(n, t)
    /\ Culprits(n, t) = {}
    /\ todo' = Tail(todo)
    /\ log' = Append(log, Entry(n, t, "measured", {}))
    /\ device' = Write(Written(n, t), n, "measured")
    /\ ledger' = Produced(n, t)
    /\ UNCHANGED <<phase, mode, run, status, file, unread, provenance, failures>>

\* A refinement its own model cannot describe hands back the value it was given.
\* A trial it made on the way is that value, remeasured.
Republish(n, t) ==
    /\ AtNode(n, t)
    /\ Culprits(n, t) = {}
    /\ Routine[n].republishes
    /\ failures < MaxFailures
    /\ failures' = failures + 1
    /\ todo' = Tail(todo)
    /\ log' = Append(log, Entry(n, t, "republished", {}))
    /\ ledger' = Produced(n, t)
    /\ UNCHANGED <<phase, mode, run, status, device, file, unread, provenance>>

\* The acquisition, the fit or the time allowed gave out, or `apply` raised half-way.
\* The device keeps what was written by then: none of the trials, or all of them
\* where nothing put them back, and what `apply` came to. A refused fit leaves its
\* trace among the results.
Fail(n, t) ==
    /\ AtNode(n, t)
    /\ Culprits(n, t) = {}
    /\ failures < MaxFailures
    /\ failures' = failures + 1
    /\ todo' = Tail(todo)
    /\ \/ /\ log' = Append(log, Entry(n, t, "refused", {}))
          /\ \E left \in {{}, Trials(n, t) \ ({t} \X Routine[n].restored)} :
                device' = Write(left, n, "trial")
       \/ /\ log' = Append(log, Entry(n, t, "failed", {}))
          /\ \E left \in {{}, Trials(n, t)}, half \in HalfApplied(n, t) :
                device' = Write(left \cup half, n, "trial")
    /\ ledger' = Unsatisfied(n, t, {n})
    /\ UNCHANGED <<phase, mode, run, status, file, unread, provenance>>

\* The status of the walk, and the early returns of _persist.
FinalStatus ==
    IF Ran = {} THEN "failed"
    ELSE IF Errors = {} THEN "success"
    ELSE IF Results = {} THEN "failed" ELSE "partial_failure"

FinishAndPersist ==
    /\ phase = "walking"
    /\ todo = <<>>
    /\ status' = FinalStatus
    /\ phase' = IF FinalStatus = "failed" \/ Results = {} THEN "idle" ELSE "saving"
    /\ UNCHANGED <<mode, run, todo, ledger, log, device, file, unread,
                   provenance, failures>>

Finish ==
    /\ phase = "walking"
    /\ todo = <<>>
    /\ status' = FinalStatus
    /\ phase' = IF mode = "fidelity_check" \/ FinalStatus = "failed"
                   \/ Results = {}
                THEN "idle" ELSE "saving"
    /\ UNCHANGED <<mode, run, todo, ledger, log, device, file, unread,
                   provenance, failures>>

----------------------------------------------------------------------------
(* _persist: the device config first, its provenance after *)

\* save_device_config writes every parameter in memory, whoever wrote it.
Save ==
    /\ phase = "saving"
    /\ file' = device
    /\ unread' = TRUE
    /\ phase' = "recording"
    /\ UNCHANGED <<mode, run, todo, ledger, log, status, device, provenance,
                   failures>>

SaveFailsRegardless ==
    /\ phase = "saving"
    /\ failures < MaxFailures
    /\ failures' = failures + 1
    /\ status' = "partial_failure"
    /\ phase' = "recording"
    /\ UNCHANGED <<mode, run, todo, ledger, log, device, file, unread,
                   provenance>>

\* The write-back that fails leaves the values in memory and no provenance.
SaveFails ==
    /\ phase = "saving"
    /\ failures < MaxFailures
    /\ failures' = failures + 1
    /\ status' = "partial_failure"
    /\ phase' = "idle"
    /\ UNCHANGED <<mode, run, todo, ledger, log, device, file, unread,
                   provenance>>

\* _record_provenance: what each result that is not a refusal declares it
\* updates, of what the target has.
Attributed(p) ==
    {i \in DOMAIN log :
        Succeeded(log[i]) /\ p \in Updates(log[i].routine, log[i].target)}

Record ==
    /\ phase = "recording"
    /\ provenance' = [p \in Params |->
                        IF Attributed(p) = {} THEN provenance[p]
                        ELSE [by |-> log[Max(Attributed(p))].routine,
                              run |-> run]]
    /\ phase' = "idle"
    /\ UNCHANGED <<mode, run, todo, ledger, log, status, device, file, unread,
                   failures>>

\* The sidecar that cannot be written is not an error: ProvenanceStore.save
\* never raises.
RecordFails ==
    /\ phase = "recording"
    /\ failures < MaxFailures
    /\ failures' = failures + 1
    /\ phase' = "idle"
    /\ UNCHANGED <<mode, run, todo, ledger, log, status, device, file, unread,
                   provenance>>

\* The driver dies and is started again from the files.
Restart ==
    /\ phase # "idle"
    /\ failures < MaxFailures
    /\ failures' = failures + 1
    /\ phase' = "idle"
    /\ todo' = <<>>
    /\ ledger' = EmptyLedger
    /\ log' = <<>>
    /\ status' = "failed"
    /\ device' = file
    /\ unread' = FALSE
    /\ UNCHANGED <<mode, run, file, provenance>>

Walk ==
    /\ todo # <<>>
    /\ LET n == Head(todo)[1]
           t == Head(todo)[2]
       IN  Skip(n, t) \/ Measure(n, t) \/ Republish(n, t) \/ Fail(n, t)

Next ==
    \/ Calibrate
    \/ CheckFidelity
    \/ \E asked \in (SUBSET NamesOf(Qubits)) \ {{}}, order \in Diagnoses :
          Recalibrate(asked, order)
    \/ Walk
    \/ Finish \/ Save \/ SaveFails \/ Record \/ RecordFails \/ Restart

Spec == Init /\ [][Next]_vars

----------------------------------------------------------------------------
(* Properties *)

\* Every variable holds what the code may put there.
TypeOK ==
    /\ phase \in {"idle", "walking", "saving", "recording"}
    /\ mode \in Modes
    /\ run \in 0..MaxRuns
    /\ NamesOf(todo) \subseteq Names \X Targets
    /\ ledger.produced \subseteq Targets \X Paths
    /\ ledger.unsatisfied \subseteq (Targets \X Paths) \X Names
    /\ NamesOf(log) \subseteq Entries
    /\ status \in {"success", "partial_failure", "failed"}
    /\ device \in [Params -> Origins]
    /\ file \in [Params -> Origins]
    /\ unread \in BOOLEAN
    /\ provenance \in [Params -> Records]
    /\ failures \in 0..MaxFailures

\* What a skip blames did fail, earlier in the same walk, however many skipped
\* routines the blame was handed through: an operator who reads "nothing
\* produced p (r failed)" finds r among the errors (_ParameterLedger.blame).
SkipsNameAFailure ==
    \A i \in DOMAIN log : \A c \in log[i].culprits :
        \E j \in 1..(i - 1) :
            log[j].routine = c /\ log[j].outcome \in {"refused", "failed"}

\* No routine runs on a parameter whose producers, all that came before it in
\* this walk, failed or were skipped: "a node whose input was never measured
\* cannot measure anything either", the endpoints of an edge included. Said of
\* the report, not of the ledger that is meant to ensure it.
NothingMeasuresOnARefusal ==
    \A j \in {k \in DOMAIN log : ~ Succeeded(log[k])} :
        \A p \in Updates(log[j].routine, log[j].target) :
            \A i \in {k \in Ran : k > j
                            /\ p \in Reads(log[k].routine, log[k].target)} :
                \E k \in 1..(i - 1) :
                    /\ Succeeded(log[k])
                    /\ p \in Updates(log[k].routine, log[k].target)

\* A walk answers for every routine that is enabled on every target it applies
\* to, once: a failure or a skip does not end it, nothing runs twice.
EveryNodeIsReported ==
    phase = "walking" /\ todo = <<>> /\ mode = "full"
        => /\ {<<log[i].routine, log[i].target>> : i \in DOMAIN log} = AllNodes
           /\ \A i, j \in DOMAIN log :
                <<log[i].routine, log[i].target>> = <<log[j].routine, log[j].target>>
                    => i = j

\* What the sidecar says was measured is in the device config, or something
\* newer is: through failed write-backs, crashes between the two files, and
\* walks that fail, a record never speaks of a value the file does not hold.
\* Values that are not written where they are recorded are left out: a prior
\* handed back, and the discriminator's line beside the two-state point.
RecordedValueIsInTheFile ==
    \A p \in Params :
        LET record == provenance[p]
        IN  /\ record # None
            /\ ~ Routine[record.by].republishes
            /\ record.by # "readout_discrimination"
            => file[p].run >= record.run

\* A fidelity check, which runs behind the operator's back, measures the device
\* and changes nothing on it, in the file or in the sidecar (check_fidelity): not
\* when a benchmark fails either, short of the driver being started again.
FidelityCheckChangesNothing ==
    [][mode = "fidelity_check" /\ phase # "idle" /\ ~ Restart
        => UNCHANGED <<device, file, provenance>>]_vars

\* "`ramsey` failing leaves the `clock_freqs.f01` that `qubit_spectroscopy`
\* produced": a routine that fails leaves the parameters it refines as they
\* were (dag.py, _ParameterLedger). The refining passes do not.
AFailedRefinerLeavesTheValue ==
    [][\A n \in Names, t \in Targets :
        Fail(n, t) => \A p \in Updates(n, t) \cap Params : device'[p] = device[p]]_vars

\* "A run in which every check passes recalibrates nothing and says so"
\* (Tuner.recalibrate).
HealthyChipIsLeftAlone ==
    [][\A asked \in SUBSET NamesOf(Qubits) :
        Recalibrate(asked, Diagnosis[{}]) => todo' = <<>>]_vars

=============================================================================
