SPECIFICATION Spec
CONSTANTS
  None = None
  Registered <- ROUTINE_CLASSES
  Alphabetical <- Sorted
  Routine <- RoutineNamed
  Seeds = {"qubit_spectroscopy"}
  Enabled <- Kept
  Qubits <- TwoQubits
  Edges <- FluxEdge
  Endpoints <- PairEndpoints
  Has <- FluxElements
  FluxPorts = {"q0", "q1"}
  MaxRuns = 2
  MaxFailures = 2
INVARIANTS TypeOK SkipsNameAFailure NothingMeasuresOnARefusal EveryNodeIsReported RecordedValueIsInTheFile
PROPERTY FidelityCheckChangesNothing
CHECK_DEADLOCK FALSE
