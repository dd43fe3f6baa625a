-------------------------- MODULE MCCalibrationRun --------------------------
(* The shipped catalog on two transmons and the edge between them. *)
EXTENDS CalibrationRun, RoutineCatalog

\* sorted(ROUTINE_CLASSES by name), which orders the roots of the graph.
Sorted ==
    << "allxy", "allxy_check", "conditional_phase", "coupler_anticrossing",
       "cz_chevron", "cz_parametrization", "cz_spectroscopy", "drag",
       "drag_12", "ef_ladder", "f12_spectroscopy", "fine_amplitude",
       "fine_amplitude_12", "fine_amplitude_90", "flux_spectroscopy",
       "interleaved_rb", "qubit_spectroscopy", "rabi", "rabi_12", "ramsey",
       "ramsey_12", "rb", "readout_discrimination", "readout_fidelity",
       "readout_integration_time", "readout_operating_point",
       "resonator_punchout", "resonator_relaxation",
       "resonator_spectroscopy", "resonator_spectroscopy_excited",
       "resonator_spectroscopy_second_excited", "t1", "t2_echo",
       "three_state_discrimination", "three_state_operating_point",
       "time_of_flight" >>

\* The routines whose steps the properties tell apart: producers, refiners,
\* republishers, benchmarks and the edges' own, and what they wait for.
Kept ==
    {"qubit_spectroscopy", "rabi", "ramsey",
     "fine_amplitude", "readout_operating_point", "readout_discrimination",
     "cz_chevron", "interleaved_rb"}

\* The whole catalog, for walks longer than a routine run can take.
Everything == NamesOf(ROUTINE_CLASSES)

TwoQubits == <<"q0", "q1">>
OneQubit == <<"q0">>
FluxEdge == <<"q0_q1">>
NoEdge == <<>>
PairEndpoints == [e \in {"q0_q1"} |-> <<"q0", "q1">>]
FluxElements ==
    [t \in {"q0", "q1", "q0_q1"} |->
        IF t = "q0_q1" THEN CompositeSquareEdge ELSE CalibratedTransmon]
=============================================================================
