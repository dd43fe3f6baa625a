-------------------------- MODULE RoutineCatalog --------------------------
EXTENDS TLC
(***************************************************************************)
(* The calibration experiments the driver ships                            *)
(* (src/qpi-driver/py/qpi_driver/tuners/routines), one record each: what    *)
(* the graph orders and guards them by, and what they do to the device.     *)
(* What a schedule or a fit computes is abstracted to whether it answers.   *)
(*                                                                         *)
(*   targets     what it runs on: "qubits" or "edges"                      *)
(*   depends_on  the routines that come before it                          *)
(*   reads       the parameters it declares it needs (the walk's guard)    *)
(*   updates     the parameters it declares it writes                      *)
(*   needs       the parameters the target must have to apply at all       *)
(*   lacks       the parameters that say it is another routine's target    *)
(*   flux        the (control) qubit must have a flux port                 *)
(*   trials      the parameters `measure` writes before the routine is     *)
(*               known to succeed: candidates of a refinement, or settings *)
(*               of an acquisition that are to be put back                 *)
(*   restored    the part of `trials` that `analyse` puts back             *)
(*   republishes it may succeed with the value it was to refine, unchanged *)
(*   benchmark   its result is a gate fidelity, and nothing is written     *)
(*   has_check   it can say whether its parameters still hold              *)
(***************************************************************************)

\* The attributes of CalibrationRoutine and their defaults.
CalibrationRoutine ==
    [targets |-> "qubits", depends_on |-> {}, reads |-> {}, updates |-> {},
     needs |-> {}, lacks |-> {}, flux |-> FALSE,
     trials |-> {}, restored |-> {}, republishes |-> FALSE,
     benchmark |-> FALSE, has_check |-> FALSE]

----------------------------------------------------------------------------
(* What the `reads` of several routines have in common. *)

XPulse == {"clock_freqs.f01", "rxy.amp180"}
EFPulse == {"r12.ef_amp180", "r12.ef_duration", "rxy.duration"}
ThreeState == {"measure_3state.frequency", "measure_3state.pulse_amp"}
TwoState == {"measure_2state.frequency", "measure_2state.pulse_amp"}

----------------------------------------------------------------------------
(* The calibrated parameters of the elements the driver ships *)

SpectroscopySettings == {"spec.amplitude", "spec.amplitude_12"}
ResonatorSettings == {"resonator.linewidth", "resonator.contrast"}
CoherenceTimes == {"coherence.t1"}
TwoStateReadout == TwoState \cup {"measure_2state.acq_rotation",
                                  "measure_2state.acq_threshold"}
ThreeStateReadout == ThreeState
EFDrive == {"r12.ef_amp180", "r12.ef_motzoi", "r12.ef_duration"}
FineRotation == {"fine.amp90"}

\* The transmon of the scheduler's own library, which the next one extends.
BasicTransmonElement ==
    {"clock_freqs.f01", "clock_freqs.f12", "clock_freqs.readout", "rxy.amp180",
     "rxy.motzoi", "rxy.duration", "measure.pulse_amp",
     "measure.pulse_duration", "measure.acq_delay",
     "measure.integration_time", "measure.acq_rotation",
     "measure.acq_threshold"}

CalibratedTransmon ==
    BasicTransmonElement \cup SpectroscopySettings \cup ResonatorSettings
        \cup CoherenceTimes \cup TwoStateReadout \cup ThreeStateReadout
        \cup EFDrive \cup FineRotation

\* The edge of the scheduler's own library: a flux pulse on its control qubit.
CompositeSquareEdge ==
    {"cz.square_amp", "cz.square_duration", "cz.parent_phase_correction",
     "cz.child_phase_correction"}

\* The edge of a coupler that is driven at the CZ clock and parked by a current.
FluxTunableCoupler ==
    CompositeSquareEdge \cup {"clock_freqs.cz", "bias.parking_current"}

----------------------------------------------------------------------------
(* Readout bring-up and spectroscopy *)

\* The trace routines shorten the acquisition to see the ring-up and put it
\* back in `analyse`, which an acquisition that raises never reaches.
ReadoutTraceRoutine ==
    [CalibrationRoutine EXCEPT
        !.depends_on = {"resonator_spectroscopy"},
        !.reads = {"measure.acq_delay", "measure.integration_time"},
        !.trials = {"measure.acq_delay", "measure.integration_time"},
        !.restored = {"measure.acq_delay", "measure.integration_time"}]

TimeOfFlight ==
    [ReadoutTraceRoutine EXCEPT !.updates = {"measure.acq_delay"}]

ResonatorRelaxation == ReadoutTraceRoutine

ResonatorSpectroscopy ==
    [CalibrationRoutine EXCEPT
        !.updates = {"clock_freqs.readout", "resonator.linewidth"},
        !.reads = {"clock_freqs.readout"},
        !.has_check = TRUE]

ResonatorPunchout ==
    [CalibrationRoutine EXCEPT
        !.depends_on = {"resonator_spectroscopy"},
        !.updates = {"measure.pulse_amp", "clock_freqs.readout"},
        !.reads = {"clock_freqs.readout"},
        !.has_check = TRUE]

ResonatorSpectroscopyExcited ==
    [CalibrationRoutine EXCEPT
        !.depends_on = {"rabi"},
        !.reads = {"clock_freqs.readout", "resonator.linewidth"} \cup XPulse]

QubitSpectroscopy ==
    [CalibrationRoutine EXCEPT
        !.depends_on = {"resonator_spectroscopy", "resonator_punchout"},
        !.updates = {"clock_freqs.f01", "spec.amplitude"},
        !.reads = {"clock_freqs.f01", "spec.amplitude"}]

\* A 1-2 line that does not stand out leaves the f12 the config holds.
F12Spectroscopy ==
    [CalibrationRoutine EXCEPT
        !.depends_on = {"rabi"},
        !.updates = {"clock_freqs.f12"},
        !.reads = XPulse,
        !.republishes = TRUE]

FluxSpectroscopy ==
    [CalibrationRoutine EXCEPT
        !.depends_on = {"qubit_spectroscopy"},
        !.reads = XPulse,
        !.flux = TRUE]

----------------------------------------------------------------------------
(* The 0-1 gates and coherence *)

Rabi ==
    [CalibrationRoutine EXCEPT
        !.depends_on = {"qubit_spectroscopy"},
        !.updates = {"rxy.amp180", "resonator.contrast"},
        !.reads = {"clock_freqs.f01"},
        !.has_check = TRUE]

\* Each refining pass measures at the root of the pass before, which `measure`
\* writes to the device first.
Ramsey ==
    [CalibrationRoutine EXCEPT
        !.depends_on = {"rabi"},
        !.updates = {"clock_freqs.f01"},
        !.reads = XPulse,
        !.trials = {"clock_freqs.f01"}]

T1 ==
    [CalibrationRoutine EXCEPT
        !.depends_on = {"rabi"},
        !.updates = {"coherence.t1"},
        !.reads = XPulse]

T2Echo ==
    [CalibrationRoutine EXCEPT
        !.depends_on = {"rabi", "t1"},
        !.reads = {"coherence.t1"} \cup XPulse]

Drag ==
    [CalibrationRoutine EXCEPT
        !.depends_on = {"ramsey"},
        !.updates = {"rxy.motzoi"},
        !.reads = XPulse]

AllXY ==
    [CalibrationRoutine EXCEPT
        !.depends_on = {"drag"},
        !.reads = XPulse]

FineAmplitude ==
    [CalibrationRoutine EXCEPT
        !.depends_on = {"drag"},
        !.updates = {"rxy.amp180"},
        !.reads = XPulse,
        !.republishes = TRUE]

FineAmplitude90 ==
    [CalibrationRoutine EXCEPT
        !.depends_on = {"fine_amplitude"},
        !.updates = {"fine.amp90"},
        !.reads = {"fine.amp90"} \cup XPulse,
        !.needs = {"fine.amp90"},
        !.trials = {"fine.amp90"},
        !.republishes = TRUE]

----------------------------------------------------------------------------
(* Readout, once a qubit can be excited *)

ReadoutIntegrationTime ==
    [CalibrationRoutine EXCEPT
        !.depends_on = {"rabi"},
        !.updates = {"measure.integration_time"},
        !.reads = {"measure.integration_time", "measure.pulse_duration",
                   "measure.acq_delay", "resonator.linewidth",
                   "clock_freqs.readout"} \cup XPulse,
        !.needs = {"measure.integration_time"}]

ReadoutOperatingPoint ==
    [CalibrationRoutine EXCEPT
        !.depends_on = {"readout_integration_time"},
        !.updates = TwoState,
        !.reads = {"clock_freqs.readout", "measure.pulse_amp",
                   "resonator.linewidth"} \cup XPulse,
        !.needs = {"measure_2state.frequency"}]

ReadoutDiscrimination ==
    [CalibrationRoutine EXCEPT
        !.depends_on = {"readout_operating_point"},
        !.updates = {"measure.acq_rotation", "measure.acq_threshold"},
        !.reads = TwoState \cup XPulse,
        !.has_check = TRUE]

ReadoutFidelity ==
    [CalibrationRoutine EXCEPT
        !.depends_on = {"readout_discrimination"},
        !.reads = TwoState \cup XPulse,
        !.benchmark = TRUE]

----------------------------------------------------------------------------
(* The 1-2 transition *)

Rabi12 ==
    [CalibrationRoutine EXCEPT
        !.depends_on = {"f12_spectroscopy"},
        !.updates = {"r12.ef_amp180"},
        !.reads = {"r12.ef_duration", "rxy.duration", "resonator.contrast"}
                      \cup XPulse,
        !.needs = {"r12.ef_amp180"}]

EfLadder ==
    [CalibrationRoutine EXCEPT
        !.depends_on = {"rabi_12"},
        !.reads = EFPulse \cup XPulse,
        !.needs = {"r12.ef_amp180"}]

ResonatorSpectroscopySecondExcited ==
    [CalibrationRoutine EXCEPT
        !.depends_on = {"rabi_12"},
        !.reads = {"clock_freqs.readout", "resonator.linewidth"}
                      \cup EFPulse \cup XPulse,
        !.needs = {"r12.ef_amp180"}]

FineAmplitude12 ==
    [CalibrationRoutine EXCEPT
        !.depends_on = {"rabi_12"},
        !.updates = {"r12.ef_amp180"},
        !.reads = EFPulse \cup XPulse,
        !.needs = {"r12.ef_amp180"},
        !.republishes = TRUE]

ThreeStateOperatingPoint ==
    [CalibrationRoutine EXCEPT
        !.depends_on = {"fine_amplitude_12", "readout_operating_point"},
        !.updates = ThreeState,
        !.reads = {"clock_freqs.readout", "measure.pulse_amp",
                   "resonator.linewidth"} \cup EFPulse \cup XPulse,
        !.needs = {"r12.ef_amp180", "measure_3state.frequency"}]

Ramsey12 ==
    [CalibrationRoutine EXCEPT
        !.depends_on = {"three_state_operating_point"},
        !.updates = {"clock_freqs.f12"},
        !.reads = {"clock_freqs.f12"} \cup ThreeState \cup EFPulse \cup XPulse,
        !.needs = {"r12.ef_amp180", "measure_3state.frequency"}]

Drag12 ==
    [CalibrationRoutine EXCEPT
        !.depends_on = {"ramsey_12"},
        !.updates = {"r12.ef_motzoi"},
        !.reads = ThreeState \cup EFPulse \cup XPulse,
        !.needs = {"r12.ef_amp180", "measure_3state.frequency"}]

ThreeStateDiscrimination ==
    [CalibrationRoutine EXCEPT
        !.depends_on = {"three_state_operating_point"},
        !.reads = ThreeState \cup EFPulse \cup XPulse,
        !.needs = {"r12.ef_amp180", "measure_3state.frequency"}]

----------------------------------------------------------------------------
(* Two-qubit gates *)

\* A DC current that `measure` parks and puts back; only a device with a
\* source that holds one can run it.
CouplerAnticrossing ==
    [CalibrationRoutine EXCEPT
        !.targets = "edges",
        !.depends_on = {"rabi"},
        !.updates = {"bias.parking_current"},
        !.reads = {"bias.parking_current"},
        !.needs = {"bias.parking_current"}]

\* An edge with a CZ clock is driven parametrically...
CZSpectroscopy ==
    [CalibrationRoutine EXCEPT
        !.targets = "edges",
        !.depends_on = {"rabi"},
        !.updates = {"clock_freqs.cz"},
        !.reads = {"clock_freqs.cz", "cz.square_amp"} \cup XPulse,
        !.needs = {"clock_freqs.cz"}]

CZParametrization ==
    [CalibrationRoutine EXCEPT
        !.targets = "edges",
        !.depends_on = {"cz_spectroscopy"},
        !.updates = {"cz.square_amp", "cz.square_duration"},
        !.reads = {"clock_freqs.cz", "cz.square_amp"} \cup XPulse,
        !.needs = {"clock_freqs.cz"}]

\* ... and one without by a flux pulse on its control qubit.
CZChevron ==
    [CalibrationRoutine EXCEPT
        !.targets = "edges",
        !.depends_on = {"rb", "flux_spectroscopy"},
        !.updates = {"cz.square_amp", "cz.square_duration"},
        !.reads = XPulse,
        !.lacks = {"clock_freqs.cz"},
        !.flux = TRUE]

ConditionalPhase ==
    [CalibrationRoutine EXCEPT
        !.targets = "edges",
        !.depends_on = {"cz_chevron"},
        !.updates = {"cz.parent_phase_correction", "cz.child_phase_correction"},
        !.reads = XPulse]

----------------------------------------------------------------------------
(* Benchmarks: they measure a fidelity and write nothing *)

RandomizedBenchmarking ==
    [CalibrationRoutine EXCEPT
        !.depends_on = {"fine_amplitude"},
        !.reads = XPulse,
        !.benchmark = TRUE]

InterleavedRB ==
    [RandomizedBenchmarking EXCEPT
        !.targets = "edges",
        !.depends_on = {"conditional_phase"}]

AllXYCheck ==
    [CalibrationRoutine EXCEPT
        !.depends_on = {"fine_amplitude"},
        !.reads = XPulse,
        !.benchmark = TRUE]

----------------------------------------------------------------------------
(* The registry: ROUTINE_CLASSES, in the order the tuner registers them. *)

ROUTINE_CLASSES ==
    << "time_of_flight", "resonator_spectroscopy", "resonator_relaxation",
       "resonator_punchout", "qubit_spectroscopy", "rabi",
       "resonator_spectroscopy_excited", "readout_integration_time",
       "readout_operating_point", "readout_discrimination",
       "readout_fidelity", "f12_spectroscopy", "rabi_12", "ef_ladder",
       "resonator_spectroscopy_second_excited",
       "three_state_operating_point", "ramsey_12", "drag_12",
       "fine_amplitude_12", "three_state_discrimination", "ramsey", "t1",
       "t2_echo", "drag", "allxy", "fine_amplitude", "fine_amplitude_90",
       "rb", "flux_spectroscopy", "coupler_anticrossing",
       "cz_spectroscopy", "cz_parametrization", "cz_chevron",
       "conditional_phase", "interleaved_rb", "allxy_check" >>

RoutineNamed ==
    ("time_of_flight" :> TimeOfFlight) @@
    ("resonator_spectroscopy" :> ResonatorSpectroscopy) @@
    ("resonator_relaxation" :> ResonatorRelaxation) @@
    ("resonator_punchout" :> ResonatorPunchout) @@
    ("qubit_spectroscopy" :> QubitSpectroscopy) @@
    ("rabi" :> Rabi) @@
    ("resonator_spectroscopy_excited" :> ResonatorSpectroscopyExcited) @@
    ("readout_integration_time" :> ReadoutIntegrationTime) @@
    ("readout_operating_point" :> ReadoutOperatingPoint) @@
    ("readout_discrimination" :> ReadoutDiscrimination) @@
    ("readout_fidelity" :> ReadoutFidelity) @@
    ("f12_spectroscopy" :> F12Spectroscopy) @@
    ("rabi_12" :> Rabi12) @@
    ("ef_ladder" :> EfLadder) @@
    ("resonator_spectroscopy_second_excited"
        :> ResonatorSpectroscopySecondExcited) @@
    ("three_state_operating_point" :> ThreeStateOperatingPoint) @@
    ("ramsey_12" :> Ramsey12) @@
    ("drag_12" :> Drag12) @@
    ("fine_amplitude_12" :> FineAmplitude12) @@
    ("three_state_discrimination" :> ThreeStateDiscrimination) @@
    ("ramsey" :> Ramsey) @@
    ("t1" :> T1) @@
    ("t2_echo" :> T2Echo) @@
    ("drag" :> Drag) @@
    ("allxy" :> AllXY) @@
    ("fine_amplitude" :> FineAmplitude) @@
    ("fine_amplitude_90" :> FineAmplitude90) @@
    ("rb" :> RandomizedBenchmarking) @@
    ("flux_spectroscopy" :> FluxSpectroscopy) @@
    ("coupler_anticrossing" :> CouplerAnticrossing) @@
    ("cz_spectroscopy" :> CZSpectroscopy) @@
    ("cz_parametrization" :> CZParametrization) @@
    ("cz_chevron" :> CZChevron) @@
    ("conditional_phase" :> ConditionalPhase) @@
    ("interleaved_rb" :> InterleavedRB) @@
    ("allxy_check" :> AllXYCheck)

=============================================================================
