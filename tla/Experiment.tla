----------------------------- MODULE Experiment -----------------------------
(***************************************************************************)
(* One routine measuring one target: CalibrationRoutine.escalating,         *)
(* acquire_in_row_chunks and _widened (tuners/base/routines.py) and the     *)
(* `measure`, `acquire` and `analyse` of the routines that do more than     *)
(* build, run and fit once (tuners/routines). All under                     *)
(* src/qpi-driver/py/qpi_driver. A walk (CalibrationRun) does this for each *)
(* node and sees only how it ends.                                          *)
(*                                                                         *)
(* What a fit says of the data is a choice: it answers, it refuses naming   *)
(* the sweep it wanted (OutOfRange), or it refuses outright (FitError).     *)
(* A sweep is its ends and its number of points, in a unit of its own axis. *)
(***************************************************************************)
EXTENDS Integers, Sequences, FiniteSets

CONSTANTS
    Experiments,     \* the routines measured
    NamedPoints,     \* what calibration.yml may say of a frequency sweep's "points"
    Bands,           \* how wide a port may reach around a frequency, in MHz
    Incumbents,      \* the integration times a device config may come with
    Currents         \* how many bias points the coupler's sweep has

\* The limits the code sets itself.
MAX_ESCALATIONS == 3
MAX_REFINEMENTS == 3
MAX_SHORTENINGS == 2
MIN_FIT_POINTS == 4
MAX_SWEEP_POINTS == 700
MAX_RB_CLIFFORDS == 1000
MAX_WINDOWS == 12
MAX_SINGLE_SHOT_ACQUISITIONS == 32
CIRCUIT_DEPTHS == 127       \* 1 + 2 + 4 + ... + 64
UNBOUNDED == 1000000

Least(a, b) == IF a <= b THEN a ELSE b
Most(a, b) == IF a >= b THEN a ELSE b

\* A routine that says nothing of `measure` or `acquire`: built, run and fitted once.
\* `trimmed` says its frequencies are cut to what their port reaches, `shots` how many
\* single shots it takes of each of its points, `points` how many those are by default.
Plan0 ==
    [axis |-> "none", low |-> 0, high |-> 0, points |-> 1,
     ceiling |-> UNBOUNDED, asks |-> {}, grid |-> "one", method |-> "once",
     step |-> 1, trimmed |-> FALSE, shots |-> 0]

----------------------------------------------------------------------------
(* The sweeps, as build_schedule makes them by default, and what the fit of  *)
(* each may ask for                                                          *)

\* Pulse amplitude in percent of full scale, the first half of it.
Rabi ==
    [Plan0 EXCEPT !.axis = "list", !.high = 50, !.points = 41, !.ceiling = 100,
                  !.asks = {"wider"}, !.method = "escalating"]

\* Delays in microseconds.
T1 ==
    [Plan0 EXCEPT !.axis = "list", !.high = 100, !.points = 41,
                  !.asks = {"wider"}, !.method = "escalating"]

\* Delays in T1: three of them, and never past six.
T2Echo == [T1 EXCEPT !.high = 3, !.ceiling = 6]

Ramsey ==
    [Plan0 EXCEPT !.axis = "list", !.high = 24, !.points = 601,
                  !.asks = {"wider", "finer"}, !.method = "ramsey"]

\* A DRAG parameter of either sign.
Drag ==
    [Plan0 EXCEPT !.axis = "list", !.low = -2, !.high = 2, !.points = 31,
                  !.asks = {"wider"}, !.method = "escalating"]

\* Pi pulses in a row.
FineAmplitude ==
    [Plan0 EXCEPT !.axis = "ladder", !.low = 1, !.high = 25, !.points = 25,
                  !.asks = {"shorter"}, !.method = "amplified"]

\* Quarter turns in a row: 1, 5, 9 and 13 of them.
FineAmplitude90 ==
    [FineAmplitude EXCEPT !.high = 13, !.points = 4, !.method = "amplified_90",
                          !.step = 2]

\* A span in MHz around the configured frequency.
ResonatorSpectroscopy ==
    [Plan0 EXCEPT !.axis = "span", !.high = 20, !.points = 51,
                  !.asks = {"wider", "finer"}, !.method = "escalating",
                  !.trimmed = TRUE]

\* Five drive amplitudes, in units of 0.005, by the points of a frequency sweep.
QubitSpectroscopy ==
    [Plan0 EXCEPT !.axis = "list", !.low = 1, !.high = 16, !.points = 5,
                  !.ceiling = 200, !.asks = {"wider"}, !.grid = "rows",
                  !.method = "search", !.trimmed = TRUE]

ResonatorPunchout == [Plan0 EXCEPT !.points = 11, !.grid = "rows", !.trimmed = TRUE]

\* Eleven flux offsets.
FluxSpectroscopy == ResonatorPunchout

\* Ten circuits per depth, over depths that sum to CIRCUIT_DEPTHS.
RandomizedBenchmarking ==
    [Plan0 EXCEPT !.points = 10, !.grid = "circuits", !.method = "escalating"]

ReadoutIntegrationTime == [Plan0 EXCEPT !.grid = "windows"]

ReadoutTraceRoutine == [Plan0 EXCEPT !.method = "trace"]

CouplerAnticrossing ==
    [Plan0 EXCEPT !.points = Currents, !.grid = "bias", !.method = "bias"]

----------------------------------------------------------------------------
(* The routines measured once, and those that repeat one of the above a level *)
(* up: what they ask of an acquisition, and what their refusals lead to       *)

\* The line that tells the X gate excites; around the resonator, and trimmed.
ResonatorSpectroscopyExcited == [Plan0 EXCEPT !.points = 51, !.trimmed = TRUE]

\* The same around a frequency the port is not asked about.
ResonatorSpectroscopySecondExcited == [Plan0 EXCEPT !.points = 51]

\* Three drive amplitudes by 81 frequencies. What it cannot resolve it leaves as the
\* device has it, where the device has it.
F12Spectroscopy == [Plan0 EXCEPT !.points = 3 * 81, !.method = "prior"]

AllXY == [Plan0 EXCEPT !.points = 21]
AllXYCheck == AllXY

\* Two prepared states at five readout powers, for each of three frequencies.
ReadoutOperatingPoint == [Plan0 EXCEPT !.points = 3, !.shots = 2 * 5]

\* Three prepared states at two readout powers, for each of five frequencies.
ThreeStateOperatingPoint == [Plan0 EXCEPT !.points = 5, !.shots = 3 * 2]

\* One acquisition per prepared state.
ReadoutDiscrimination == [Plan0 EXCEPT !.points = 2]
ReadoutFidelity == ReadoutDiscrimination
ThreeStateDiscrimination == [Plan0 EXCEPT !.points = 3]

\* An OutOfRange of theirs asks for a sweep nobody widens.
Rabi12 == [Plan0 EXCEPT !.points = 41]
EfLadder == Rabi12
Ramsey12 == [Plan0 EXCEPT !.points = 241]

FineAmplitude12 == FineAmplitude
Drag12 == Drag

\* Edges: drive frequencies, durations, amplitudes by durations, four fringes.
CZSpectroscopy == [Plan0 EXCEPT !.points = 81]
CZParametrization == [Plan0 EXCEPT !.points = 39]
CZChevron == [Plan0 EXCEPT !.points = 11 * 11]
ConditionalPhase == [Plan0 EXCEPT !.points = 4 * 25]

\* The same circuits, a CZ after each Clifford, on the edge's control qubit.
InterleavedRB == RandomizedBenchmarking

Plan ==
    [rabi |-> Rabi, t1 |-> T1, t2_echo |-> T2Echo, ramsey |-> Ramsey,
     drag |-> Drag, fine_amplitude |-> FineAmplitude,
     fine_amplitude_90 |-> FineAmplitude90,
     resonator_spectroscopy |-> ResonatorSpectroscopy,
     qubit_spectroscopy |-> QubitSpectroscopy,
     resonator_punchout |-> ResonatorPunchout,
     rb |-> RandomizedBenchmarking,
     readout_integration_time |-> ReadoutIntegrationTime,
     time_of_flight |-> ReadoutTraceRoutine,
     resonator_relaxation |-> ReadoutTraceRoutine,
     coupler_anticrossing |-> CouplerAnticrossing,
     resonator_spectroscopy_excited |-> ResonatorSpectroscopyExcited,
     resonator_spectroscopy_second_excited |-> ResonatorSpectroscopySecondExcited,
     f12_spectroscopy |-> F12Spectroscopy,
     flux_spectroscopy |-> FluxSpectroscopy,
     allxy |-> AllXY, allxy_check |-> AllXYCheck,
     readout_operating_point |-> ReadoutOperatingPoint,
     three_state_operating_point |-> ThreeStateOperatingPoint,
     readout_discrimination |-> ReadoutDiscrimination,
     readout_fidelity |-> ReadoutFidelity,
     three_state_discrimination |-> ThreeStateDiscrimination,
     rabi_12 |-> Rabi12, ef_ladder |-> EfLadder, ramsey_12 |-> Ramsey12,
     fine_amplitude_12 |-> FineAmplitude12, drag_12 |-> Drag12,
     cz_spectroscopy |-> CZSpectroscopy,
     cz_parametrization |-> CZParametrization,
     cz_chevron |-> CZChevron, conditional_phase |-> ConditionalPhase,
     interleaved_rb |-> InterleavedRB]

Default(e, count) ==
    [low |-> Plan[e].low, high |-> Plan[e].high,
     points |-> IF Plan[e].axis = "span" THEN count ELSE Plan[e].points]

ASSUME ExperimentAssumption == Experiments \subseteq DOMAIN Plan
ASSUME ConstantAssumption ==
    /\ NamedPoints \subseteq Nat \ {0} /\ Bands \subseteq Nat
    /\ Incumbents \subseteq Nat \ {0} /\ Currents \in Nat

----------------------------------------------------------------------------
(* Widening a sweep: what is tried next, nothing when the config comes back  *)
(* as it was                                                               *)

\* _scalar_axis: the points move with the span, up to a limit.
WidenedSpan(s, direction, factor) ==
    LET count == Least(s.points * factor, MAX_SWEEP_POINTS)
    IN  IF direction = "finer" THEN {[s EXCEPT !.points = count]}
        ELSE {[s EXCEPT !.high = @ * factor, !.points = count]}

WidenedBlindly(s, direction, factor, ceiling) ==
    IF direction = "finer" THEN {[s EXCEPT !.points = @ * factor]}
    ELSE {[s EXCEPT !.high = Least(s.low + (s.high - s.low) * factor, ceiling)]}

\* The list branches of _widened. An axis that goes below zero grows both ways.
WidenedList(s, direction, factor, ceiling) ==
    LET centre == (s.low + s.high) \div 2
        reach == ((s.high - s.low) * factor) \div 2
        top == Least(s.low + (s.high - s.low) * factor, ceiling)
    IN  IF direction = "finer" THEN {[s EXCEPT !.points = @ * factor]}
        ELSE IF s.low < 0
             THEN IF reach >= ceiling THEN {}
                  ELSE {[s EXCEPT !.low = Most(centre - reach, -ceiling),
                                  !.high = Least(centre + reach, ceiling)]}
        ELSE IF top <= s.high THEN {} ELSE {[s EXCEPT !.high = top]}

Widened(e, s, direction, factor) ==
    IF Plan[e].axis = "span" THEN WidenedSpan(s, direction, factor)
    ELSE WidenedList(s, direction, factor, Plan[e].ceiling)

ShortenedByOnes(e, s) ==
    LET top == Most(s.high \div 2, MIN_FIT_POINTS)
    IN  [low |-> 1, high |-> top, points |-> top]

\* _shortened: the ladder rebuilt to half its reach, with at least four counts.
Shortened(e, s) ==
    LET top == Most(s.high \div 2, 1 + Plan[e].step * (MIN_FIT_POINTS - 1))
        count == (top - 1) \div Plan[e].step + 1
    IN  [low |-> 1, high |-> 1 + Plan[e].step * (count - 1), points |-> count]

----------------------------------------------------------------------------
(* Splitting a sweep into schedules *)

\* sorted: the k-th number is the one with k of them at or below it.
Ascending(S) ==
    [k \in 1..Cardinality(S) |->
        CHOOSE x \in S : Cardinality({y \in S : y <= x}) = k]

\* ReadoutIntegrationTime._grid: the ladder doubled up to the usable window, the
\* window itself, and the incumbent as it stands.
UsableWindow == 10
Windows(current) ==
    LET rungs == {w \in {(current * 2^k) \div 4 : k \in 0..(MAX_WINDOWS - 1)} :
                    w \in 1..UsableWindow}
    IN  Ascending(rungs \cup {UsableWindow, current})

\* What build_schedule plays for one window named in the config.
Integrated(w) == Least(w, UsableWindow)

\* What a schedule brings of the rows it was built for.
Played(e, wanted) ==
    IF Plan[e].grid = "windows" THEN [i \in DOMAIN wanted |-> Integrated(wanted[i])]
    ELSE wanted

\* The rows `analyse` will fit.
Grid(e, s, current) ==
    IF Plan[e].grid = "windows" THEN Windows(current)
    ELSE IF Plan[e].grid = "one" THEN <<1>> ELSE [i \in 1..s.points |-> i]

PerSchedule(e, width) ==
    IF Plan[e].grid = "rows" THEN Most(1, MAX_SWEEP_POINTS \div width)
    ELSE IF Plan[e].grid = "circuits" THEN Most(1, MAX_RB_CLIFFORDS \div CIRCUIT_DEPTHS)
    ELSE 1

\* The points of the sweep that confirms what a search found, of the width it
\* was found at: at the configured step, in kHz, as far as a schedule takes.
ConfirmPoints(width, narrow, amplitudes) ==
    LET span == Least(Most((3 * width) \div 2, 8000), 600000)
        wanted == (span * (narrow - 1)) \div 40000 + 1
    IN  Most(41, Least(wanted, MAX_SWEEP_POINTS \div amplitudes))

----------------------------------------------------------------------------

VARIABLES
    experiment, \* what is measured
    named,      \* the operator named its axis in calibration.yml
    points,     \* "points" of a frequency sweep, named or the default
    band,       \* how wide its port reaches around the frequency; 0 is not at all
    incumbent,  \* the integration time the device came with
    pc,         \* "build", "run", "fit" or "over"
    stage,      \* which of its sweeps a routine that makes several is at
    base,       \* the sweep its config asks for at the start of a stage
    sweep,      \* the sweep as it is now, widened or shortened
    columns,    \* frequencies per row of a two-dimensional grid
    tried,      \* the sweeps already refused in this stage
    attempt, shortenings, passes,   \* the counters of the three loops
    grid,       \* the rows the acquisition has to bring
    rows,       \* the rows the routine holds, which analyse goes by
    data,       \* what was acquired, row by row
    residual,   \* how far the result held is from where it should be, ranked
    held,       \* what the device holds: the prior, a candidate, the result
    borrowed,   \* the settings changed to measure with, and not put back
    outcome

vars == <<experiment, named, points, band, incumbent, pc, stage, base, sweep, columns,
          tried, attempt, shortenings, passes, grid, rows, data, residual, held,
          borrowed, outcome>>

plan == Plan[experiment]

\* 0: at or under the floor. 3: past the artificial detuning, of unknown sign.
Residuals == 0..3
Outcomes == {"pending", "measured", "republished", "acquisition_failed",
             "refused", "source_failed"}

Init ==
    /\ experiment \in Experiments
    /\ named \in (IF plan.asks = {} THEN {FALSE} ELSE BOOLEAN)
    /\ points \in (IF plan.trimmed THEN NamedPoints
                   ELSE IF plan.shots > 0 THEN {plan.points} \cup NamedPoints ELSE {51})
    /\ band \in (IF plan.trimmed THEN Bands ELSE {UNBOUNDED})
    /\ incumbent \in (IF plan.grid = "windows" THEN Incumbents ELSE {4})
    /\ pc = "build"
    /\ stage = "first"
    /\ base = Default(experiment, points)
    /\ sweep = base
    /\ columns = points
    /\ tried = {}
    /\ attempt = 0 /\ shortenings = 0 /\ passes = 0
    /\ grid = <<>> /\ rows = <<>> /\ data = <<>>
    /\ residual = 0
    /\ held = "prior" /\ borrowed = {}
    /\ outcome = "pending"

inputs == <<experiment, named, points, band, incumbent>>
counters == <<attempt, shortenings, passes>>

----------------------------------------------------------------------------
(* Acquiring *)

\* _frequency_sweep: the frequencies a span comes to, trimmed to what the port reaches.
Swept(s) == IF plan.axis = "span" THEN [s EXCEPT !.high = Least(@, band)] ELSE s

\* A frequency its port cannot reach at all. What a search found it can.
OutOfReach == plan.trimmed /\ stage = "first" /\ band = 0

\* ReadoutOperatingPoint._grid: every single shot takes one of the sequencer's registers.
TooManyShots ==
    plan.shots > 0 /\ plan.shots * points > MAX_SINGLE_SHOT_ACQUISITIONS

Over(how) == pc' = "over" /\ outcome' = how

\* The last word of a routine that has no sweep left to try: qubit_spectroscopy goes
\* on to search the whole band, any other is over.
GiveUp ==
    /\ IF plan.method = "search" /\ stage = "first"
       THEN pc' = "search" /\ UNCHANGED outcome
       ELSE Over("refused")
    /\ UNCHANGED <<inputs, stage, base, sweep, columns, tried, counters, grid,
                   rows, data, residual, held>>

\* A sweep that cannot be built at all, said before anything is played.
BuildRefuses ==
    /\ pc = "build" /\ (OutOfReach \/ TooManyShots)
    /\ GiveUp
    /\ UNCHANGED borrowed

\* build_schedule: a trace routine opens the window with the pulse, and long.
Build ==
    /\ pc = "build" /\ ~ OutOfReach /\ ~ TooManyShots
    /\ grid' = Grid(experiment, sweep, incumbent)
    /\ rows' = grid'
    /\ data' = <<>>
    /\ pc' = "run"
    /\ borrowed' = IF plan.method = "trace" THEN {"delay", "window"} ELSE borrowed
    /\ UNCHANGED <<inputs, stage, base, sweep, columns, tried, counters,
                   residual, held, outcome>>

\* The next rows that fit in one schedule; the whole grid when it fits.
Chunk ==
    SubSeq(grid, Len(data) + 1,
           Least(Len(data) + PerSchedule(experiment, columns), Len(grid)))

RunTheLastChunkOnly ==
    /\ pc = "run"
    /\ plan.method # "bias"
    /\ data' = data \o Chunk
    /\ rows' = Chunk
    /\ pc' = IF Len(data') = Len(grid) THEN "fit" ELSE "run"
    /\ UNCHANGED <<inputs, stage, base, sweep, columns, tried, counters, grid,
                   residual, held, borrowed, outcome>>

\* One schedule: building it set the routine's rows to its own, and the whole
\* grid is put back after the last. A window is its own schedule.
Run ==
    /\ pc = "run"
    /\ plan.method # "bias"
    /\ data' = data \o Played(experiment, Chunk)
    /\ rows' = IF Len(data') = Len(grid) THEN grid ELSE Chunk
    /\ pc' = IF Len(data') = Len(grid) THEN "fit" ELSE "run"
    /\ UNCHANGED <<inputs, stage, base, sweep, columns, tried, counters, grid,
                   residual, held, borrowed, outcome>>

\* The schedule raises: nothing but the walk catches that, and a trace routine's
\* settings stay as it made them.
AcquisitionFails ==
    /\ pc = "run"
    /\ plan.method # "bias"
    /\ Over("acquisition_failed")
    /\ UNCHANGED <<inputs, stage, base, sweep, columns, tried, counters, grid,
                   rows, data, residual, held, borrowed>>

\* CouplerAnticrossing: one current, which gives a line or is passed over.
Bias ==
    /\ pc = "run"
    /\ plan.method = "bias"
    /\ grid # <<>>
    /\ borrowed' = {"current"}
    /\ grid' = Tail(grid)
    /\ data' \in {data, Append(data, Head(grid))}
    /\ UNCHANGED <<inputs, pc, stage, base, sweep, columns, tried, counters,
                   rows, residual, held, outcome>>

\* The sweep is over or the probe raised: the current it found is put back.
BiasLeftWhereItIs ==
    /\ pc = "run"
    /\ plan.method = "bias"
    /\ \/ Over("acquisition_failed") /\ UNCHANGED borrowed
       \/ grid = <<>> /\ pc' = "fit" /\ borrowed' = {} /\ UNCHANGED outcome
    /\ UNCHANGED <<inputs, stage, base, sweep, columns, tried, counters, grid,
                   rows, data, residual, held>>

EndBias ==
    /\ pc = "run"
    /\ plan.method = "bias"
    /\ borrowed' = {}
    /\ \/ Over("acquisition_failed")
       \/ grid = <<>> /\ pc' = "fit" /\ UNCHANGED outcome
    /\ UNCHANGED <<inputs, stage, base, sweep, columns, tried, counters, grid,
                   rows, data, residual, held>>

\* The source refuses a current, or the one it is to go back to.
SourceFails ==
    /\ pc = "run"
    /\ plan.method = "bias"
    /\ Over("source_failed")
    /\ borrowed' \in {borrowed, {}}
    /\ UNCHANGED <<inputs, stage, base, sweep, columns, tried, counters, grid,
                   rows, data, residual, held>>

----------------------------------------------------------------------------
(* What the fit says *)

\* _ReadoutTraceRoutine.analyse: whatever the fit did, both settings are put back.
Analysed == borrowed' = IF plan.method = "trace" THEN {} ELSE borrowed

\* A sweep of its own: the loops inside `escalating` and `amplified` start over.
StartStage(st, s) ==
    /\ pc' = "build"
    /\ stage' = st
    /\ base' = s
    /\ sweep' = s
    /\ tried' = {}
    /\ attempt' = 0
    /\ shortenings' = 0
    /\ UNCHANGED <<inputs, grid, rows, data, borrowed>>

\* The walk applies what the routine returned.
Finish(how) ==
    /\ Over(how)
    /\ held' = "result"
    /\ UNCHANGED <<inputs, stage, base, sweep, columns, tried, counters, grid,
                   rows, data>>

Answer ==
    /\ pc = "fit"
    /\ plan.method \notin {"ramsey", "amplified_90"}
    /\ plan.method = "bias" => Len(data) >= 3
    /\ Finish("measured")
    /\ Analysed
    /\ UNCHANGED residual

\* Ramsey.measure refines: the candidate is applied and measured again.
RefineAgain(r) ==
    /\ StartStage("refine", base)
    /\ held' = "candidate"
    /\ residual' = r
    /\ UNCHANGED <<columns, outcome>>

\* Until the residual is at the floor or the passes are spent.
Refine(r, done) ==
    IF r = 0 \/ done = MAX_REFINEMENTS
    THEN Finish("measured") /\ residual' = r /\ UNCHANGED borrowed
    ELSE RefineAgain(r) /\ passes' = done

\* Ramsey.measure: a fringe at or past the artificial detuning has two roots,
\* and _resolved_root measures both (stages "root" and "other_root").
AnswerRamsey(r) ==
    /\ pc = "fit"
    /\ plan.method = "ramsey"
    /\ \/ /\ stage = "first" /\ r = 3
          /\ StartStage("root", base)
          /\ held' = "candidate"
          /\ UNCHANGED <<columns, passes, residual, outcome>>
       \/ stage = "first" /\ r < 3 /\ Refine(r, 0)
       \/ /\ stage = "root"
          /\ StartStage("other_root", base)
          /\ residual' = r
          /\ UNCHANGED <<columns, passes, held, outcome>>
       \/ stage = "other_root" /\ Refine(Least(r, residual), 0)
       \/ stage = "refine" /\ r < residual /\ Refine(r, passes + 1)
       \/ /\ stage = "refine" /\ r >= residual
          /\ Finish("measured")
          /\ UNCHANGED <<residual, borrowed>>

\* FineAmplitude90.measure: the first pass settles the ladder, and passes follow
\* until one moves the amplitude no further (0) or they are spent. A pass the
\* model cannot describe hands back what the device holds, which has not moved.
AnswerNinety(moved, how) ==
    /\ pc = "fit"
    /\ plan.method = "amplified_90"
    /\ residual' = moved
    /\ IF stage = "first"
       THEN /\ StartStage("refine", sweep)
            /\ held' = "candidate"
            /\ UNCHANGED <<columns, passes, outcome>>
       ELSE IF moved = 0 \/ passes + 1 = MAX_REFINEMENTS
       THEN Finish(how) /\ UNCHANGED borrowed
       ELSE /\ StartStage("refine", base)
            /\ passes' = passes + 1
            /\ held' = "candidate"
            /\ UNCHANGED <<columns, outcome>>

\* F12Spectroscopy.analyse: a line it cannot resolve leaves the f12 measured before,
\* on a device that has one.
PriorStands ==
    /\ pc = "fit"
    /\ plan.method = "prior"
    /\ Finish("republished")
    /\ UNCHANGED <<residual, borrowed>>

\* A plain FitError or RoutineError.
FitFails ==
    /\ pc = "fit"
    /\ GiveUp
    /\ Analysed

EscalateForever(direction, factor) ==
    LET next == Widened(experiment, sweep, direction, factor)
    IN  /\ pc = "fit"
        /\ direction \in plan.asks \ {"shorter"}
        /\ ~ named
        /\ sweep' \in next
        /\ tried' = tried \cup {sweep}
        /\ attempt' = attempt + 1
        /\ pc' = "build"
        /\ UNCHANGED <<inputs, stage, base, columns, shortenings, passes,
                       grid, rows, data, residual, held, borrowed, outcome>>

\* escalating, on an OutOfRange.
Escalate(direction, factor) ==
    LET next == Widened(experiment, sweep, direction, factor)
    IN  /\ pc = "fit"
        /\ direction \in plan.asks \ {"shorter"}
        /\ UNCHANGED borrowed
        /\ IF \/ attempt = MAX_ESCALATIONS
              \/ named
              \/ next = {}
           THEN GiveUp
           ELSE /\ sweep' \in next
                /\ tried' = tried \cup {sweep}
                /\ attempt' = attempt + 1
                /\ pc' = "build"
                /\ UNCHANGED <<inputs, stage, base, columns, shortenings, passes,
                               grid, rows, data, residual, held, outcome>>

Exhausted(s) ==
    shortenings = MAX_SHORTENINGS \/ s.points < MIN_FIT_POINTS \/ s = sweep

ShortenForever ==
    /\ pc = "fit"
    /\ "shorter" \in plan.asks
    /\ sweep' = Shortened(experiment, sweep)
    /\ tried' = {}
    /\ attempt' = 0
    /\ pc' = "build"
    /\ UNCHANGED <<inputs, stage, base, columns, shortenings, passes, grid, rows,
                   data, residual, held, borrowed, outcome>>

\* amplified, on the OutOfRange that wants fewer repetitions.
Shorten ==
    LET next == Shortened(experiment, sweep)
    IN  /\ pc = "fit"
        /\ "shorter" \in plan.asks
        /\ ~ Exhausted(next)
        /\ sweep' = next
        /\ tried' = tried \cup {sweep}
        /\ shortenings' = shortenings + 1
        /\ attempt' = 0
        /\ pc' = "build"
        /\ UNCHANGED <<inputs, stage, base, columns, passes, grid, rows, data,
                       residual, held, borrowed, outcome>>

\* Out of ladder, not out of measurement: the value it was to refine is handed
\* back.
Uncorrected ==
    /\ pc = "fit"
    /\ "shorter" \in plan.asks
    /\ Exhausted(Shortened(experiment, sweep))
    /\ IF plan.method = "amplified_90" THEN AnswerNinety(0, "republished")
       ELSE Finish("republished") /\ UNCHANGED <<residual, borrowed>>

\* _search: one schedule at one amplitude over the band.
Search(width) ==
    /\ pc = "search"
    /\ StartStage("confirm", base)
    /\ columns' = ConfirmPoints(width, points, plan.points)
    /\ UNCHANGED <<passes, residual, held, outcome>>

SearchFails ==
    /\ pc = "search"
    /\ \E how \in {"refused", "acquisition_failed"} : Over(how)
    /\ UNCHANGED <<inputs, stage, base, sweep, columns, tried, counters, grid,
                   rows, data, residual, held, borrowed>>

\* The widths a search may report, in kHz.
Widths == {2000, 100000, 400000}

\* How much more a refusal may ask for, in whole numbers.
Factors == 2..8

Next ==
    \/ Build \/ BuildRefuses \/ Run \/ AcquisitionFails
    \/ Bias \/ EndBias \/ SourceFails
    \/ Answer \/ PriorStands \/ FitFails
    \/ \E r \in Residuals : AnswerRamsey(r)
    \/ \E moved \in {0, 1} : AnswerNinety(moved, "measured")
    \/ \E direction \in {"wider", "finer"}, factor \in Factors :
          Escalate(direction, factor)
    \/ Shorten \/ Uncorrected
    \/ \E width \in Widths : Search(width)
    \/ SearchFails

Spec == Init /\ [][Next]_vars

\* The routine runs in one thread that nothing else waits in: it goes on.
FairSpec == Spec /\ WF_vars(Next)

----------------------------------------------------------------------------
(* Properties *)

\* Every variable holds what the code may put there.
TypeOK ==
    /\ experiment \in Experiments
    /\ pc \in {"build", "run", "fit", "search", "over"}
    /\ stage \in {"first", "root", "other_root", "refine", "confirm"}
    /\ {base, sweep} \cup tried \subseteq [low : Int, high : Int, points : Nat]
    /\ attempt \in 0..MAX_ESCALATIONS
    /\ shortenings \in 0..MAX_SHORTENINGS
    /\ passes \in 0..MAX_REFINEMENTS
    /\ columns \in Nat \ {0}
    /\ Len(data) <= Len(Grid(experiment, sweep, incumbent))
    /\ residual \in Residuals
    /\ held \in {"prior", "candidate", "result"}
    /\ borrowed \subseteq {"delay", "window", "current"}
    /\ outcome \in Outcomes
    /\ (outcome = "pending") <=> (pc # "over")

\* Every measurement comes to an end, however its fits refuse: three loops and a
\* search nest here, and each of them may be asked to go round again.
MeasurementEnds == <>(pc = "over")

\* `analyse` is handed the rows it goes by: every row played once, in order, however
\* many schedules they were split over, and the rows it holds are the whole grid's
\* again, not the last schedule's (acquire_in_row_chunks, RB.acquire).
RowsAreWhatAnalyseFits ==
    pc = "fit" /\ plan.method # "bias" => rows = grid /\ data = Played(experiment, grid)

\* A refusal is answered by another sweep, not by one that was refused already in the
\* same measurement: there is nothing to hope for from it.  What is compared is what
\* is played, after the port has trimmed it.  Only a frequency sweep of
\* MAX_SWEEP_POINTS may come again: asked for a finer one, or for a wider one past
\* what the port reaches, there is no more to give.
EveryTryIsAnotherSweep ==
    pc = "build" /\ Swept(sweep) \in {Swept(s) : s \in tried}
        => plan.axis = "span" /\ sweep.points = MAX_SWEEP_POINTS

\* However it was widened or shortened, a sweep can be played and fitted: never
\* past the ceiling of its axis (full scale, six T1), a ladder still of four
\* counts or more, and of odd ones for the quarter turn.
SweepIsPlayable ==
    /\ sweep.high <= plan.ceiling /\ sweep.low >= - plan.ceiling
    /\ plan.axis = "ladder" =>
         /\ sweep.points >= MIN_FIT_POINTS
         /\ ((sweep.high - sweep.low) \div (sweep.points - 1)) % plan.step = 0

\* What a measurement borrowed is put back when it is over, a coupler's parking
\* current as well as a trace's delay and window, with two exceptions: a trace whose
\* acquisition raised never reaches `analyse`, and a bias source that fails may not
\* take the current back.
BorrowedSettingIsReturned ==
    pc = "over" /\ borrowed # {}
        => \/ plan.method = "trace" /\ outcome = "acquisition_failed"
           \/ plan.method = "bias" /\ outcome = "source_failed"

\* The integration time to be replaced is "measured beside the alternatives" as
\* it stands, past the pulse or not (ReadoutIntegrationTime._grid).
IncumbentIsMeasuredAsItStands ==
    pc = "fit" /\ plan.grid = "windows" => data = rows

\* "The most points escalation will put in one sweep" (MAX_SWEEP_POINTS).
EscalationStaysInOneSchedule ==
    [][sweep.points <= MAX_SWEEP_POINTS => sweep'.points <= MAX_SWEEP_POINTS]_sweep

=============================================================================
