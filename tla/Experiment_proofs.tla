-------------------------- MODULE Experiment_proofs --------------------------
(***************************************************************************)
(* Theorems about Experiment, for any of the measurements, whatever an     *)
(* operator names for the points of a frequency sweep, a port reaches and  *)
(* a device was integrating for.                                           *)
(***************************************************************************)
EXTENDS Experiment, FiniteSetTheorems, TLAPS

-----------------------------------------------------------------------------
(* The plans. *)

\* A sweep may be widened along a list or a span, and shortened along a ladder; what
\* has no axis, borrows a setting or makes several measurements of one ladder is told
\* by its method.  A list that goes below zero is centred on it.
PlanOK(e, p) ==
  /\ p.axis \in {"none", "list", "span", "ladder"}
  /\ p.axis = "none" => p.asks = {} /\ p.low = 0 /\ p.high = 0
  /\ p.axis = "span" => p.asks = {"wider", "finer"} /\ p.low = 0 /\ p.high = 20
  /\ p.axis \in {"none", "span"} => p.ceiling = UNBOUNDED
  /\ p.axis = "list" =>
       /\ p.asks \subseteq {"wider", "finer"}
       /\ p.low \in Int /\ p.high \in Int /\ p.ceiling \in Int /\ p.points \in Nat \ {0}
       /\ p.high <= p.ceiling
       /\ IF p.low < 0 THEN p.low = -p.high ELSE p.low < p.high
  /\ p.axis = "ladder" =>
       p = IF e = "fine_amplitude_90" THEN FineAmplitude90 ELSE FineAmplitude
  /\ p.axis = "ladder" <=> p.asks = {"shorter"}
  /\ p.method = "amplified_90" => p.axis = "ladder"
  /\ p.shots > 0 => p.points \in Nat \ {0}
  /\ p.method \in {"bias", "trace"} => p.asks = {} /\ ~ p.trimmed /\ p.shots = 0

LEMMA PlansOK == \A e \in DOMAIN Plan : PlanOK(e, Plan[e])
<1> USE DEF Plan0, PlanOK, UNBOUNDED
<1>1. PlanOK("rabi", Rabi)
  BY SMT DEF Rabi
<1>2. PlanOK("t1", T1)
  BY SMT DEF T1
<1>3. PlanOK("t2_echo", T2Echo)
  BY SMT DEF T1, T2Echo
<1>4. PlanOK("ramsey", Ramsey)
  BY SMT DEF Ramsey
<1>5. PlanOK("drag", Drag)
  BY SMT DEF Drag
<1>6. PlanOK("fine_amplitude", FineAmplitude)
  BY SMT DEF FineAmplitude
<1>7. PlanOK("fine_amplitude_90", FineAmplitude90)
  BY SMT DEF FineAmplitude, FineAmplitude90
<1>8. PlanOK("resonator_spectroscopy", ResonatorSpectroscopy)
  BY SMT DEF ResonatorSpectroscopy
<1>9. PlanOK("qubit_spectroscopy", QubitSpectroscopy)
  BY SMT DEF QubitSpectroscopy
<1>10. PlanOK("resonator_punchout", ResonatorPunchout)
  BY SMT DEF ResonatorPunchout
<1>11. PlanOK("rb", RandomizedBenchmarking)
  BY SMT DEF RandomizedBenchmarking
<1>12. PlanOK("readout_integration_time", ReadoutIntegrationTime)
  BY SMT DEF ReadoutIntegrationTime
<1>13. PlanOK("time_of_flight", ReadoutTraceRoutine)
  BY SMT DEF ReadoutTraceRoutine
<1>14. PlanOK("coupler_anticrossing", CouplerAnticrossing)
  BY SMT DEF CouplerAnticrossing
<1>15. /\ PlanOK("resonator_spectroscopy_excited", ResonatorSpectroscopyExcited)
       /\ PlanOK("resonator_spectroscopy_second_excited", ResonatorSpectroscopySecondExcited)
       /\ PlanOK("f12_spectroscopy", F12Spectroscopy)
       /\ PlanOK("flux_spectroscopy", FluxSpectroscopy)
  BY SMT DEF ResonatorSpectroscopyExcited, ResonatorSpectroscopySecondExcited,
             F12Spectroscopy, FluxSpectroscopy, ResonatorPunchout
<1>16. /\ PlanOK("allxy", AllXY) /\ PlanOK("allxy_check", AllXYCheck)
       /\ PlanOK("readout_operating_point", ReadoutOperatingPoint)
       /\ PlanOK("three_state_operating_point", ThreeStateOperatingPoint)
       /\ PlanOK("readout_discrimination", ReadoutDiscrimination)
       /\ PlanOK("readout_fidelity", ReadoutFidelity)
       /\ PlanOK("three_state_discrimination", ThreeStateDiscrimination)
  BY SMT DEF AllXY, AllXYCheck, ReadoutOperatingPoint, ThreeStateOperatingPoint,
             ReadoutDiscrimination, ReadoutFidelity, ThreeStateDiscrimination
<1>17. /\ PlanOK("rabi_12", Rabi12) /\ PlanOK("ef_ladder", EfLadder)
       /\ PlanOK("ramsey_12", Ramsey12)
  BY SMT DEF Rabi12, EfLadder, Ramsey12
<1>18. PlanOK("fine_amplitude_12", FineAmplitude12)
  BY SMT DEF FineAmplitude12, FineAmplitude
<1>19. PlanOK("drag_12", Drag12)
  BY SMT DEF Drag12, Drag
<1>20. /\ PlanOK("cz_spectroscopy", CZSpectroscopy)
       /\ PlanOK("cz_parametrization", CZParametrization)
       /\ PlanOK("cz_chevron", CZChevron)
       /\ PlanOK("conditional_phase", ConditionalPhase)
       /\ PlanOK("interleaved_rb", InterleavedRB)
       /\ PlanOK("resonator_relaxation", ReadoutTraceRoutine)
  BY SMT DEF CZSpectroscopy, CZParametrization, CZChevron, ConditionalPhase,
             InterleavedRB, RandomizedBenchmarking, ReadoutTraceRoutine
<1> HIDE DEF PlanOK
<1> QED
  BY <1>1, <1>2, <1>3, <1>4, <1>5, <1>6, <1>7, <1>8, <1>9, <1>10, <1>11, <1>12, <1>13, <1>14,
     <1>15, <1>16, <1>17, <1>18, <1>19, <1>20, SMTT(60)
     DEF Plan

\* The counts a ladder may hold, from the default one down.
Ladder(top, count) == [low |-> 1, high |-> top, points |-> count]
Ladders(e) ==
  IF e = "fine_amplitude_90" THEN {Ladder(13, 4), Ladder(7, 4)}
  ELSE {Ladder(25, 25), Ladder(12, 12), Ladder(6, 6), Ladder(4, 4)}

LEMMA LadderPlans ==
  ASSUME NEW e \in DOMAIN Plan, Plan[e].axis = "ladder"
  PROVE  /\ Plan[e].step = IF e = "fine_amplitude_90" THEN 2 ELSE 1
         /\ \A n : Default(e, n) \in Ladders(e)
         /\ \A s \in Ladders(e) : s.high <= Plan[e].ceiling /\ s.low >= -Plan[e].ceiling
<1>1. Plan[e] = IF e = "fine_amplitude_90" THEN FineAmplitude90 ELSE FineAmplitude
  <2>1. PlanOK(e, Plan[e])
    BY PlansOK
  <2> QED
    BY <2>1 DEF PlanOK
<1>2. CASE e # "fine_amplitude_90"
  <2>1. /\ Plan[e].step = 1 /\ Plan[e].low = 1 /\ Plan[e].high = 25 /\ Plan[e].points = 25
        /\ Plan[e].axis = "ladder" /\ Plan[e].ceiling = 1000000
    BY <1>1, <1>2, SMT DEF Plan0, FineAmplitude, UNBOUNDED
  <2> QED
    BY <1>2, <2>1 DEF Default, Ladders, Ladder
<1>3. CASE e = "fine_amplitude_90"
  <2>1. /\ Plan[e].step = 2 /\ Plan[e].low = 1 /\ Plan[e].high = 13 /\ Plan[e].points = 4
        /\ Plan[e].axis = "ladder" /\ Plan[e].ceiling = 1000000
    BY <1>1, <1>3, SMT DEF Plan0, FineAmplitude, FineAmplitude90, UNBOUNDED
  <2> QED
    BY <1>3, <2>1 DEF Default, Ladders, Ladder
<1> QED
  BY <1>1, <1>2, <1>3

\* A ladder is shortened to a lower one, or is the lowest.
LEMMA ShortenedLadder ==
  ASSUME NEW e \in DOMAIN Plan, Plan[e].axis = "ladder", NEW s \in Ladders(e)
  PROVE  /\ Shortened(e, s) \in Ladders(e)
         /\ Shortened(e, s) = s \/ Shortened(e, s).high < s.high
<1>1. Plan[e].step = IF e = "fine_amplitude_90" THEN 2 ELSE 1
  BY LadderPlans
<1>2. CASE e # "fine_amplitude_90"
  <2>1. \A t : Shortened(e, Ladder(t, t)) =
          LET top == Most(t \div 2, 1 + 1 * 3)
              count == (top - 1) \div 1 + 1
          IN  [low |-> 1, high |-> 1 + 1 * (count - 1), points |-> count]
    BY <1>1, <1>2 DEF Shortened, Ladder, MIN_FIT_POINTS
  <2>2. /\ Shortened(e, Ladder(25, 25)) = Ladder(12, 12)
        /\ Shortened(e, Ladder(12, 12)) = Ladder(6, 6)
        /\ Shortened(e, Ladder(6, 6)) = Ladder(4, 4)
        /\ Shortened(e, Ladder(4, 4)) = Ladder(4, 4)
    BY <2>1 DEF Ladder, Most
  <2> QED
    BY <1>2, <2>2 DEF Ladders, Ladder
<1>3. CASE e = "fine_amplitude_90"
  <2>1. \A t : Shortened(e, Ladder(t, 4)) =
          LET top == Most(t \div 2, 1 + 2 * 3)
              count == (top - 1) \div 2 + 1
          IN  [low |-> 1, high |-> 1 + 2 * (count - 1), points |-> count]
    BY <1>1, <1>3 DEF Shortened, Ladder, MIN_FIT_POINTS
  <2>2. /\ Shortened(e, Ladder(13, 4)) = Ladder(7, 4)
        /\ Shortened(e, Ladder(7, 4)) = Ladder(7, 4)
    BY <2>1 DEF Ladder, Most
  <2> QED
    BY <1>3, <2>2 DEF Ladders, Ladder
<1> QED
  BY <1>1, <1>2, <1>3

\* A ladder has the counts a fit needs, and odd ones for the quarter turn.
LEMMA LadderCounts ==
  ASSUME NEW e \in DOMAIN Plan, Plan[e].axis = "ladder", NEW s \in Ladders(e)
  PROVE  /\ s.points >= MIN_FIT_POINTS
         /\ ((s.high - s.low) \div (s.points - 1)) % Plan[e].step = 0
<1>1. Plan[e].step = IF e = "fine_amplitude_90" THEN 2 ELSE 1
  BY LadderPlans
<1>2. CASE e # "fine_amplitude_90"
  BY <1>1, <1>2 DEF Ladders, Ladder, MIN_FIT_POINTS
<1>3. CASE e = "fine_amplitude_90"
  BY <1>1, <1>3 DEF Ladders, Ladder, MIN_FIT_POINTS
<1> QED
  BY <1>1, <1>2, <1>3

-----------------------------------------------------------------------------
(* The sweeps. *)

SweepType == [low : Int, high : Int, points : Nat \ {0}]

\* How far a span may reach once it was widened a times, by no more than 8 each time.
SpanReach(a) == IF a = 0 THEN 20 ELSE IF a = 1 THEN 160 ELSE IF a = 2 THEN 1280 ELSE 10240

\* What a sweep of the measurement e is like after a refusals that widened it.
Fits(e, s, a) ==
  /\ Plan[e].axis = "none" => s.low = 0 /\ s.high = 0
  /\ Plan[e].axis = "span" => s \in SweepType /\ s.low = 0 /\ s.high \in 1..SpanReach(a)
  /\ Plan[e].axis = "list" =>
       /\ s \in SweepType
       /\ s.high <= Plan[e].ceiling
       /\ IF Plan[e].low < 0 THEN s.high >= 1 /\ s.low = -s.high
          ELSE s.low >= 0 /\ s.low < s.high
  /\ Plan[e].axis = "ladder" => s \in Ladders(e)

\* No longer, no finer, and one of the two less: what was widened is never met again.
Below(t, s) ==
  /\ t.high <= s.high /\ t.points <= s.points
  /\ t.high < s.high \/ t.points < s.points

LEMMA DefaultFits ==
  ASSUME NEW e \in DOMAIN Plan, NEW n \in Nat \ {0}
  PROVE  Fits(e, Default(e, n), 0)
<1>1. PlanOK(e, Plan[e])
  BY PlansOK
<1>2. Plan[e].axis = "ladder" => Default(e, n) \in Ladders(e)
  BY LadderPlans
<1> DEFINE d == Default(e, n)
<1>3. /\ d.low = Plan[e].low /\ d.high = Plan[e].high
      /\ Plan[e].axis = "span" => d = [low |-> Plan[e].low, high |-> Plan[e].high, points |-> n]
      /\ Plan[e].axis # "span" =>
           d = [low |-> Plan[e].low, high |-> Plan[e].high, points |-> Plan[e].points]
  BY DEF Default
<1> HIDE DEF d
<1>4. Plan[e].axis = "none" => d.low = 0 /\ d.high = 0
  BY <1>1, <1>3 DEF PlanOK
<1>5. Plan[e].axis = "span" => d \in SweepType /\ d.low = 0 /\ d.high \in 1..SpanReach(0)
  <2> SUFFICES ASSUME Plan[e].axis = "span"
               PROVE  d \in SweepType /\ d.low = 0 /\ d.high \in 1..SpanReach(0)
    OBVIOUS
  <2>1. Plan[e].low = 0 /\ Plan[e].high = 20
    BY <1>1 DEF PlanOK
  <2>2. d = [low |-> 0, high |-> 20, points |-> n]
    BY <1>3, <2>1
  <2> QED
    BY <2>2 DEF SweepType, SpanReach
<1>6. Plan[e].axis = "list" =>
       /\ d \in SweepType
       /\ d.high <= Plan[e].ceiling
       /\ IF Plan[e].low < 0 THEN d.high >= 1 /\ d.low = -d.high
          ELSE d.low >= 0 /\ d.low < d.high
  <2> SUFFICES ASSUME Plan[e].axis = "list"
               PROVE  /\ d \in SweepType
                      /\ d.high <= Plan[e].ceiling
                      /\ IF Plan[e].low < 0 THEN d.high >= 1 /\ d.low = -d.high
                         ELSE d.low >= 0 /\ d.low < d.high
    OBVIOUS
  <2>1. /\ Plan[e].low \in Int /\ Plan[e].high \in Int /\ Plan[e].points \in Nat \ {0}
        /\ Plan[e].high <= Plan[e].ceiling
        /\ IF Plan[e].low < 0 THEN Plan[e].low = -Plan[e].high ELSE Plan[e].low < Plan[e].high
    BY <1>1 DEF PlanOK
  <2>2. d = [low |-> Plan[e].low, high |-> Plan[e].high, points |-> Plan[e].points]
    BY <1>3
  <2>3. d \in SweepType
    BY <2>1, <2>2 DEF SweepType
  <2> QED
    BY <1>3, <2>1, <2>3
<1> QED
  BY <1>2, <1>4, <1>5, <1>6 DEF Fits, d

LEMMA WidenedListFits ==
  ASSUME NEW s \in SweepType, NEW ceiling \in Int, s.high <= ceiling,
         IF s.low < 0 THEN s.high >= 1 /\ s.low = -s.high ELSE s.low < s.high,
         NEW direction, NEW factor \in Factors,
         NEW t \in WidenedList(s, direction, factor, ceiling)
  PROVE  /\ t \in SweepType /\ Below(s, t)
         /\ t.high <= ceiling
         /\ IF s.low < 0 THEN t.high >= 1 /\ t.low = -t.high
            ELSE t.low = s.low /\ t.low < t.high
<1>0. factor \in Int /\ factor >= 2
  BY DEF Factors
<1> DEFINE centre == (s.low + s.high) \div 2
           reach == ((s.high - s.low) * factor) \div 2
           top == Least(s.low + (s.high - s.low) * factor, ceiling)
<1>1. CASE direction = "finer"
  <2>1. t = [s EXCEPT !.points = s.points * factor]
    BY <1>1 DEF WidenedList
  <2>2. s.points * factor \in Nat /\ s.points * factor > s.points
    BY <1>0 DEF SweepType
  <2> QED
    BY <2>1, <2>2 DEF SweepType, Below
<1>2. CASE direction # "finer" /\ s.low < 0
  <2>1. reach < ceiling
        /\ t = [s EXCEPT !.low = Most(centre - reach, -ceiling), !.high = Least(centre + reach, ceiling)]
    <3>1. reach \in Int
      BY <1>0 DEF SweepType
    <3> HIDE DEF centre, reach
    <3>2. t \in IF reach >= ceiling THEN {}
                ELSE {[s EXCEPT !.low = Most(centre - reach, -ceiling),
                                !.high = Least(centre + reach, ceiling)]}
      BY <1>2 DEF WidenedList, centre, reach
    <3> QED
      BY <3>1, <3>2
  <2>2. centre = 0 /\ reach = s.high * factor /\ reach > s.high /\ reach \in Int
    BY <1>0, <1>2 DEF SweepType, Factors
  <2> HIDE DEF centre, reach
  <2>3. t = [s EXCEPT !.low = -reach, !.high = reach]
    <3>1. Most(0 - reach, -ceiling) = -reach /\ Least(0 + reach, ceiling) = reach
      BY <2>1, <2>2 DEF Most, Least
    <3> QED
      BY <2>1, <2>2, <3>1
  <2>4. t.low = -reach /\ t.high = reach /\ t.points = s.points /\ t \in SweepType
    <3>1. -reach \in Int
      BY <2>2
    <3> DEFINE m == -reach
    <3> HIDE DEF m
    <3>2. t = [s EXCEPT !.low = m, !.high = reach] /\ m \in Int
      BY <2>3, <3>1 DEF m
    <3>3. t.low = m /\ t.high = reach /\ t.points = s.points /\ t \in SweepType
      BY <2>2, <3>2 DEF SweepType
    <3> QED
      BY <3>3 DEF m
  <2>5. s.high \in Int /\ s.high >= 1 /\ s.points \in Nat
    BY <1>2 DEF SweepType
  <2> QED
    BY <1>2, <2>1, <2>2, <2>4, <2>5 DEF Below
<1>3. CASE direction # "finer" /\ ~ (s.low < 0)
  <2>1. t \in IF top <= s.high THEN {} ELSE {[s EXCEPT !.high = top]}
    BY <1>3 DEF WidenedList
  <2>2. top \in Int /\ top <= ceiling
    BY <1>0 DEF SweepType, Least
  <2> HIDE DEF top
  <2>3. top > s.high /\ t = [s EXCEPT !.high = top]
    BY <2>1, <2>2 DEF SweepType
  <2> QED
    BY <1>3, <2>2, <2>3 DEF SweepType, Below
<1> QED
  BY <1>1, <1>2, <1>3

LEMMA WidenedSpanFits ==
  ASSUME NEW s \in SweepType, NEW a \in 0..2, s.low = 0, s.high \in 1..SpanReach(a),
         NEW direction, NEW factor \in Factors,
         NEW t \in WidenedSpan(s, direction, factor)
  PROVE  /\ t \in SweepType /\ t.low = 0 /\ t.high \in 1..SpanReach(a + 1)
         /\ t.points = MAX_SWEEP_POINTS \/ s.points < t.points
         /\ s.points = MAX_SWEEP_POINTS => t.points = MAX_SWEEP_POINTS
<1> DEFINE count == Least(s.points * factor, MAX_SWEEP_POINTS)
<1>1. /\ count \in Nat \ {0}
      /\ count = MAX_SWEEP_POINTS \/ count > s.points
      /\ s.points = MAX_SWEEP_POINTS => count = MAX_SWEEP_POINTS
  BY DEF SweepType, Least, MAX_SWEEP_POINTS, Factors
<1>2. t = [s EXCEPT !.points = count]
      \/ t = [s EXCEPT !.high = s.high * factor, !.points = count]
  BY DEF WidenedSpan
<1>3. /\ s.high * factor \in 1..SpanReach(a + 1)
      /\ s.high * factor >= s.high /\ s.high * factor \in Int
      /\ s.high \in 1..SpanReach(a + 1)
  BY DEF SpanReach, Factors
<1> HIDE DEF count
<1>4. CASE t = [s EXCEPT !.points = count]
  <2>1. t \in SweepType /\ t.low = 0 /\ t.high = s.high /\ t.points = count
    BY <1>1, <1>4 DEF SweepType
  <2> QED
    BY <1>1, <1>3, <2>1 DEF SweepType
<1>5. CASE t = [s EXCEPT !.high = s.high * factor, !.points = count]
  <2>1. t \in SweepType /\ t.low = 0 /\ t.high = s.high * factor /\ t.points = count
    BY <1>1, <1>3, <1>5 DEF SweepType
  <2> QED
    BY <1>1, <1>3, <2>1 DEF SweepType
<1> QED
  BY <1>2, <1>4, <1>5

LEMMA WidenedFits ==
  ASSUME NEW e \in DOMAIN Plan, NEW a \in 0..2, NEW s, Fits(e, s, a),
         NEW direction \in Plan[e].asks \ {"shorter"}, NEW factor \in Factors,
         NEW t \in Widened(e, s, direction, factor)
  PROVE  /\ Fits(e, t, a + 1)
         /\ Plan[e].axis \in {"list", "span"}
         /\ s \in SweepType /\ t \in SweepType
         /\ Plan[e].axis = "list" => Below(s, t)
         /\ Plan[e].axis = "span" =>
              /\ t.points = MAX_SWEEP_POINTS \/ s.points < t.points
              /\ s.points = MAX_SWEEP_POINTS => t.points = MAX_SWEEP_POINTS
<1>1. PlanOK(e, Plan[e])
  BY PlansOK
<1>2. Plan[e].axis \in {"list", "span"}
  BY <1>1 DEF PlanOK
<1>3. CASE Plan[e].axis = "list"
  <2>1. /\ s \in SweepType /\ Plan[e].ceiling \in Int /\ s.high <= Plan[e].ceiling
        /\ IF Plan[e].low < 0 THEN s.high >= 1 /\ s.low = -s.high
           ELSE s.low >= 0 /\ s.low < s.high
    BY <1>1, <1>3 DEF PlanOK, Fits
  <2>2. /\ (s.low < 0) <=> (Plan[e].low < 0)
        /\ IF s.low < 0 THEN s.high >= 1 /\ s.low = -s.high ELSE s.low < s.high
    BY <1>3, <2>1 DEF SweepType
  <2>3. t \in WidenedList(s, direction, factor, Plan[e].ceiling)
    BY <1>3 DEF Widened
  <2>4. /\ t \in SweepType /\ Below(s, t) /\ t.high <= Plan[e].ceiling
        /\ IF s.low < 0 THEN t.high >= 1 /\ t.low = -t.high
           ELSE t.low = s.low /\ t.low < t.high
    BY <2>1, <2>2, <2>3, WidenedListFits
  <2> QED
    BY <1>3, <2>1, <2>2, <2>4 DEF Fits
<1>4. CASE Plan[e].axis = "span"
  <2>1. s \in SweepType /\ s.low = 0 /\ s.high \in 1..SpanReach(a)
    BY <1>4 DEF Fits
  <2>2. t \in WidenedSpan(s, direction, factor)
    BY <1>4 DEF Widened
  <2>3. /\ t \in SweepType /\ t.low = 0 /\ t.high \in 1..SpanReach(a + 1)
        /\ t.points = MAX_SWEEP_POINTS \/ s.points < t.points
        /\ s.points = MAX_SWEEP_POINTS => t.points = MAX_SWEEP_POINTS
    BY <2>1, <2>2, WidenedSpanFits
  <2> QED
    BY <1>4, <2>1, <2>3 DEF Fits
<1> QED
  BY <1>2, <1>3, <1>4

-----------------------------------------------------------------------------
(* What a step does to the sweep. *)

Same == UNCHANGED <<experiment, base, sweep, tried, attempt>>

Restarted ==
  /\ base' = base \/ (plan.method = "amplified_90" /\ base' = sweep)
  /\ sweep' = base' /\ tried' = {} /\ attempt' = 0
  /\ UNCHANGED experiment

Widening ==
  /\ attempt # MAX_ESCALATIONS
  /\ \E direction \in plan.asks \ {"shorter"}, factor \in Factors :
        sweep' \in Widened(experiment, sweep, direction, factor)
  /\ tried' = tried \cup {sweep}
  /\ attempt' = attempt + 1
  /\ UNCHANGED <<experiment, base>>

Shortening ==
  /\ "shorter" \in plan.asks
  /\ sweep' = Shortened(experiment, sweep) /\ sweep' # sweep
  /\ tried' = tried \cup {sweep}
  /\ attempt' = 0
  /\ UNCHANGED <<experiment, base>>

LEMMA SweepSteps ==
  ASSUME [Next]_vars
  PROVE  Same \/ Restarted \/ Widening \/ Shortening
<1> USE DEF Same, Restarted, Widening, Shortening, inputs, counters
<1>1. CASE Build \/ BuildRefuses \/ Run \/ AcquisitionFails \/ Bias \/ EndBias \/ SourceFails
  BY <1>1 DEF Build, BuildRefuses, GiveUp, Run, AcquisitionFails, Bias, EndBias, SourceFails
<1>2. CASE Answer \/ PriorStands \/ FitFails \/ SearchFails
  BY <1>2 DEF Answer, PriorStands, Finish, FitFails, GiveUp, SearchFails
<1>3. ASSUME NEW r \in Residuals, AnswerRamsey(r)
      PROVE  Same \/ Restarted
  BY <1>3 DEF AnswerRamsey, StartStage, Refine, RefineAgain, Finish
<1>4. ASSUME NEW moved, NEW how, AnswerNinety(moved, how)
      PROVE  Same \/ Restarted
  <2>1. plan.method = "amplified_90"
    BY <1>4 DEF AnswerNinety
  <2>2. StartStage("refine", sweep) \/ StartStage("refine", base) \/ Finish(how)
    BY <1>4 DEF AnswerNinety
  <2>3. CASE StartStage("refine", sweep)
    BY <2>1, <2>3 DEF StartStage
  <2>4. CASE StartStage("refine", base)
    BY <2>4 DEF StartStage
  <2>5. CASE Finish(how)
    BY <2>5 DEF Finish
  <2> QED
    BY <2>2, <2>3, <2>4, <2>5
<1>5. ASSUME NEW direction \in {"wider", "finer"}, NEW factor \in Factors,
             Escalate(direction, factor)
      PROVE  Same \/ Widening
  <2>1. direction \in plan.asks \ {"shorter"}
    BY <1>5 DEF Escalate
  <2>2. CASE GiveUp
    BY <2>2 DEF GiveUp
  <2>3. CASE ~ GiveUp
    BY <1>5, <2>1, <2>3 DEF Escalate
  <2> QED
    BY <2>2, <2>3
<1>6. CASE Shorten
  BY <1>6 DEF Shorten, Exhausted
<1>7. CASE Uncorrected
  <2>1. AnswerNinety(0, "republished") \/ Finish("republished")
    BY <1>7 DEF Uncorrected
  <2> QED
    BY <1>4, <2>1 DEF Finish
<1>8. ASSUME NEW width \in Widths, Search(width)
      PROVE  Restarted
  BY <1>8 DEF Search, StartStage
<1>9. CASE UNCHANGED vars
  BY <1>9 DEF vars
<1> QED
  BY <1>1, <1>2, <1>3, <1>4, <1>5, <1>6, <1>7, <1>8, <1>9 DEF Next

\* The invariant: the sweep fits its axis after the refusals so far, and every sweep
\* refused in this stage is below it, or above it on a ladder.
SweepInv ==
  /\ experiment \in DOMAIN Plan
  /\ attempt \in 0..MAX_ESCALATIONS
  /\ Fits(experiment, base, 0)
  /\ Fits(experiment, sweep, attempt)
  /\ plan.axis = "none" => tried = {}
  /\ plan.axis \in {"list", "span"} => tried \subseteq SweepType
  /\ plan.axis = "list" => \A t \in tried : Below(t, sweep)
  /\ plan.axis = "span" =>
       sweep.points = MAX_SWEEP_POINTS \/ \A t \in tried : t.points < sweep.points
  /\ plan.axis = "ladder" =>
       tried \subseteq Ladders(experiment) /\ \A t \in tried : t.high > sweep.high

LEMMA Axes ==
  ASSUME NEW e \in DOMAIN Plan
  PROVE  /\ Plan[e].axis \in {"none", "list", "span", "ladder"}
         /\ "shorter" \in Plan[e].asks => Plan[e].axis = "ladder"
         /\ Plan[e].method = "amplified_90" => Plan[e].axis = "ladder"
<1>1. PlanOK(e, Plan[e])
  BY PlansOK
<1> QED
  BY <1>1 DEF PlanOK

LEMMA PointsGiven == Init => points \in Nat \ {0}
<1> SUFFICES ASSUME Init PROVE points \in Nat \ {0}
  OBVIOUS
<1>1. points \in NamedPoints \/ points = 51 \/ (plan.shots > 0 /\ points = plan.points)
  BY DEF Init
<1>2. ASSUME points \in NamedPoints PROVE points \in Nat \ {0}
  BY <1>2, ConstantAssumption
<1>3. 51 \in Nat \ {0}
  OBVIOUS
<1>4. ASSUME plan.shots > 0 PROVE plan.points \in Nat \ {0}
  <2>1. experiment \in DOMAIN Plan
    BY ExperimentAssumption DEF Init
  <2>2. PlanOK(experiment, Plan[experiment])
    BY <2>1, PlansOK
  <2> QED
    BY <1>4, <2>2 DEF PlanOK, plan
<1> QED
  BY <1>1, <1>2, <1>3, <1>4

LEMMA SweepInit == Init => SweepInv
<1> SUFFICES ASSUME Init PROVE SweepInv
  OBVIOUS
<1>1. experiment \in DOMAIN Plan
  BY ExperimentAssumption DEF Init
<1>2. points \in Nat \ {0}
  BY PointsGiven
<1>3. Fits(experiment, Default(experiment, points), 0)
  BY <1>1, <1>2, DefaultFits
<1> QED
  BY <1>1, <1>3 DEF Init, SweepInv, MAX_ESCALATIONS

LEMMA BelowTransitive ==
  ASSUME NEW s \in SweepType, NEW t \in SweepType, NEW u \in SweepType,
         Below(s, t), Below(t, u)
  PROVE  Below(s, u)
BY DEF Below, SweepType

LEMMA SweepNext == SweepInv /\ [Next]_vars => SweepInv'
<1> SUFFICES ASSUME SweepInv, [Next]_vars PROVE SweepInv'
  OBVIOUS
<1>0. experiment \in DOMAIN Plan /\ attempt \in 0..MAX_ESCALATIONS
  BY DEF SweepInv
<1>a. plan.axis \in {"none", "list", "span", "ladder"}
  BY <1>0, Axes DEF plan
<1>1. CASE Same
  BY <1>1 DEF Same, SweepInv, plan
<1>2. CASE Restarted
  <2>1. experiment' = experiment /\ attempt' = 0 /\ tried' = {} /\ sweep' = base'
    BY <1>2 DEF Restarted
  <2>2. Fits(experiment, base', 0)
    <3>1. CASE base' = base
      BY <3>1 DEF SweepInv
    <3>2. CASE plan.method = "amplified_90" /\ base' = sweep
      <4>1. Plan[experiment].axis = "ladder"
        BY <1>0, <3>2, Axes DEF plan
      <4>2. sweep \in Ladders(experiment)
        BY <4>1 DEF SweepInv, Fits
      <4> QED
        BY <3>2, <4>1, <4>2 DEF Fits
    <3> QED
      BY <1>2, <3>1, <3>2 DEF Restarted
  <2> QED
    BY <1>0, <2>1, <2>2 DEF SweepInv, plan, MAX_ESCALATIONS
<1>3. CASE Widening
  <2>1. /\ experiment' = experiment /\ base' = base
        /\ attempt' = attempt + 1 /\ tried' = tried \cup {sweep}
        /\ attempt \in 0..2 /\ attempt + 1 \in 0..MAX_ESCALATIONS
    BY <1>0, <1>3 DEF Widening, MAX_ESCALATIONS
  <2>2. Fits(experiment, base, 0) /\ Fits(experiment, sweep, attempt)
    BY DEF SweepInv
  <2>3. /\ Fits(experiment, sweep', attempt + 1)
        /\ plan.axis \in {"list", "span"}
        /\ sweep \in SweepType /\ sweep' \in SweepType
        /\ plan.axis = "list" => Below(sweep, sweep')
        /\ plan.axis = "span" =>
             /\ sweep'.points = MAX_SWEEP_POINTS \/ sweep.points < sweep'.points
             /\ sweep.points = MAX_SWEEP_POINTS => sweep'.points = MAX_SWEEP_POINTS
    <3>1. PICK direction \in Plan[experiment].asks \ {"shorter"}, factor \in Factors :
            sweep' \in Widened(experiment, sweep, direction, factor)
      BY <1>3 DEF Widening, plan
    <3> QED
      BY <1>0, <2>1, <2>2, <3>1, WidenedFits DEF plan
  <2>4. tried \subseteq SweepType
    BY <2>3 DEF SweepInv
  <2>5. ASSUME \A t \in tried : Below(t, sweep), Below(sweep, sweep')
        PROVE  \A t \in tried' : Below(t, sweep')
    BY <2>1, <2>3, <2>4, <2>5, BelowTransitive
  <2>6. plan.axis = "list" => \A t \in tried' : Below(t, sweep')
    BY <2>3, <2>5 DEF SweepInv
  <2>7. plan.axis = "span" =>
          sweep'.points = MAX_SWEEP_POINTS \/ \A t \in tried' : t.points < sweep'.points
    <3> SUFFICES ASSUME plan.axis = "span", sweep'.points # MAX_SWEEP_POINTS
                 PROVE  \A t \in tried' : t.points < sweep'.points
      OBVIOUS
    <3>1. sweep.points < sweep'.points /\ sweep.points # MAX_SWEEP_POINTS
      BY <2>3
    <3>2. \A t \in tried : t.points < sweep.points
      BY <3>1 DEF SweepInv
    <3> QED
      BY <2>1, <2>3, <2>4, <3>1, <3>2 DEF SweepType
  <2>8. tried' \subseteq SweepType
    BY <2>1, <2>3, <2>4
  <2>9. plan' = plan
    BY <2>1 DEF plan
  <2> QED
    BY <1>0, <2>1, <2>2, <2>3, <2>6, <2>7, <2>8, <2>9 DEF SweepInv
<1>4. CASE Shortening
  <2>1. /\ experiment' = experiment /\ base' = base
        /\ attempt' = 0 /\ tried' = tried \cup {sweep}
        /\ sweep' = Shortened(experiment, sweep) /\ sweep' # sweep
    BY <1>4 DEF Shortening
  <2>2. Plan[experiment].axis = "ladder"
    BY <1>0, <1>4, Axes DEF Shortening, plan
  <2>3. sweep \in Ladders(experiment)
    BY <2>2 DEF SweepInv, Fits
  <2>4. sweep' \in Ladders(experiment) /\ sweep'.high < sweep.high
    BY <1>0, <2>1, <2>2, <2>3, ShortenedLadder
  <2>5. sweep.high \in Nat /\ sweep'.high \in Nat
    BY <2>3, <2>4 DEF Ladders, Ladder
  <2>6. tried \subseteq Ladders(experiment) /\ \A t \in tried : t.high > sweep.high
    BY <2>2 DEF SweepInv, plan
  <2>7. \A t \in tried : t.high \in Nat
    BY <2>6 DEF Ladders, Ladder
  <2>8. tried' \subseteq Ladders(experiment) /\ \A t \in tried' : t.high > sweep'.high
    BY <2>1, <2>3, <2>4, <2>5, <2>6, <2>7
  <2>9. Fits(experiment, sweep', 0) /\ Fits(experiment, base, 0)
    BY <2>2, <2>4 DEF Fits, SweepInv
  <2> QED
    BY <1>0, <2>1, <2>2, <2>8, <2>9 DEF SweepInv, plan, MAX_ESCALATIONS
<1> QED
  BY <1>1, <1>2, <1>3, <1>4, SweepSteps

\* The sweep of every measurement fits its axis, and what was refused is behind it.
\* (escalating, amplified, and the routines that measure in several stages.)
THEOREM SweepCorrect == Spec => []SweepInv
BY SweepInit, SweepNext, PTL DEF Spec

\* What is played after a refusal was not refused already in the same stage, unless it
\* is a frequency sweep of MAX_SWEEP_POINTS; for every number of points named, every
\* factor asked for and every width the port reaches.
\* (escalating and _widened, and amplified with _shortened.)
THEOREM EveryTryIsAnotherSweepHolds == Spec => []EveryTryIsAnotherSweep
<1>1. SweepInv => EveryTryIsAnotherSweep
  <2> SUFFICES ASSUME SweepInv, NEW t \in tried, Swept(sweep) = Swept(t),
                      ~ (plan.axis = "span" /\ sweep.points = MAX_SWEEP_POINTS)
               PROVE  FALSE
    BY DEF EveryTryIsAnotherSweep
  <2>1. plan.axis \in {"none", "list", "span", "ladder"}
    BY Axes DEF SweepInv, plan
  <2>2. CASE plan.axis = "none"
    BY <2>2 DEF SweepInv
  <2>3. CASE plan.axis = "list"
    <3>1. Below(t, sweep) /\ t \in SweepType /\ sweep = t
      BY <2>3 DEF SweepInv, Swept
    <3> QED
      BY <3>1 DEF Below, SweepType
  <2>4. CASE plan.axis = "span"
    <3>1. t.points < sweep.points /\ t \in SweepType /\ sweep \in SweepType
      BY <2>4 DEF SweepInv, Fits, plan
    <3>2. Swept(t).points = t.points /\ Swept(sweep).points = sweep.points
      BY <2>4, <3>1 DEF Swept, SweepType
    <3> QED
      BY <3>1, <3>2 DEF SweepType
  <2>5. CASE plan.axis = "ladder"
    <3>1. sweep \in Ladders(experiment) /\ t.high > sweep.high /\ sweep = t
      BY <2>5 DEF SweepInv, Swept
    <3> QED
      BY <3>1 DEF Ladders, Ladder
  <2> QED
    BY <2>1, <2>2, <2>3, <2>4, <2>5
<1> QED
  BY <1>1, SweepCorrect, PTL

\* However it was widened or shortened, a sweep stays within the ceiling of its axis,
\* and a ladder has the counts a fit needs, odd ones for the quarter turn.
\* (_widened, _scalar_axis and _shortened.)
THEOREM SweepIsPlayableHolds == Spec => []SweepIsPlayable
<1>1. SweepInv => SweepIsPlayable
  <2> SUFFICES ASSUME SweepInv PROVE SweepIsPlayable
    OBVIOUS
  <2>0. experiment \in DOMAIN Plan /\ attempt \in 0..3 /\ Fits(experiment, sweep, attempt)
    BY DEF SweepInv, MAX_ESCALATIONS
  <2>1. PlanOK(experiment, plan) /\ plan.axis \in {"none", "list", "span", "ladder"}
    BY <2>0, PlansOK, Axes DEF plan
  <2>2. CASE plan.axis = "none"
    <3>1. plan.ceiling = 1000000
      <4>1. plan.ceiling = UNBOUNDED
        BY <2>1, <2>2 DEF PlanOK
      <4> QED
        BY <4>1, SMT DEF UNBOUNDED
    <3>2. sweep.low = 0 /\ sweep.high = 0
      BY <2>0, <2>2, SMT DEF Fits, plan
    <3> QED
      BY <2>2, <3>1, <3>2, SMT DEF SweepIsPlayable
  <2>3. CASE plan.axis = "span"
    <3>1. plan.ceiling = 1000000
      <4>1. plan.ceiling = UNBOUNDED
        BY <2>1, <2>3 DEF PlanOK
      <4> QED
        BY <4>1, SMT DEF UNBOUNDED
    <3>2. sweep.low = 0 /\ sweep.high \in 1..SpanReach(attempt)
      BY <2>0, <2>3, SMT DEF Fits, plan
    <3>3. SpanReach(attempt) \in 1..10240
      BY <2>0, SMT DEF SpanReach
    <3>4. sweep.high \in Int /\ sweep.high <= 10240
      <4> DEFINE reach == SpanReach(attempt)
      <4>1. reach \in 1..10240 /\ sweep.high \in 1..reach
        BY <3>2, <3>3
      <4> HIDE DEF reach
      <4>2. reach \in Int /\ reach <= 10240
        BY <4>1
      <4>3. sweep.high \in Int /\ sweep.high <= reach
        BY <4>1, <4>2
      <4> QED
        BY <4>2, <4>3
    <3>5. sweep.high <= plan.ceiling
      BY <3>1, <3>4, SMT
    <3>6. sweep.low >= -plan.ceiling
      BY <3>1, <3>2, SMT
    <3> QED
      BY <2>3, <3>5, <3>6, SMT DEF SweepIsPlayable
  <2>4. CASE plan.axis = "list"
    <3>1. /\ sweep \in SweepType /\ plan.ceiling \in Int /\ sweep.high <= plan.ceiling
          /\ IF plan.low < 0 THEN sweep.high >= 1 /\ sweep.low = -sweep.high
             ELSE sweep.low >= 0 /\ sweep.low < sweep.high
      BY <2>0, <2>1, <2>4 DEF PlanOK, Fits, plan
    <3>2. sweep.low >= -plan.ceiling
      BY <3>1 DEF SweepType
    <3> QED
      BY <2>4, <3>1, <3>2 DEF SweepIsPlayable
  <2>5. CASE plan.axis = "ladder"
    <3>1. sweep \in Ladders(experiment) /\ Plan[experiment].axis = "ladder"
      BY <2>0, <2>5 DEF Fits, plan
    <3> QED
      BY <2>0, <3>1, LadderPlans, LadderCounts DEF SweepIsPlayable, plan
  <2> QED
    BY <2>1, <2>2, <2>3, <2>4, <2>5
<1> QED
  BY <1>1, SweepCorrect, PTL

-----------------------------------------------------------------------------
(* What is borrowed. *)

\* The invariant: only a search can be searching, only traces and couplers borrow, and
\* a coupler is parked again before its lines are fitted.
BorrowInv ==
  /\ experiment \in DOMAIN Plan
  /\ pc = "search" => plan.method = "search"
  /\ borrowed \subseteq {"delay", "window", "current"}
  /\ borrowed # {} => plan.method \in {"trace", "bias"}
  /\ pc = "fit" /\ plan.method = "bias" => borrowed = {}
  /\ BorrowedSettingIsReturned

LEMMA BorrowInit == Init => BorrowInv
BY ExperimentAssumption DEF Init, BorrowInv, BorrowedSettingIsReturned

LEMMA BorrowNext == BorrowInv /\ [Next]_vars => BorrowInv'
<1> SUFFICES ASSUME BorrowInv, [Next]_vars PROVE BorrowInv'
  OBVIOUS
<1> USE DEF BorrowInv, BorrowedSettingIsReturned
<1>0. /\ experiment \in DOMAIN Plan
      /\ plan.method \in {"bias", "trace"} =>
           plan.asks = {} /\ ~ plan.trimmed /\ plan.shots = 0
  <2>1. PlanOK(experiment, Plan[experiment])
    BY PlansOK
  <2> QED
    BY <2>1 DEF PlanOK, plan
<1>a. experiment' = experiment /\ plan' = plan
  BY SweepSteps DEF Same, Restarted, Widening, Shortening, plan
<1>b. ASSUME pc' = "build", borrowed' = borrowed PROVE BorrowInv'
  BY <1>0, <1>a, <1>b
<1>c. ASSUME pc = "fit", NEW how, Finish(how),
             Analysed \/ (borrowed' = borrowed /\ plan.method # "trace")
      PROVE  BorrowInv'
  BY <1>0, <1>a, <1>c DEF Finish, Over, Analysed
<1>d. ASSUME pc = "fit", GiveUp, Analysed \/ (borrowed' = borrowed /\ plan.method # "trace")
      PROVE  BorrowInv'
  BY <1>0, <1>a, <1>d DEF GiveUp, Over, Analysed
<1>1. CASE Build
  BY <1>0, <1>a, <1>1 DEF Build
<1>2. CASE Run \/ BuildRefuses
  <2>1. CASE Run
    BY <1>0, <1>a, <2>1 DEF Run
  <2>2. CASE BuildRefuses
    <3>1. plan.method \notin {"trace", "bias"}
      BY <1>0, <2>2 DEF BuildRefuses, OutOfReach, TooManyShots
    <3> QED
      BY <1>0, <1>a, <2>2, <3>1 DEF BuildRefuses, GiveUp, Over
  <2> QED
    BY <1>2, <2>1, <2>2
<1>3. CASE AcquisitionFails
  BY <1>0, <1>a, <1>3 DEF AcquisitionFails, Over
<1>4. CASE Bias
  BY <1>0, <1>a, <1>4 DEF Bias
<1>5. CASE EndBias
  BY <1>0, <1>a, <1>5 DEF EndBias, Over
<1>6. CASE SourceFails
  BY <1>0, <1>a, <1>6 DEF SourceFails, Over
<1>7. CASE Answer \/ PriorStands
  BY <1>7, <1>c DEF Answer, PriorStands
<1>8. CASE FitFails
  BY <1>8, <1>d DEF FitFails
<1>9. ASSUME NEW r \in Residuals, AnswerRamsey(r) PROVE BorrowInv'
  <2>1. /\ pc = "fit" /\ (pc' = "build" \/ Finish("measured"))
        /\ borrowed' = borrowed /\ plan.method = "ramsey"
    BY <1>9 DEF AnswerRamsey, StartStage, Refine, RefineAgain
  <2> QED
    BY <2>1, <1>b, <1>c
<1>10. ASSUME NEW moved, NEW how, AnswerNinety(moved, how) PROVE BorrowInv'
  <2>1. /\ pc = "fit" /\ (pc' = "build" \/ Finish(how))
        /\ borrowed' = borrowed /\ plan.method = "amplified_90"
    BY <1>10 DEF AnswerNinety, StartStage
  <2> QED
    BY <2>1, <1>b, <1>c
<1>11. ASSUME NEW direction, NEW factor, Escalate(direction, factor) PROVE BorrowInv'
  <2>1. /\ pc = "fit" /\ (GiveUp \/ pc' = "build")
        /\ borrowed' = borrowed /\ plan.method # "trace"
    BY <1>0, <1>11 DEF Escalate
  <2> QED
    BY <2>1, <1>b, <1>d
<1>12. CASE Shorten
  BY <1>12, <1>b DEF Shorten
<1>13. CASE Uncorrected
  <2>1. CASE AnswerNinety(0, "republished")
    BY <1>10, <2>1
  <2>2. CASE Finish("republished") /\ borrowed' = borrowed
    <3>1. pc = "fit" /\ plan.method # "trace"
      BY <1>0, <1>13 DEF Uncorrected
    <3> QED
      BY <1>c, <2>2, <3>1
  <2> QED
    BY <1>13, <2>1, <2>2 DEF Uncorrected
<1>14. ASSUME NEW width, Search(width) PROVE BorrowInv'
  BY <1>14, <1>b DEF Search, StartStage
<1>15. CASE SearchFails
  BY <1>0, <1>a, <1>15 DEF SearchFails, Over
<1>16. CASE UNCHANGED vars
  BY <1>a, <1>16 DEF vars
<1> QED
  BY <1>1, <1>2, <1>3, <1>4, <1>5, <1>6, <1>7, <1>8, <1>9, <1>10, <1>11, <1>12, <1>13,
     <1>14, <1>15, <1>16 DEF Next

\* A measurement that is over has put back what it borrowed, the current of a coupler
\* or the delay and window of a trace, unless it is a trace whose acquisition raised or
\* a sweep of a bias source that failed.
\* (CouplerAnticrossing.acquire and _ReadoutTraceRoutine.analyse.)
THEOREM BorrowedSettingIsReturnedHolds == Spec => []BorrowedSettingIsReturned
<1>1. BorrowInv => BorrowedSettingIsReturned
  BY DEF BorrowInv
<1> QED
  BY <1>1, BorrowInit, BorrowNext, PTL DEF Spec

-----------------------------------------------------------------------------
(* The rows of a grid. *)

\* The numbers of a finite set, each once and in order.
LEMMA AscendingSorts ==
  ASSUME NEW S \in SUBSET Int, IsFiniteSet(S)
  PROVE  /\ Cardinality(S) \in Nat
         /\ Ascending(S) \in [1..Cardinality(S) -> S]
         /\ \A i, j \in 1..Cardinality(S) : i < j => Ascending(S)[i] < Ascending(S)[j]
<1> DEFINE n == Cardinality(S)
           upto(x) == {y \in S : y <= x}
           rank == [x \in S |-> Cardinality(upto(x))]
<1>1. n \in Nat
  BY FS_CardinalityType
<1>2. ASSUME NEW x \in S PROVE IsFiniteSet(upto(x)) /\ rank[x] \in 1..n
  <2>1. upto(x) \in SUBSET S /\ x \in upto(x)
    OBVIOUS
  <2> HIDE DEF upto
  <2>2. IsFiniteSet(upto(x)) /\ Cardinality(upto(x)) <= n
    BY <2>1, FS_Subset
  <2>3. Cardinality(upto(x)) \in Nat
    BY <2>2, FS_CardinalityType
  <2>4. Cardinality(upto(x)) # 0
    BY <2>1, <2>2, FS_EmptySet
  <2> QED
    BY <1>1, <2>2, <2>3, <2>4
<1>3. ASSUME NEW x \in S, NEW y \in S, x < y PROVE rank[x] < rank[y]
  <2>1. upto(x) \in SUBSET upto(y) /\ y \in upto(y) /\ y \notin upto(x)
    <3>1. x \in Int /\ y \in Int /\ \A z \in S : z \in Int
      OBVIOUS
    <3>2. y \in upto(y) /\ y \notin upto(x)
      BY <1>3, <3>1
    <3>3. \A z \in S : z <= x => z <= y
      BY <1>3, <3>1
    <3>4. upto(x) \subseteq upto(y)
      BY <3>3
    <3> QED
      BY <3>2, <3>4
  <2> HIDE DEF upto
  <2>2. /\ Cardinality(upto(x)) <= Cardinality(upto(y))
        /\ Cardinality(upto(y)) # Cardinality(upto(x))
    BY <1>2, <2>1, FS_Subset
  <2>3. rank[x] \in 1..n /\ rank[y] \in 1..n
    BY <1>2
  <2> QED
    BY <1>1, <2>2, <2>3
<1>4. rank \in Injection(S, 1..n)
  <2>1. rank \in [S -> 1..n]
    BY <1>2
  <2> HIDE DEF rank
  <2>2. ASSUME NEW x \in S, NEW y \in S, x # y PROVE rank[x] # rank[y]
    <3>1. x < y \/ y < x
      BY <2>2
    <3>2. rank[x] \in Int /\ rank[y] \in Int
      BY <1>1, <2>1
    <3> QED
      BY <1>3, <3>1, <3>2
  <2> QED
    BY <2>1, <2>2 DEF Injection, IsInjective
<1>5. rank \in Surjection(S, 1..n)
  <2>1. IsFiniteSet(1..n) /\ Cardinality(1..n) = n
    BY <1>1, FS_Interval
  <2> HIDE DEF rank
  <2> QED
    BY <1>4, <2>1, FS_Injection
<1>6. ASSUME NEW k \in 1..n
      PROVE  Ascending(S)[k] \in S /\ rank[Ascending(S)[k]] = k
  <2>1. \E x \in S : Cardinality(upto(x)) = k
    <3>1. \E x \in S : rank[x] = k
      BY <1>5 DEF Surjection
    <3> QED
      BY <3>1
  <2>2. Ascending(S)[k] = CHOOSE x \in S : Cardinality(upto(x)) = k
    BY DEF Ascending
  <2> QED
    BY <2>1, <2>2
<1>7. Ascending(S) \in [1..n -> S]
  BY <1>6 DEF Ascending
<1>8. ASSUME NEW i \in 1..n, NEW j \in 1..n, i < j
      PROVE  Ascending(S)[i] < Ascending(S)[j]
  <2> DEFINE a == Ascending(S)[i]
             b == Ascending(S)[j]
  <2>1. a \in S /\ b \in S /\ rank[a] = i /\ rank[b] = j
    BY <1>6
  <2> HIDE DEF a, b, rank
  <2>2. b < a => rank[b] < rank[a]
    BY <1>3, <2>1
  <2>3. a \in Int /\ b \in Int /\ i \in Int /\ j \in Int /\ a # b /\ ~ (b < a)
    BY <1>1, <1>8, <2>1, <2>2
  <2>4. a < b
    BY <2>3
  <2> QED
    BY <2>4 DEF a, b
<1> QED
  BY <1>1, <1>7, <1>8

\* The windows are integration times, none above both the usable one and the incumbent.
LEMMA WindowsAreTimes ==
  ASSUME NEW current \in Nat \ {0}
  PROVE  Windows(current) \in Seq(1..Most(current, UsableWindow))
<1> DEFINE rungs == {w \in {(current * 2^k) \div 4 : k \in 0..(MAX_WINDOWS - 1)} :
                       w \in 1..UsableWindow}
           top == Most(current, UsableWindow)
           S == rungs \cup {UsableWindow, current}
<1>1. rungs \subseteq 1..UsableWindow
  OBVIOUS
<1> HIDE DEF rungs
<1>2. top \in Nat /\ S \subseteq 1..top
  <2>1. top \in Nat /\ UsableWindow <= top /\ current <= top /\ UsableWindow = 10
    BY DEF Most, UsableWindow
  <2> HIDE DEF top
  <2>2. rungs \subseteq 1..top
    BY <1>1, <2>1
  <2>3. UsableWindow \in 1..top /\ current \in 1..top
    BY <2>1
  <2> QED
    BY <2>1, <2>2, <2>3
<1> HIDE DEF top, S
<1>3. IsFiniteSet(S)
  <2>1. IsFiniteSet(1..top)
    BY <1>2, FS_Interval
  <2> QED
    BY <1>2, <2>1, FS_Subset
<1>4. S \in SUBSET Int
  BY <1>2
<1>5. Cardinality(S) \in Nat /\ Ascending(S) \in [1..Cardinality(S) -> S]
  BY <1>3, <1>4, AscendingSorts
<1>6. Ascending(S) \in Seq(1..top)
  <2> DEFINE n == Cardinality(S)
             A == Ascending(S)
             T == 1..top
  <2>1. n \in Nat /\ A \in [1..n -> S] /\ S \subseteq T
    BY <1>2, <1>5
  <2> HIDE DEF n, A, T
  <2>2. A \in [1..n -> T]
    BY <2>1
  <2>3. A \in Seq(T)
    BY <2>1, <2>2
  <2> QED
    BY <2>3 DEF A, T
<1>7. Windows(current) = Ascending(S)
  BY DEF Windows, S, rungs
<1> QED
  BY <1>6, <1>7 DEF top

\* What the plans say of their grids: one with rows by the points of its sweep is
\* never asked for finer points.
GridOK(p) ==
  /\ p.low \in Int /\ p.high \in Int /\ p.points \in Nat
  /\ p.method = "search" => p.points = 5
  /\ p.grid \in {"one", "rows", "circuits", "windows", "bias"}
  /\ p.grid \in {"rows", "circuits", "bias"} => p.axis # "span" /\ p.asks \subseteq {"wider"}

LEMMA GridsOK == \A e \in DOMAIN Plan : GridOK(Plan[e])
<1> USE DEF Plan0, GridOK, UNBOUNDED
<1>1. GridOK(Rabi) /\ GridOK(T1)
  BY SMT DEF Rabi, T1
<1>2. GridOK(T2Echo) /\ GridOK(Ramsey)
  BY SMT DEF T1, T2Echo, Ramsey
<1>3. GridOK(Drag) /\ GridOK(FineAmplitude)
  BY SMT DEF Drag, FineAmplitude
<1>4. GridOK(FineAmplitude90) /\ GridOK(ResonatorSpectroscopy)
  BY SMT DEF FineAmplitude, FineAmplitude90, ResonatorSpectroscopy
<1>5. GridOK(QubitSpectroscopy) /\ GridOK(ResonatorPunchout)
  BY SMT DEF QubitSpectroscopy, ResonatorPunchout
<1>6. GridOK(RandomizedBenchmarking) /\ GridOK(ReadoutIntegrationTime)
  BY SMT DEF RandomizedBenchmarking, ReadoutIntegrationTime
<1>7. GridOK(ReadoutTraceRoutine) /\ GridOK(CouplerAnticrossing)
  BY ConstantAssumption, SMT DEF ReadoutTraceRoutine, CouplerAnticrossing
<1>8. /\ GridOK(ResonatorSpectroscopyExcited) /\ GridOK(ResonatorSpectroscopySecondExcited)
      /\ GridOK(F12Spectroscopy) /\ GridOK(FluxSpectroscopy)
  BY SMT DEF ResonatorSpectroscopyExcited, ResonatorSpectroscopySecondExcited,
             F12Spectroscopy, FluxSpectroscopy, ResonatorPunchout
<1>9. /\ GridOK(AllXY) /\ GridOK(AllXYCheck)
      /\ GridOK(ReadoutOperatingPoint) /\ GridOK(ThreeStateOperatingPoint)
      /\ GridOK(ReadoutDiscrimination) /\ GridOK(ReadoutFidelity)
      /\ GridOK(ThreeStateDiscrimination)
  BY SMT DEF AllXY, AllXYCheck, ReadoutOperatingPoint, ThreeStateOperatingPoint,
             ReadoutDiscrimination, ReadoutFidelity, ThreeStateDiscrimination
<1>10. GridOK(Rabi12) /\ GridOK(EfLadder) /\ GridOK(Ramsey12)
  BY SMT DEF Rabi12, EfLadder, Ramsey12
<1>11. GridOK(FineAmplitude12) /\ GridOK(Drag12)
  BY <1>3 DEF FineAmplitude12, Drag12
<1>12. /\ GridOK(CZSpectroscopy) /\ GridOK(CZParametrization) /\ GridOK(CZChevron)
       /\ GridOK(ConditionalPhase)
  BY SMT DEF CZSpectroscopy, CZParametrization, CZChevron, ConditionalPhase
<1>13. GridOK(InterleavedRB)
  BY <1>6 DEF InterleavedRB
<1> HIDE DEF GridOK
<1> QED
  BY <1>1, <1>2, <1>3, <1>4, <1>5, <1>6, <1>7, <1>8, <1>9, <1>10, <1>11, <1>12, <1>13,
     SMTT(60) DEF Plan

\* The rows the sweep asks for at first, and, since no sweep changes them, ever after.
Wanted == Grid(experiment, Default(experiment, points), incumbent)

\* The invariant, in three parts.  What operators and the device config may say.
GivenOK ==
  /\ experiment \in Experiments /\ experiment \in DOMAIN Plan
  /\ points \in Nat \ {0} /\ incumbent \in Nat \ {0}

\* What SweepInv leaves open: sweeps that are never widened, and rows by points.
PointsInv ==
  /\ plan.axis = "none" =>
       base = Default(experiment, points) /\ sweep = Default(experiment, points)
  /\ plan.grid \in {"rows", "circuits", "bias"} =>
       base.points = plan.points /\ sweep.points = plan.points

\* The rows acquired so far are among those wanted.
RowsInv ==
  /\ grid \in Seq(Int) /\ data \in Seq(Int)
  /\ Len(data) <= Len(Wanted)
  /\ pc = "run" =>
       IF plan.method = "bias" THEN Len(data) + Len(grid) <= Len(Wanted)
       ELSE grid = Wanted

\* The places of the loops, and their counters: no pass begins past the last.
CountersOK ==
  /\ pc \in {"build", "run", "fit", "search", "over"}
  /\ stage \in {"first", "root", "other_root", "refine", "confirm"}
  /\ shortenings \in 0..MAX_SHORTENINGS
  /\ passes \in 0..(MAX_REFINEMENTS - 1)
  /\ columns \in Nat \ {0}
  /\ residual \in Residuals
  /\ held \in {"prior", "candidate", "result"}
  /\ outcome \in Outcomes
  /\ (outcome = "pending") <=> (pc # "over")

TypeInv == GivenOK /\ PointsInv /\ CountersOK /\ RowsInv

LEMMA DefaultPoints ==
  ASSUME NEW e \in DOMAIN Plan, NEW n \in Nat \ {0}
  PROVE  /\ Default(e, n) \in [low : Int, high : Int, points : Nat]
         /\ Plan[e].axis # "span" => Default(e, n).points = Plan[e].points
<1>1. GridOK(Plan[e])
  BY GridsOK
<1> DEFINE k == IF Plan[e].axis = "span" THEN n ELSE Plan[e].points
<1>2. k \in Nat
  BY <1>1 DEF GridOK
<1>3. Default(e, n) = [low |-> Plan[e].low, high |-> Plan[e].high, points |-> k]
  BY DEF Default
<1>4. Plan[e].axis # "span" => k = Plan[e].points
  OBVIOUS
<1> HIDE DEF k
<1> QED
  BY <1>1, <1>2, <1>3, <1>4 DEF GridOK

\* A grid is a sequence of rows, and of those wanted whatever the sweep has become.
LEMMA GridType ==
  ASSUME NEW e \in DOMAIN Plan, NEW s, s.points \in Nat, NEW current \in Nat \ {0}
  PROVE  Grid(e, s, current) \in Seq(Int)
<1>1. CASE Plan[e].grid = "windows"
  <2>1. Windows(current) \in Seq(1..Most(current, UsableWindow))
    BY WindowsAreTimes
  <2> DEFINE W == Windows(current)
             T == 1..Most(current, UsableWindow)
  <2>2. W \in Seq(T) /\ T \subseteq Int
    BY <2>1
  <2> HIDE DEF W, T
  <2>3. W \in Seq(Int)
    <3>1. Len(W) \in Nat /\ W = [i \in 1..Len(W) |-> W[i]] /\ \A i \in 1..Len(W) : W[i] \in T
      BY <2>2
    <3>2. \A i \in 1..Len(W) : W[i] \in Int
      BY <2>2, <3>1
    <3> QED
      BY <3>1, <3>2
  <2> QED
    BY <1>1, <2>3 DEF Grid, W
<1>2. CASE Plan[e].grid = "one"
  BY <1>2 DEF Grid
<1>3. CASE Plan[e].grid \notin {"windows", "one"}
  <2>1. Grid(e, s, current) = [i \in 1..s.points |-> i]
    BY <1>3 DEF Grid
  <2> QED
    BY <2>1
<1> QED
  BY <1>1, <1>2, <1>3

LEMMA GridIsWanted ==
  ASSUME GivenOK, PointsInv
  PROVE  /\ Grid(experiment, sweep, incumbent) = Wanted
         /\ Wanted \in Seq(Int)
<1>1. GridOK(plan) /\ experiment \in DOMAIN Plan
  BY GridsOK DEF GivenOK, plan
<1> DEFINE d == Default(experiment, points)
<1>2. d.points \in Nat /\ (plan.axis # "span" => d.points = plan.points)
  <2>1. d \in [low : Int, high : Int, points : Nat]
        /\ (plan.axis # "span" => d.points = plan.points)
    BY DefaultPoints DEF GivenOK, plan
  <2> HIDE DEF d
  <2> QED
    BY <2>1
<1> HIDE DEF d
<1>3. Wanted = Grid(experiment, d, incumbent)
  BY DEF Wanted, d
<1>4. Wanted \in Seq(Int)
  BY <1>2, <1>3, GridType DEF GivenOK
<1>5. CASE plan.grid \in {"one", "windows"}
  BY <1>3, <1>4, <1>5 DEF Grid, plan
<1>6. CASE plan.grid \in {"rows", "circuits", "bias"}
  <2>1. sweep.points = d.points
    BY <1>1, <1>2, <1>6 DEF PointsInv, GridOK
  <2> QED
    BY <1>3, <1>4, <2>1 DEF Grid
<1> QED
  BY <1>1, <1>5, <1>6 DEF GridOK

-----------------------------------------------------------------------------
(* The type invariant. *)

LEMMA TypeInit == Init => TypeInv
<1> SUFFICES ASSUME Init PROVE TypeInv
  OBVIOUS
<1>1. GivenOK
  <2>2. incumbent \in Incumbents \/ incumbent = 4
    BY DEF Init
  <2>3. Incumbents \subseteq Nat \ {0}
    BY ConstantAssumption
  <2>4. points \in Nat \ {0}
    BY PointsGiven
  <2>5. incumbent \in Nat \ {0}
    <3>1. CASE incumbent \in Incumbents
      BY <2>3, <3>1
    <3>2. CASE incumbent = 4
      BY <3>2
    <3> QED
      BY <2>2, <3>1, <3>2
  <2>6. experiment \in Experiments /\ experiment \in DOMAIN Plan
    BY ExperimentAssumption DEF Init
  <2> QED
    BY <2>4, <2>5, <2>6 DEF GivenOK
<1>2. PointsInv
  <2>1. GridOK(plan)
    BY <1>1, GridsOK DEF GivenOK, plan
  <2>2. plan.axis # "span" => Default(experiment, points).points = plan.points
    BY <1>1, DefaultPoints DEF GivenOK, plan
  <2> QED
    BY <2>1, <2>2 DEF Init, PointsInv, GridOK
<1>3. CountersOK
  BY <1>1 DEF Init, CountersOK, GivenOK, MAX_SHORTENINGS, MAX_REFINEMENTS, Residuals, Outcomes
<1>4. RowsInv
  <2>1. Wanted \in Seq(Int)
    BY <1>1, <1>2, GridIsWanted
  <2>2. grid = <<>> /\ data = <<>> /\ pc = "build"
    BY DEF Init
  <2> QED
    BY <2>1, <2>2 DEF RowsInv
<1> QED
  BY <1>1, <1>2, <1>3, <1>4 DEF TypeInv

LEMMA GivenStays ==
  ASSUME [Next]_vars
  PROVE  UNCHANGED inputs
<1> USE DEF inputs
<1>1. CASE Build \/ BuildRefuses \/ Run \/ AcquisitionFails \/ Bias \/ EndBias \/ SourceFails
  BY <1>1 DEF Build, BuildRefuses, GiveUp, Run, AcquisitionFails, Bias, EndBias, SourceFails
<1>2. CASE Answer \/ PriorStands \/ FitFails \/ SearchFails \/ Shorten
  BY <1>2 DEF Answer, PriorStands, Finish, FitFails, GiveUp, SearchFails, Shorten
<1>3. ASSUME NEW r, AnswerRamsey(r) PROVE UNCHANGED inputs
  BY <1>3 DEF AnswerRamsey, StartStage, Refine, RefineAgain, Finish
<1>4. ASSUME NEW moved, NEW how, AnswerNinety(moved, how) PROVE UNCHANGED inputs
  BY <1>4 DEF AnswerNinety, StartStage, Finish
<1>5. ASSUME NEW direction, NEW factor, Escalate(direction, factor) PROVE UNCHANGED inputs
  BY <1>5 DEF Escalate, GiveUp
<1>6. CASE Uncorrected
  <2>1. AnswerNinety(0, "republished") \/ Finish("republished")
    BY <1>6 DEF Uncorrected
  <2> QED
    BY <1>4, <2>1 DEF Finish
<1>7. ASSUME NEW width, Search(width) PROVE UNCHANGED inputs
  BY <1>7 DEF Search, StartStage
<1>8. CASE UNCHANGED vars
  BY <1>8 DEF vars
<1> QED
  BY <1>1, <1>2, <1>3, <1>4, <1>5, <1>6, <1>7, <1>8 DEF Next

\* Wider is not finer.
LEMMA WiderKeepsPoints ==
  ASSUME NEW e \in DOMAIN Plan, Plan[e].axis = "list", NEW s \in SweepType, NEW factor,
         NEW t \in Widened(e, s, "wider", factor)
  PROVE  t.points = s.points
<1>1. t \in WidenedList(s, "wider", factor, Plan[e].ceiling)
  BY DEF Widened
<1>2. \E low, high : t = [s EXCEPT !.low = low, !.high = high] \/ t = [s EXCEPT !.high = high]
  BY <1>1 DEF WidenedList
<1> QED
  BY <1>2 DEF SweepType

LEMMA PointsNext == GivenOK /\ PointsInv /\ SweepInv /\ [Next]_vars => PointsInv'
<1> SUFFICES ASSUME GivenOK, PointsInv, SweepInv, [Next]_vars PROVE PointsInv'
  OBVIOUS
<1>1. experiment' = experiment /\ points' = points /\ plan' = plan
  BY GivenStays DEF inputs, plan
<1>2. GridOK(plan) /\ PlanOK(experiment, plan) /\ experiment \in DOMAIN Plan
  BY GridsOK, PlansOK DEF GivenOK, plan
<1>3. CASE Same
  BY <1>1, <1>3 DEF Same, PointsInv
<1>4. CASE Restarted
  <2>1. sweep' = base' /\ (base' = base \/ base' = sweep)
    BY <1>4 DEF Restarted
  <2> QED
    BY <1>1, <2>1 DEF PointsInv
<1>5. CASE Widening
  <2>1. PICK direction \in plan.asks \ {"shorter"}, factor \in Factors :
          sweep' \in Widened(experiment, sweep, direction, factor)
    BY <1>5 DEF Widening
  <2>2. plan.axis # "none"
    BY <1>2, <2>1 DEF PlanOK
  <2>3. plan.grid \in {"rows", "circuits", "bias"} => sweep'.points = sweep.points
    <3> SUFFICES ASSUME plan.grid \in {"rows", "circuits", "bias"}
                 PROVE  sweep'.points = sweep.points
      OBVIOUS
    <3>1. plan.axis # "span" /\ direction = "wider"
      BY <1>2, <2>1 DEF GridOK
    <3>2. plan.axis = "list"
      BY <1>2, <2>1, <2>2, <3>1 DEF PlanOK
    <3>3. sweep \in SweepType
      BY <3>2 DEF SweepInv, Fits, plan
    <3> QED
      BY <1>2, <2>1, <3>1, <3>2, <3>3, WiderKeepsPoints DEF plan
  <2>4. base' = base
    BY <1>5 DEF Widening
  <2> QED
    BY <1>1, <2>2, <2>3, <2>4 DEF PointsInv
<1>6. CASE Shortening
  <2>1. "shorter" \in plan.asks
    BY <1>6 DEF Shortening
  <2>2. plan.axis # "none" /\ plan.grid \notin {"rows", "circuits", "bias"}
    BY <1>2, <2>1 DEF PlanOK, GridOK
  <2> QED
    BY <1>1, <2>2 DEF PointsInv
<1> QED
  BY <1>3, <1>4, <1>5, <1>6, SweepSteps

LEMMA CountersNext == GivenOK /\ BorrowInv /\ CountersOK /\ [Next]_vars => CountersOK'
<1> SUFFICES ASSUME GivenOK, BorrowInv, CountersOK, [Next]_vars PROVE CountersOK'
  OBVIOUS
<1> USE DEF CountersOK, counters, Outcomes, MAX_SHORTENINGS, MAX_REFINEMENTS
<1> DEFINE Holds == {"prior", "candidate", "result"}
<1>0. /\ passes \in 0..2 /\ columns \in Nat \ {0} /\ residual \in Residuals
      /\ held \in Holds
  <2>1. passes \in 0..(3 - 1)
    OBVIOUS
  <2>2. columns \in Nat \ {0} /\ residual \in Residuals /\ held \in Holds
    OBVIOUS
  <2> QED
    BY <2>1, <2>2
<1>a. ASSUME NEW st \in {"root", "other_root", "refine", "confirm"}, NEW s, StartStage(st, s),
             pc # "over", outcome' = outcome, passes' \in 0..2, columns' \in Nat \ {0},
             residual' \in Residuals, held' \in Holds
      PROVE  CountersOK'
  <2>1. pc' = "build" /\ stage' = st /\ shortenings' = 0
    BY <1>a DEF StartStage
  <2>2. outcome' \in Outcomes /\ (outcome' = "pending" <=> pc' # "over")
    BY <1>a, <2>1
  <2>3. passes' \in 0..(MAX_REFINEMENTS - 1) /\ shortenings' \in 0..MAX_SHORTENINGS
    BY <1>a, <2>1
  <2>4. /\ pc' \in {"build", "run", "fit", "search", "over"}
        /\ stage' \in {"first", "root", "other_root", "refine", "confirm"}
    BY <1>a, <2>1
  <2> QED
    BY <1>a, <2>2, <2>3, <2>4
<1>b. ASSUME NEW how \in {"measured", "republished"}, Finish(how), residual' \in Residuals
      PROVE  CountersOK'
  BY <1>b DEF Finish, Over
<1>c. ASSUME GiveUp, pc \in {"build", "fit"} PROVE CountersOK'
  BY <1>c DEF GiveUp, Over
<1>1. CASE Build
  BY <1>1 DEF Build
<1>2. CASE Run \/ BuildRefuses
  BY <1>2, <1>c DEF Run, BuildRefuses
<1>3. CASE AcquisitionFails
  BY <1>3 DEF AcquisitionFails, Over
<1>4. CASE Bias
  BY <1>4 DEF Bias
<1>5. CASE EndBias
  BY <1>5 DEF EndBias, Over
<1>6. CASE SourceFails
  BY <1>6 DEF SourceFails, Over
<1>7. CASE Answer
  <2>1. residual' = residual /\ Finish("measured")
    BY <1>7 DEF Answer
  <2> QED
    BY <2>1, <1>b
<1>7a. CASE PriorStands
  <2>1. residual' = residual /\ Finish("republished")
    BY <1>7a DEF PriorStands
  <2> QED
    BY <2>1, <1>b
<1>8. CASE FitFails
  BY <1>8, <1>c DEF FitFails
<1>9. ASSUME NEW r \in Residuals, AnswerRamsey(r) PROVE CountersOK'
  <2>0. pc = "fit" /\ residual \in 0..3 /\ r \in 0..3
    BY <1>9 DEF AnswerRamsey, Residuals
  <2> HIDE DEF CountersOK
  <2>a. ASSUME NEW q \in Residuals, NEW done \in 0..3, Refine(q, done)
        PROVE  CountersOK'
    <3>1. CASE Finish("measured") /\ residual' = q
      BY <1>b, <3>1
    <3>2. CASE RefineAgain(q) /\ passes' = done /\ done # 3
      <4>1. StartStage("refine", base) /\ outcome' = outcome /\ held' = "candidate"
            /\ residual' = q /\ columns' = columns
        BY <3>2 DEF RefineAgain
      <4>2. done \in 0..2
        BY <3>2
      <4> QED
        BY <1>0, <1>a, <2>0, <3>2, <4>1, <4>2
    <3> QED
      BY <2>a, <3>1, <3>2 DEF Refine
  <2>b. ASSUME NEW st \in {"root", "other_root"}, StartStage(st, base),
               outcome' = outcome, columns' = columns, passes' = passes,
               residual' \in Residuals, held' \in {"candidate", held}
        PROVE  CountersOK'
    <3>1. held' \in Holds
      BY <1>0, <2>b
    <3> QED
      BY <1>0, <1>a, <2>0, <2>b, <3>1
  <2>1. CASE stage = "first"
    <3>1. CASE /\ StartStage("root", base) /\ held' = "candidate"
               /\ UNCHANGED <<columns, passes, residual, outcome>>
      BY <1>0, <2>b, <3>1
    <3>2. CASE Refine(r, 0)
      BY <2>a, <3>2
    <3> QED
      BY <1>9, <2>1, <3>1, <3>2 DEF AnswerRamsey
  <2>2. CASE stage = "root"
    <3>1. /\ StartStage("other_root", base) /\ residual' = r
          /\ UNCHANGED <<columns, passes, held, outcome>>
      BY <1>9, <2>2 DEF AnswerRamsey
    <3> QED
      BY <2>b, <3>1
  <2>3. CASE stage = "other_root"
    <3>1. Refine(Least(r, residual), 0)
      BY <1>9, <2>3 DEF AnswerRamsey
    <3>2. Least(r, residual) \in Residuals
      BY <2>0 DEF Least, Residuals
    <3> QED
      BY <2>a, <3>1, <3>2
  <2>4. CASE stage = "refine"
    <3>1. CASE Refine(r, passes + 1)
      <4>1. passes + 1 \in 0..3
        BY <1>0
      <4> QED
        BY <2>a, <3>1, <4>1
    <3>2. CASE Finish("measured") /\ residual' = residual
      BY <1>0, <1>b, <3>2
    <3> QED
      BY <1>9, <2>4, <3>1, <3>2 DEF AnswerRamsey
  <2>5. stage \in {"first", "root", "other_root", "refine"}
    BY <1>9 DEF AnswerRamsey
  <2> QED
    BY <2>1, <2>2, <2>3, <2>4, <2>5
<1>10. ASSUME NEW moved \in {0, 1}, NEW how \in {"measured", "republished"},
              AnswerNinety(moved, how)
       PROVE  CountersOK'
  <2> HIDE DEF CountersOK
  <2>1. pc = "fit" /\ residual' = moved /\ moved \in Residuals
    <3>1. moved \in Residuals
      BY DEF Residuals
    <3> QED
      BY <1>10, <3>1 DEF AnswerNinety
  <2>2. CASE Finish(how)
    BY <1>b, <2>1, <2>2
  <2>3. CASE /\ StartStage("refine", sweep) /\ held' = "candidate"
             /\ UNCHANGED <<columns, passes, outcome>>
    BY <1>0, <1>a, <2>1, <2>3
  <2>4. CASE /\ StartStage("refine", base) /\ held' = "candidate"
             /\ passes' = passes + 1 /\ passes + 1 # MAX_REFINEMENTS
             /\ UNCHANGED <<columns, outcome>>
    <3>1. passes' \in 0..2
      BY <1>0, <2>4
    <3> QED
      BY <1>0, <1>a, <2>1, <2>4, <3>1
  <2> QED
    BY <1>10, <2>2, <2>3, <2>4 DEF AnswerNinety
<1>11. ASSUME NEW direction, NEW factor, Escalate(direction, factor) PROVE CountersOK'
  <2>1. CASE GiveUp
    BY <1>c, <1>11, <2>1 DEF Escalate
  <2>2. CASE ~ GiveUp
    BY <1>11, <2>2 DEF Escalate
  <2> QED
    BY <2>1, <2>2
<1>12. CASE Shorten
  <2>1. /\ shortenings # MAX_SHORTENINGS /\ shortenings' = shortenings + 1
        /\ pc = "fit" /\ pc' = "build"
        /\ UNCHANGED <<stage, columns, passes, residual, held, outcome>>
    BY <1>12 DEF Shorten, Exhausted
  <2>2. shortenings' \in 0..MAX_SHORTENINGS
    BY <2>1
  <2> QED
    BY <2>1, <2>2
<1>13. CASE Uncorrected
  <2>1. CASE AnswerNinety(0, "republished")
    BY <1>10, <2>1
  <2>2. CASE Finish("republished") /\ residual' = residual
    BY <1>b, <2>2
  <2> QED
    BY <1>13, <2>1, <2>2 DEF Uncorrected
<1>14. ASSUME NEW width \in Widths, Search(width) PROVE CountersOK'
  <2>1. /\ StartStage("confirm", base) /\ pc = "search"
        /\ UNCHANGED <<passes, residual, held, outcome>>
        /\ columns' = ConfirmPoints(width, points, plan.points)
    BY <1>14 DEF Search
  <2>2. columns' \in Nat \ {0}
    <3>1. plan.method = "search" /\ GridOK(plan)
      BY <2>1, GridsOK DEF BorrowInv, GivenOK, plan
    <3>2. plan.points = 5
      BY <3>1 DEF GridOK
    <3>3. points \in Nat /\ width \in Nat
      BY DEF GivenOK, Widths
    <3> DEFINE span == Least(Most((3 * width) \div 2, 8000), 600000)
               wanted == (span * (points - 1)) \div 40000 + 1
               room == MAX_SWEEP_POINTS \div 5
    <3>4. span \in Int
      BY <3>3 DEF Least, Most
    <3> HIDE DEF span
    <3>5. wanted \in Int /\ room \in Int
      <4>1. span * (points - 1) \in Int
        BY <3>3, <3>4
      <4> QED
        BY <4>1 DEF MAX_SWEEP_POINTS
    <3> HIDE DEF wanted, room
    <3>6. columns' = Most(41, Least(wanted, room))
      BY <2>1, <3>2 DEF ConfirmPoints, span, wanted, room
    <3>7. Most(41, Least(wanted, room)) \in Nat \ {0}
      BY <3>5 DEF Most, Least
    <3> QED
      BY <3>6, <3>7
  <2> HIDE DEF CountersOK
  <2> QED
    BY <1>0, <1>a, <2>1, <2>2
<1>15. CASE SearchFails
  BY <1>15 DEF SearchFails, Over
<1>16. CASE UNCHANGED vars
  BY <1>16 DEF vars
<1> HIDE DEF CountersOK
<1> QED
  BY <1>1, <1>2, <1>3, <1>4, <1>5, <1>6, <1>7, <1>7a, <1>8, <1>9, <1>10, <1>11, <1>12, <1>13,
     <1>14, <1>15, <1>16 DEF Next

\* What a step does to the rows: all but three leave them where they are.
Resting ==
  /\ UNCHANGED <<grid, rows, data>>
  /\ pc' = "run" => pc = "run"
  /\ pc' = "fit" => pc = "fit" \/ plan.method = "bias"

LEMMA RowSteps ==
  ASSUME [Next]_vars
  PROVE  Build \/ Run \/ Bias \/ Resting
<1> USE DEF Resting
<1>1. CASE BuildRefuses \/ AcquisitionFails \/ EndBias \/ SourceFails \/ SearchFails
  BY <1>1 DEF BuildRefuses, GiveUp, AcquisitionFails, EndBias, SourceFails, SearchFails, Over
<1>2. CASE Answer \/ PriorStands \/ FitFails \/ Shorten
  BY <1>2 DEF Answer, PriorStands, Finish, Over, FitFails, GiveUp, Shorten
<1>3. ASSUME NEW r, AnswerRamsey(r) PROVE Resting
  BY <1>3 DEF AnswerRamsey, StartStage, Refine, RefineAgain, Finish, Over
<1>4. ASSUME NEW moved, NEW how, AnswerNinety(moved, how) PROVE Resting
  BY <1>4 DEF AnswerNinety, StartStage, Finish, Over
<1>5. ASSUME NEW direction, NEW factor, Escalate(direction, factor) PROVE Resting
  BY <1>5 DEF Escalate, GiveUp, Over
<1>6. CASE Uncorrected
  <2>1. AnswerNinety(0, "republished") \/ Finish("republished")
    BY <1>6 DEF Uncorrected
  <2> QED
    BY <1>4, <2>1 DEF Finish, Over
<1>7. ASSUME NEW width, Search(width) PROVE Resting
  BY <1>7 DEF Search, StartStage
<1>8. CASE UNCHANGED vars
  BY <1>8 DEF vars
<1> QED
  BY <1>1, <1>2, <1>3, <1>4, <1>5, <1>6, <1>7, <1>8 DEF Next

\* A schedule takes the next rows, one at least, and no more than there are.
LEMMA ChunkFollows ==
  ASSUME GivenOK, CountersOK, grid \in Seq(Int), data \in Seq(Int), Len(data) <= Len(grid)
  PROVE  LET upto == Least(Len(data) + PerSchedule(experiment, columns), Len(grid))
         IN  /\ upto \in Len(data)..Len(grid)
             /\ Chunk \in Seq(Int) /\ Len(Chunk) = upto - Len(data)
             /\ \A i \in 1..Len(Chunk) : Chunk[i] = grid[Len(data) + i]
<1> DEFINE per == PerSchedule(experiment, columns)
           upto == Least(Len(data) + per, Len(grid))
<1>1. per \in Nat
  <2>1. \A n : n \in Int => Most(1, n) \in Nat
    BY DEF Most
  <2>2. columns \in Nat \ {0}
    BY DEF CountersOK
  <2>3. MAX_SWEEP_POINTS \div columns \in Int /\ MAX_RB_CLIFFORDS \div CIRCUIT_DEPTHS \in Int
    BY <2>2 DEF MAX_SWEEP_POINTS, MAX_RB_CLIFFORDS, CIRCUIT_DEPTHS
  <2> QED
    BY <2>1, <2>3 DEF PerSchedule
<1>2. upto \in Len(data)..Len(grid) /\ Len(data) \in Nat /\ Len(grid) \in Nat
  <2> HIDE DEF per
  <2> QED
    BY <1>1 DEF Least
<1> HIDE DEF upto
<1>3. Chunk = SubSeq(grid, Len(data) + 1, upto)
  BY DEF Chunk, upto
<1>4. /\ Chunk \in Seq(Int) /\ Len(Chunk) = upto - Len(data)
      /\ \A i \in 1..Len(Chunk) : Chunk[i] = grid[Len(data) + i]
  <2> DEFINE a == Len(data) + 1
  <2>1. a \in 1..(Len(grid) + 1) /\ upto \in (a - 1)..Len(grid)
    BY <1>2
  <2> HIDE DEF a
  <2>2. /\ SubSeq(grid, a, upto) \in Seq(Int)
        /\ Len(SubSeq(grid, a, upto)) = upto - a + 1
        /\ \A i \in 1..(upto - a + 1) : SubSeq(grid, a, upto)[i] = grid[a + i - 1]
    BY <1>2, <2>1
  <2>3. a = Len(data) + 1
    BY DEF a
  <2> QED
    BY <1>2, <1>3, <2>2, <2>3
<1> QED
  BY <1>2, <1>4 DEF upto

LEMMA Joined ==
  ASSUME NEW a \in Seq(Int), NEW b \in Seq(Int)
  PROVE  /\ a \o b \in Seq(Int) /\ Len(a \o b) = Len(a) + Len(b)
         /\ \A i \in 1..(Len(a) + Len(b)) :
              (a \o b)[i] = IF i <= Len(a) THEN a[i] ELSE b[i - Len(a)]
OBVIOUS

\* As many rows are played as were asked for, each of them its own.
LEMMA PlayedRows ==
  ASSUME NEW C \in Seq(Int)
  PROVE  /\ Played(experiment, C) \in Seq(Int)
         /\ Len(Played(experiment, C)) = Len(C)
         /\ \A i \in 1..Len(C) :
              Played(experiment, C)[i] =
                  IF plan.grid = "windows" THEN Integrated(C[i]) ELSE C[i]
<1>1. \A w \in Int : Integrated(w) \in Int
  BY DEF Integrated, Least, UsableWindow
<1>2. CASE plan.grid = "windows"
  <2> DEFINE n == Len(C)
             P == [i \in 1..n |-> Integrated(C[i])]
  <2>1. Played(experiment, C) = P
    BY <1>2 DEF Played, plan
  <2>2. n \in Nat /\ \A i \in 1..n : C[i] \in Int
    OBVIOUS
  <2> HIDE DEF n
  <2>3. P \in [1..n -> Int]
    BY <1>1, <2>2
  <2>4. P \in Seq(Int) /\ Len(P) = n /\ \A i \in 1..n : P[i] = Integrated(C[i])
    BY <2>2, <2>3
  <2> QED
    BY <1>2, <2>1, <2>4 DEF n
<1>3. CASE plan.grid # "windows"
  BY <1>3 DEF Played, plan
<1> QED
  BY <1>2, <1>3

LEMMA Rest ==
  ASSUME NEW a \in Seq(Int), a # <<>>
  PROVE  Tail(a) \in Seq(Int) /\ Len(Tail(a)) = Len(a) - 1 /\ Head(a) \in Int
OBVIOUS

LEMMA RowsNext ==
  GivenOK /\ PointsInv /\ PointsInv' /\ CountersOK /\ RowsInv /\ [Next]_vars => RowsInv'
<1> SUFFICES ASSUME GivenOK, PointsInv, PointsInv', CountersOK, RowsInv, [Next]_vars
             PROVE  RowsInv'
  OBVIOUS
<1>1. Wanted' = Wanted /\ plan' = plan
  BY GivenStays DEF inputs, Wanted, plan
<1>2. Grid(experiment, sweep, incumbent) = Wanted /\ Wanted \in Seq(Int)
  BY GridIsWanted
<1>3. /\ grid \in Seq(Int) /\ data \in Seq(Int) /\ Len(data) <= Len(Wanted)
      /\ pc = "run" =>
           IF plan.method = "bias" THEN Len(data) + Len(grid) <= Len(Wanted)
           ELSE grid = Wanted
  BY DEF RowsInv
<1>4. CASE Build
  <2>1. grid' = Wanted /\ data' = <<>>
    BY <1>2, <1>4 DEF Build
  <2> QED
    BY <1>1, <1>2, <2>1 DEF RowsInv
<1>5. CASE Run
  <2>1. grid' = grid /\ grid = Wanted /\ plan.method # "bias"
    BY <1>3, <1>5 DEF Run
  <2> DEFINE played == Played(experiment, Chunk)
  <2>2. Chunk \in Seq(Int) /\ Len(data) + Len(Chunk) <= Len(grid)
    BY <1>3, <2>1, ChunkFollows
  <2>3. played \in Seq(Int) /\ Len(played) = Len(Chunk)
    BY <2>2, PlayedRows
  <2>4. data' = data \o played
    BY <1>5 DEF Run
  <2> HIDE DEF played
  <2>5. data' \in Seq(Int) /\ Len(data') = Len(data) + Len(played)
    BY <1>3, <2>3, <2>4, Joined
  <2> QED
    BY <1>1, <1>3, <2>1, <2>2, <2>3, <2>5 DEF RowsInv
<1>6. CASE Bias
  <2>1. /\ pc = "run" /\ plan.method = "bias" /\ grid # <<>>
        /\ grid' = Tail(grid) /\ data' \in {data, Append(data, Head(grid))}
    BY <1>6 DEF Bias
  <2>2. /\ grid' \in Seq(Int) /\ Len(grid') = Len(grid) - 1 /\ Head(grid) \in Int
    BY <1>3, <2>1, Rest
  <2>3. data' \in Seq(Int) /\ Len(data') <= Len(data) + 1
    <3>1. /\ Append(data, Head(grid)) \in Seq(Int)
          /\ Len(Append(data, Head(grid))) = Len(data) + 1 /\ Len(data) \in Nat
      BY <1>3, <2>2
    <3>2. CASE data' = data
      BY <1>3, <3>1, <3>2
    <3>3. CASE data' = Append(data, Head(grid))
      BY <3>1, <3>3
    <3> QED
      BY <2>1, <3>2, <3>3
  <2>4. /\ Len(grid) \in Nat /\ Len(data) \in Nat /\ Len(data') \in Nat /\ Len(Wanted) \in Nat
        /\ Len(grid') \in Nat
    BY <1>2, <1>3, <2>2, <2>3
  <2> QED
    BY <1>1, <1>3, <2>1, <2>2, <2>3, <2>4 DEF RowsInv
<1>7. CASE Resting
  BY <1>1, <1>3, <1>7 DEF Resting, RowsInv
<1> QED
  BY <1>4, <1>5, <1>6, <1>7, RowSteps

\* The invariant holds, with those of the sweep and of what is borrowed.
LEMMA TypeCorrectInv == Spec => [](SweepInv /\ BorrowInv /\ TypeInv)
<1>1. Init => TypeInv
  BY TypeInit
<1>2. SweepInv /\ BorrowInv /\ TypeInv /\ [Next]_vars => TypeInv'
  <2> SUFFICES ASSUME SweepInv, BorrowInv, TypeInv, [Next]_vars PROVE TypeInv'
    OBVIOUS
  <2>1. GivenOK'
    BY GivenStays DEF TypeInv, GivenOK, inputs
  <2>2. PointsInv'
    BY PointsNext DEF TypeInv
  <2>3. CountersOK'
    BY CountersNext DEF TypeInv
  <2>4. RowsInv'
    BY <2>2, RowsNext DEF TypeInv
  <2> QED
    BY <2>1, <2>2, <2>3, <2>4 DEF TypeInv
<1> QED
  BY <1>1, <1>2, SweepInit, SweepNext, BorrowInit, BorrowNext, PTL DEF Spec

\* Every variable holds what the code may put there.
\* (CalibrationRoutine and its loops.)
THEOREM TypeCorrect == Spec => []TypeOK
<1>1. SweepInv /\ BorrowInv /\ TypeInv => TypeOK
  <2> SUFFICES ASSUME SweepInv, BorrowInv, TypeInv PROVE TypeOK
    OBVIOUS
  <2> DEFINE SweepsOK == [low : Int, high : Int, points : Nat]
  <2>1. GivenOK /\ PointsInv /\ CountersOK /\ RowsInv
    BY DEF TypeInv
  <2>2. /\ experiment \in DOMAIN Plan /\ PlanOK(experiment, plan)
        /\ plan.axis \in {"none", "list", "span", "ladder"}
    BY <2>1, PlansOK, Axes DEF GivenOK, plan
  <2>3. SweepType \subseteq SweepsOK /\ Ladders(experiment) \subseteq SweepsOK
    <3>1. SweepType \subseteq SweepsOK
      BY DEF SweepType
    <3>2. \A top, count \in Nat : Ladder(top, count) \in SweepsOK
      BY DEF Ladder
    <3> HIDE DEF SweepsOK
    <3>3. Ladders(experiment) \subseteq SweepsOK
      <4>1. {Ladder(25, 25), Ladder(12, 12), Ladder(6, 6), Ladder(4, 4)} \subseteq SweepsOK
        BY <3>2
      <4>2. {Ladder(13, 4), Ladder(7, 4)} \subseteq SweepsOK
        BY <3>2
      <4> QED
        BY <4>1, <4>2 DEF Ladders
    <3> QED
      BY <3>1, <3>3
  <2>4. base \in SweepsOK /\ sweep \in SweepsOK /\ tried \subseteq SweepsOK
    <3>1. CASE plan.axis = "none"
      <4>1. Default(experiment, points) \in SweepsOK
        BY <2>1, DefaultPoints DEF GivenOK
      <4>2. /\ base = Default(experiment, points) /\ sweep = Default(experiment, points)
            /\ tried = {}
        BY <2>1, <3>1 DEF PointsInv, SweepInv
      <4> QED
        BY <4>1, <4>2
    <3>2. CASE plan.axis \in {"list", "span"}
      <4>1. base \in SweepType /\ sweep \in SweepType /\ tried \subseteq SweepType
        BY <3>2 DEF SweepInv, Fits, plan
      <4> QED
        BY <2>3, <4>1
    <3>3. CASE plan.axis = "ladder"
      <4>1. /\ base \in Ladders(experiment) /\ sweep \in Ladders(experiment)
            /\ tried \subseteq Ladders(experiment)
        BY <3>3 DEF SweepInv, Fits, plan
      <4> QED
        BY <2>3, <4>1
    <3> QED
      BY <2>2, <3>1, <3>2, <3>3
  <2>5. attempt \in 0..MAX_ESCALATIONS
    BY DEF SweepInv
  <2>6. passes \in 0..MAX_REFINEMENTS
    BY <2>1 DEF CountersOK, MAX_REFINEMENTS
  <2>7. Len(data) <= Len(Grid(experiment, sweep, incumbent))
    BY <2>1, GridIsWanted DEF RowsInv
  <2>8. borrowed \subseteq {"delay", "window", "current"}
    BY DEF BorrowInv
  <2> QED
    BY <2>1, <2>4, <2>5, <2>6, <2>7, <2>8 DEF TypeOK, GivenOK, CountersOK
<1> QED
  BY <1>1, TypeCorrectInv, PTL

-----------------------------------------------------------------------------
(* The rows that analyse goes by. *)

\* What a schedule brings of one row.
PlayedRow(w) == IF plan.grid = "windows" THEN Integrated(w) ELSE w

\* The invariant: what was acquired is the beginning of the grid, row by row, and at
\* the end the routine holds the rows of the whole grid.
HeldRowsInv ==
  plan.method # "bias" =>
     /\ pc = "run" => \A i \in 1..Len(data) : data[i] = PlayedRow(grid[i])
     /\ pc = "fit" => rows = grid /\ data = Played(experiment, grid)

LEMMA HeldRowsNext == TypeInv /\ HeldRowsInv /\ [Next]_vars => HeldRowsInv'
<1> SUFFICES ASSUME TypeInv, HeldRowsInv, [Next]_vars PROVE HeldRowsInv'
  OBVIOUS
<1>0. GivenOK /\ PointsInv /\ CountersOK /\ RowsInv
  BY DEF TypeInv
<1>1. experiment' = experiment /\ incumbent' = incumbent /\ plan' = plan
  BY GivenStays DEF inputs, plan
<1>a. \A w : PlayedRow(w)' = PlayedRow(w)
  BY <1>1 DEF PlayedRow
<1>2. Grid(experiment, sweep, incumbent) = Wanted /\ Wanted \in Seq(Int)
  BY <1>0, GridIsWanted
<1>3. CASE Build
  <2>1. data' = <<>> /\ pc' = "run" /\ Len(data') = 0
    BY <1>3 DEF Build
  <2>2. \A i \in 1..Len(data') : data'[i] = grid'[i]
    BY <2>1
  <2> QED
    BY <1>1, <2>1, <2>2 DEF HeldRowsInv
<1>4. CASE Run
  <2>1. /\ grid' = grid /\ grid = Wanted /\ plan.method # "bias" /\ pc = "run"
        /\ grid \in Seq(Int) /\ data \in Seq(Int) /\ Len(data) <= Len(grid)
    BY <1>0, <1>2, <1>4 DEF Run, RowsInv
  <2>2. \A i \in 1..Len(data) : data[i] = PlayedRow(grid[i])
    BY <2>1 DEF HeldRowsInv
  <2> DEFINE C == Chunk
             P == Played(experiment, C)
  <2>3. /\ C \in Seq(Int) /\ Len(data) + Len(C) <= Len(grid)
        /\ \A i \in 1..Len(C) : C[i] = grid[Len(data) + i]
    BY <1>0, <2>1, ChunkFollows
  <2>4. data' = data \o P
    BY <1>4 DEF Run
  <2>5. /\ P \in Seq(Int) /\ Len(P) = Len(C)
        /\ \A i \in 1..Len(C) : P[i] = PlayedRow(C[i])
    BY <2>3, PlayedRows DEF PlayedRow
  <2> HIDE DEF C, P
  <2>6. /\ data \o P \in Seq(Int) /\ Len(data \o P) = Len(data) + Len(P)
        /\ \A i \in 1..(Len(data) + Len(P)) :
             (data \o P)[i] = IF i <= Len(data) THEN data[i] ELSE P[i - Len(data)]
    BY <2>1, <2>5, Joined
  <2>7. /\ data' \in Seq(Int) /\ Len(data') = Len(data) + Len(C)
        /\ \A i \in 1..Len(data') :
             data'[i] = IF i <= Len(data) THEN data[i] ELSE P[i - Len(data)]
    BY <2>4, <2>5, <2>6
  <2>8. ASSUME NEW i \in 1..Len(data') PROVE data'[i] = PlayedRow(grid[i])
    <3>1. CASE i <= Len(data)
      <4>1. i \in 1..Len(data)
        BY <2>1, <2>7, <3>1
      <4>2. data'[i] = data[i]
        BY <2>7, <3>1
      <4> QED
        BY <2>2, <4>1, <4>2
    <3>2. CASE ~ (i <= Len(data))
      <4>1. i - Len(data) \in 1..Len(C) /\ Len(data) + (i - Len(data)) = i
        BY <2>1, <2>3, <2>7, <3>2
      <4>2. data'[i] = P[i - Len(data)]
        BY <2>7, <3>2
      <4> QED
        BY <2>3, <2>5, <4>1, <4>2
    <3> QED
      BY <3>1, <3>2
  <2>9. CASE Len(data') # Len(grid)
    <3>1. pc' = "run"
      BY <1>4, <2>9 DEF Run
    <3> QED
      BY <1>1, <1>a, <2>1, <2>8, <3>1 DEF HeldRowsInv
  <2>10. CASE Len(data') = Len(grid)
    <3>1. pc' = "fit" /\ rows' = grid
      BY <1>4, <2>10 DEF Run
    <3>2. data' = Played(experiment, grid)
      <4> DEFINE n == Len(grid)
                 d == data'
                 p == Played(experiment, grid)
      <4>1. /\ p \in Seq(Int) /\ Len(p) = n
            /\ \A i \in 1..n : p[i] = PlayedRow(grid[i])
        BY <2>1, PlayedRows DEF PlayedRow
      <4>2. d \in Seq(Int) /\ Len(d) = n /\ \A i \in 1..n : d[i] = PlayedRow(grid[i])
        BY <2>7, <2>8, <2>10
      <4> HIDE DEF n, d, p
      <4>3. d = [i \in 1..n |-> d[i]] /\ p = [i \in 1..n |-> p[i]]
        BY <4>1, <4>2
      <4>4. d = p
        BY <4>1, <4>2, <4>3
      <4> QED
        BY <4>4 DEF d, p
    <3> QED
      BY <1>1, <2>1, <3>1, <3>2 DEF HeldRowsInv
  <2> QED
    BY <2>9, <2>10
<1>5. CASE Bias
  BY <1>1, <1>5 DEF Bias, HeldRowsInv
<1>6. CASE Resting
  <2>1. /\ grid' = grid /\ rows' = rows /\ data' = data
        /\ pc' = "run" => pc = "run"
        /\ pc' = "fit" => pc = "fit" \/ plan.method = "bias"
    BY <1>6 DEF Resting
  <2> QED
    BY <1>1, <1>a, <2>1 DEF HeldRowsInv
<1> QED
  BY <1>3, <1>4, <1>5, <1>6, RowSteps

\* However many schedules the rows were split over, analyse is handed each of them
\* once and in order, as a schedule plays it, and goes by the whole grid's.
\* (acquire_in_row_chunks, RandomizedBenchmarking.acquire and ReadoutIntegrationTime.)
THEOREM RowsAreWhatAnalyseFitsHolds == Spec => []RowsAreWhatAnalyseFits
<1>1. Init => HeldRowsInv
  BY DEF Init, HeldRowsInv
<1>2. HeldRowsInv => RowsAreWhatAnalyseFits
  BY DEF HeldRowsInv, RowsAreWhatAnalyseFits
<1> QED
  BY <1>1, <1>2, HeldRowsNext, TypeCorrectInv, PTL DEF Spec

=============================================================================
