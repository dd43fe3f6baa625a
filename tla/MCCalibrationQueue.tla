------------------------- MODULE MCCalibrationQueue -------------------------
(* Small instances of CalibrationQueue: requests are numbers, by `created`. *)
EXTENDS CalibrationQueue, TLC

CONSTANTS t1, t2, s1, s2, s3, c1

\* One chip with one tuner, and two sessions of it so that they may overlap.
OneTuner == {t1}
TwoSessions == {s1, s2}
OneSession == {s1}
OneRequest == {1}
TwoRequests == {1, 2}
MCRequestTuner == [r \in Requests |-> IF r = 1 \/ Tuners = {t1} THEN t1 ELSE t2]
MCChipOf == [d \in Tuners |-> c1]
MCSessionTuner == [s \in Sessions |-> IF s = s3 THEN t2 ELSE t1]
NoChecks == {}

\* One chip with two tuners, a request for each.
TwoTuners == {t1, t2}
SessionOfEach == {s1, s3}
=============================================================================
