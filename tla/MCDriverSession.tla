-------------------------- MODULE MCDriverSession --------------------------
(* Small instances of DriverSession: one QPU, port pairs are numbers. *)
EXTENDS DriverSession, TLC

CONSTANTS d1, d2, p1, p2, s1, s2, s3, q1, c1, c2

\* One driver with two sessions that may overlap.
OneDriver == {d1}
TwoProcesses == {p1, p2}
TwoSessions == {s1, s2}
\* Two drivers, with a process and a session each.
TwoDrivers == {d1, d2}
OneProcess == {p1}
OneSession == {s1}
SessionOfEach == {s1, s3}

OnTheQPU == [d \in Drivers |-> q1]
MCDriverOf == [p \in Processes |-> IF p = p2 /\ d2 \in Drivers THEN d2 ELSE d1]
\* Two pipes of one process, an old one and the one it dialled since.
OfP1 == [c \in Pipes |-> p1]
OfP2 == [c \in Pipes |-> p2]
OneEach == [c \in Pipes |-> IF c = c2 THEN p2 ELSE p1]
EitherPipe == Permutations(Pipes)
MCSessionDriver == [s \in Sessions |-> IF s = s3 THEN d2 ELSE d1]
BothProcess == [d \in Drivers |-> "process"]
AMonitorToo == [d \in Drivers |-> IF d = d1 THEN "process" ELSE "monitor"]
=============================================================================
