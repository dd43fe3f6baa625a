--------------------------- MODULE MCJobLifecycle ---------------------------
(* Instances of JobLifecycle for TLC. *)
EXTENDS JobLifecycle, FiniteSets

CONSTANTS u1, u2, q1, q2, d1, d2, s1, s2

\* Jobs 1 and 2 target q1.
OneQPU == [j \in Jobs |-> q1]
TwoQPUs == [j \in Jobs |-> IF j = 1 THEN q1 ELSE q2]
OneUser == [j \in Jobs |-> u1]
TwoUsers == [j \in Jobs |-> IF j = 1 THEN u1 ELSE u2]
AllOnQ1 == [d \in Drivers |-> q1]
ServesD1 == [s \in Sessions |-> d1]
ServesBoth == [s \in Sessions |-> IF s = s1 THEN d1 ELSE d2]
DriverPerQPU == [d \in Drivers |-> IF d = d1 THEN q1 ELSE q2]

=============================================================================
