SPECIFICATION Spec
CONSTANTS
  u1 = u1
  u2 = u2
  q1 = q1
  q2 = q2
  d1 = d1
  d2 = d2
  s1 = s1
  s2 = s2
  NoSession = NoSession
  NoJob = NoJob
  NoMessage = NoMessage
  Jobs = {1, 2}
  QPUs = {q1, q2}
  Users = {u1, u2}
  Drivers = {d1, d2}
  Processors = {d1, d2}
  Sessions = {s1, s2}
  Target <- OneQPU
  Owner <- OneUser
  DriverQPU <- DriverPerQPU
  SessionDriver <- ServesBoth
  MaxSends = 1
  MaxFaults = 2
INVARIANTS OldestFirst FinishedJobsRan
CHECK_DEADLOCK FALSE
