SPECIFICATION FairSpec
CONSTANTS
  u1 = u1
  u2 = u2
  q1 = q1
  q2 = q2
  d1 = d1
  d2 = d2
  s1 = s1
  s2 = s2
  NoSession = NoSession
  NoJob = NoJob
  NoMessage = NoMessage
  Jobs = {1}
  QPUs = {q1}
  Users = {u1, u2}
  Drivers = {d1}
  Processors = {d1}
  Sessions = {s1, s2}
  Target <- OneQPU
  Owner <- OneUser
  DriverQPU <- AllOnQ1
  SessionDriver <- ServesD1
  MaxSends = 4
  MaxFaults = 1
INVARIANTS TypeOK EarlyCancelIsFinal SwitchOffLetsOneThrough
PROPERTIES ImplementsService AcceptedJobIsAnswered
CHECK_DEADLOCK FALSE
