SPECIFICATION FairSpec
CONSTANTS
  d1 = d1  d2 = d2  p1 = p1  p2 = p2  s1 = s1  s2 = s2  s3 = s3  q1 = q1  c1 = c1  c2 = c2
  NoSession = NoSession
  Drivers <- OneDriver
  QPUs = {q1}
  Processes <- OneProcess
  Sessions <- TwoSessions
  DriverQPU <- OnTheQPU
  Operation <- BothProcess
  DriverOf <- MCDriverOf
  Pipes = {c1, c2}
  PipeOf <- OfP1
  SessionDriver <- MCSessionDriver
  Pairs = {1}
  MaxToggles = 1
  MaxFaults = 1
INVARIANTS TypeOK LeaseIsServed OnlineIsThisServers WithdrawnIsReleased
PROPERTY DriverIsServed
CHECK_DEADLOCK FALSE
