SPECIFICATION Spec
CONSTANTS
  d1 = d1  d2 = d2  p1 = p1  p2 = p2  s1 = s1  s2 = s2  s3 = s3  q1 = q1  c1 = c1  c2 = c2
  NoSession = NoSession
  Drivers <- TwoDrivers
  QPUs = {q1}
  Processes <- TwoProcesses
  Sessions <- SessionOfEach
  DriverQPU <- OnTheQPU
  Operation <- BothProcess
  DriverOf <- MCDriverOf
  Pipes = {c1, c2}
  PipeOf <- OfP2
  SessionDriver <- MCSessionDriver
  Pairs = {1, 2}
  MaxToggles = 0
  MaxFaults = 2
SYMMETRY EitherPipe
PROPERTY LivePeerIsFound
CHECK_DEADLOCK FALSE
