SPECIFICATION Spec
CONSTANTS
  t1 = t1  t2 = t2  s1 = s1  s2 = s2  s3 = s3  c1 = c1
  NoSession = NoSession  NoJob = NoJob  Dead = Dead
  Requests <- TwoRequests
  Chips = {c1}
  Tuners <- OneTuner
  Sessions <- TwoSessions
  RequestTuner <- MCRequestTuner
  FidelityChecks <- NoChecks
  ChipOf <- MCChipOf
  SessionTuner <- MCSessionTuner
  MaxSends = 2
  MaxDrifts = 0
  MaxToggles = 0
  MaxFaults = 2
INVARIANT TypeOK
INVARIANT OldestFirst
CHECK_DEADLOCK FALSE
