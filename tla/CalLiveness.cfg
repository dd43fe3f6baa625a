SPECIFICATION FairSpec
CONSTANTS
  t1 = t1  t2 = t2  s1 = s1  s2 = s2  s3 = s3  c1 = c1
  NoSession = NoSession  NoJob = NoJob  Dead = Dead
  Requests <- OneRequest
  Chips = {c1}
  Tuners <- OneTuner
  Sessions <- OneSession
  RequestTuner <- MCRequestTuner
  FidelityChecks <- NoChecks
  ChipOf <- MCChipOf
  SessionTuner <- MCSessionTuner
  MaxSends = 2
  MaxDrifts = 1
  MaxToggles = 0
  MaxFaults = 1
PROPERTY RequestIsSettled
CHECK_DEADLOCK FALSE
