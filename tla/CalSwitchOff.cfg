SPECIFICATION Spec
CONSTANTS
  t1 = t1  t2 = t2  s1 = s1  s2 = s2  s3 = s3  c1 = c1
  NoSession = NoSession  NoJob = NoJob  Dead = Dead
  Requests <- TwoRequests
  Chips = {c1}
  Tuners <- OneTuner
  Sessions <- OneSession
  RequestTuner <- MCRequestTuner
  FidelityChecks <- OneRequest
  ChipOf <- MCChipOf
  SessionTuner <- MCSessionTuner
  MaxSends = 1
  MaxDrifts = 1
  MaxToggles = 1
  MaxFaults = 0
INVARIANTS SwitchOffLetsOneThrough DoneRequestRan AnnouncedBeforeReported
CHECK_DEADLOCK FALSE
