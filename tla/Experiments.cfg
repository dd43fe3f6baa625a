SPECIFICATION FairSpec
CONSTANTS
  Experiments <- AllExperiments
  NamedPoints = {51, 301}
  Bands = {0, 60, 1000}
  Incumbents = {4, 8, 20}
  Currents = 5
INVARIANTS TypeOK RowsAreWhatAnalyseFits EveryTryIsAnotherSweep SweepIsPlayable BorrowedSettingIsReturned
PROPERTY MeasurementEnds
CHECK_DEADLOCK FALSE
