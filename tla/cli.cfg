CONSTANTS
  SampleCounts <- MCSampleCounts
  ParameterSets <- MCParameterSets
  amountOfExpandPkRuns = 30
  amountOfVerifyRuns = 10
SPECIFICATION Spec
INVARIANTS
  FilesComplete
  TimedVerificationsSucceed
  StructFits
PROPERTY StopsProperly
CHECK_DEADLOCK FALSE
