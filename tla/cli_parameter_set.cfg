CONSTANTS
  SampleCounts <- MCSampleCounts
  ParameterSets <- MCParameterSets
  amountOfExpandPkRuns = 30
  amountOfVerifyRuns = 10
SPECIFICATION Spec
INVARIANT ParameterSetUsed
CHECK_DEADLOCK FALSE
