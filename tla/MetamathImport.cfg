SPECIFICATION MCSpec
CONSTANTS
  Variables <- MCVariables
  LowDigits = 2
  HighDigits = 2
  Jobs <- AllJobs
  MaxRuns = 2
  MaxMishaps = 3
INVARIANTS
  PublishedWhole
  CitationsRecorded
  GrammarAsOf
  InnerLayersKeepTheirOwn
  LinesReachStatement
CHECK_DEADLOCK FALSE
