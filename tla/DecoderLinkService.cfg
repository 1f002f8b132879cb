SPECIFICATION FairSpec
CONSTANTS
  MaxLines = 2
  Periods = 3
  Launches = 1
  Files = 0
  Crashes = FALSE
  Splits = FALSE
  Prompt = TRUE
INVARIANTS
  DecodesWholePeriods
  LinesBelongToTheirPeriod
PROPERTY
  KeepsPromise
CHECK_DEADLOCK FALSE
