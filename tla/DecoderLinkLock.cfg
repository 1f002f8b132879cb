SPECIFICATION FairSpec
CONSTANTS
  MaxLines = 1
  Periods = 2
  Launches = 1
  Files = 1
  Crashes = FALSE
  Splits = FALSE
  Prompt = FALSE
PROPERTY
  LockRecreated
CHECK_DEADLOCK FALSE
