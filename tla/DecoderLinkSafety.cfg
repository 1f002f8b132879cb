SPECIFICATION Spec
CONSTANTS
  MaxLines = 1
  Periods = 3
  Launches = 2
  Files = 1
  Crashes = TRUE
  Splits = TRUE
  Prompt = FALSE
INVARIANTS
  TypeOK
  NoPeriodReportedTwice
CHECK_DEADLOCK FALSE
