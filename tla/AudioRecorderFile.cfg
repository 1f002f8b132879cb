SPECIFICATION Spec
CONSTANTS
  Minute = 5
  SlotEnd = 2
  Capacity = 10
  Buffers = 3
  Minutes = 2
  Ticks = {r1, r2}
  Timely = TRUE
PROPERTY
  PacketsAreWritten
CHECK_DEADLOCK FALSE
