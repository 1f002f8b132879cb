SPECIFICATION WaterfallSpec
CONSTANTS
  Minute = 8
  SlotEnd = 4
  Capacity = 16
  Buffers = 3
  Minutes = 2
  Ticks = {r1, r2}
  Timely = TRUE
  waterfallAvg = 3
  Window = 3
  Acts = FALSE
  MaxDelays = 1
INVARIANTS
  TypeOK
  WaterfallTypeOK
  NoBufferLost
  SoundIsShown
  ClosesItsOwnFile
PROPERTIES
  PeriodIsOfThisMinute
  OneStampPerMinute
  SpectrumIsOfOneRecording
CHECK_DEADLOCK FALSE
