CONSTANTS
  Minute = 3
  SlotEnd = 1
  Mons = {m1, m2}
  Txs = {t1}
  Operator = operator
  NoOne = noone
  Timely = TRUE
  DecodeOwn = TRUE
  FilePlayer = TRUE
  MaxEvents = 2
  MaxAsides = 1
SPECIFICATION MCSpec
INVARIANT TypeOK
INVARIANT RigHasAnOwner
INVARIANT KillIsRespected
INVARIANT MonitorButtonMeansIdle
INVARIANT OneRecordingPerMonitor
INVARIANT LightIsTrue
SYMMETRY WorkerSymmetry
PROPERTY DoneWithinTheMinute
