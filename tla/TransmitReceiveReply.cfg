CONSTANTS
  Minute = 4
  SlotEnd = 1
  Mons = {1, 2, 3, 4}
  Txs = {5, 6}
  Operator = operator
  NoOne = noone
  Timely = TRUE
  DecodeOwn = FALSE
  FilePlayer = FALSE
  MaxEvents = 2
  Hears = TRUE
SPECIFICATION BoundedSpec
PROPERTY QsoGetsItsTurn
