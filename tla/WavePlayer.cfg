SPECIFICATION FairSpec
CONSTANTS
  Units = {1, 2, 3}
  cwMax = 1
  Longest = 2
  Timely = TRUE
INVARIANTS
  TypeOK
  DisposedOnce
  NoUnitStaysBehind
PROPERTIES
  SignatureFromItsBeginning
  FileFromItsBeginning
  PlaysOneThingAtATime
  PlayerIsReleased
