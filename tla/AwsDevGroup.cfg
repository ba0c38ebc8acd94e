SPECIFICATION Spec
CONSTANTS
  Machines = {m1, m2}
  Accounts = {home, other}
  MaxUps = 2
  MaxBoxes = 1
  MaxFaults = 1
  OldUser = m1
  None = None
INVARIANTS ResourcesCovered NameLocked
PROPERTIES OnlyOwnDeleted FileCleaned
CHECK_DEADLOCK FALSE
