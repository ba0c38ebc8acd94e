SPECIFICATION Spec
CONSTANTS
  Machines = {m1, m2}
  Accounts = {home}
  MaxUps = 2
  MaxBoxes = 1
  MaxFaults = 1
  OldUser = None
  None = None
PROPERTIES OthersUntouched
CHECK_DEADLOCK FALSE
