SPECIFICATION Spec
CONSTANTS
  Procs = {p1}
  Members = 1
  Clients = 0
  Replaceable = TRUE
  Ops = {"replace", "down"}
  MaxInst = 2
  MaxFaults = 1
  MaxCmds = 1
  Interrupts = TRUE
  Crashes = FALSE
  Purges = FALSE
  StartUp = TRUE
INVARIANT ReplacementNeverLeaks
