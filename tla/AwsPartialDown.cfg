SPECIFICATION Spec
CONSTANTS
  Procs = {p1}
  Members = 2
  Clients = 0
  Replaceable = TRUE
  Ops = {"down"}
  MaxInst = 2
  MaxFaults = 1
  MaxCmds = 0
  Interrupts = FALSE
  Crashes = FALSE
  Purges = FALSE
  StartUp = TRUE
PROPERTY RecordedVolumesKept
