SPECIFICATION Spec
CONSTANTS
  Procs = {p1, p2}
  Members = 1
  Clients = 0
  Replaceable = TRUE
  Ops = {"replace", "down"}
  MaxInst = 4
  MaxFaults = 0
  MaxCmds = 3
  Interrupts = FALSE
  Crashes = FALSE
  Purges = TRUE
  StartUp = TRUE
SYMMETRY Symmetry
INVARIANT OneMachinePerMember
