SPECIFICATION FairSpec
CONSTANTS
  Procs = {p1}
  Members = 2
  Clients = 1
  Replaceable = TRUE
  Ops = {"up", "replace", "down"}
  MaxInst = 5
  MaxFaults = 3
  MaxCmds = 3
  Interrupts = TRUE
  Crashes = TRUE
  Purges = FALSE
  StartUp = FALSE
INVARIANTS InstancesAccounted DownComplete MemberKeepsVolume
PROPERTY TeardownFinishes
