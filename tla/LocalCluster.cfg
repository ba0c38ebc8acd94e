SPECIFICATION Spec
CONSTANTS
  Procs = {1, 2}
  Runtimes <- TwoRuntimes
  Members = 2
  MaxCreates = 2
  MaxFaults = 1
  ForeignAt <- SecondInDocker
INVARIANTS RemovalComplete
PROPERTIES UpsDontFight ForeignKept UnlabelledNeedsRace CleanedUp
