SPECIFICATION FairSpec
CONSTANTS
  Procs = {a, b}
  Ops = {"replace", "delete", "stop", "start"}
  MaxFaults = 2
  MaxForeign = 1
  MaxIds = 7
  PartialRuns = TRUE
INVARIANTS
  TypeOK
  CancelNeverStrands
  NoSilentLoss
  OnlyOwnedTouched
PROPERTIES
  ReplacedMeansReplaced
  CallsReturn
