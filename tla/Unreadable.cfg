SPECIFICATION Spec
CONSTANTS
  MaxInstances = 1
  MaxRunning = 1
  TotalBudgetGiB = 2
  Sizes = {1}
  Host = "cluster"
  RuntimeAddress = "planned"
  InstantBoot = FALSE
  CreatedState = "running"
  Procs = {p1, p2}
  NoProc = NoProc
  Kinds = {"create", "delete"}
  Faults = {"read", "db"}
  Existing = {1}
  MaxWorlds = 3
SYMMETRY Symmetry
PROPERTIES
  CreateNeverOverwrites
