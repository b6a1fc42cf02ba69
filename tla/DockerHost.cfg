SPECIFICATION MCSpec
CONSTANTS
  MaxInstances = 3
  MaxRunning = 2
  TotalBudgetGiB = 3
  Sizes = {1, 2}
  Host = "docker"
  RuntimeAddress = "actual"
  InstantBoot = TRUE
  CreatedState = "running"
  Procs = {p1, p2}
  NoProc = NoProc
  Kinds = {"create", "delete", "resize", "tier", "settings", "start", "stop", "view"}
  Faults = {"runtime", "store", "process"}
  Existing = {1, 2, 3}
  MaxWorlds = 4
SYMMETRY Symmetry
INVARIANTS
  StartsFitBudget
PROPERTIES
  WorldIDIsStable
