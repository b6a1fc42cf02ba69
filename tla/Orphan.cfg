SPECIFICATION Spec
CONSTANTS
  MaxInstances = 1
  MaxRunning = 1
  TotalBudgetGiB = 2
  Sizes = {1}
  Host = "docker"
  RuntimeAddress = "planned"
  InstantBoot = FALSE
  CreatedState = "running"
  Procs = {p1, p2}
  NoProc = NoProc
  Kinds = {"start", "stop", "delete"}
  Faults = {}
  Existing = {1}
  MaxWorlds = 3
SYMMETRY Symmetry
INVARIANTS
  NoSilentOrphan
