SPECIFICATION Spec
CONSTANTS
  MaxInstances = 1
  MaxRunning = 1
  TotalBudgetGiB = 2
  Sizes = {1}
  Host = "cluster"
  RuntimeAddress = "planned"
  InstantBoot = FALSE
  CreatedState = "running"
  Procs = {p1, p2}
  NoProc = NoProc
  Kinds = {"create", "start", "stop", "delete", "grant"}
  Faults = {"runtime", "store", "db", "idp", "process", "server"}
  Existing = {1}
  MaxWorlds = 3
SYMMETRY Symmetry
INVARIANTS
  TypeOK
  NoInheritedAccess
  ManifestsMatchRow
  SlotInv
PROPERTIES
  CreateNeverOverwrites
