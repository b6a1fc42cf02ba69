SPECIFICATION FairSpec
CONSTANTS
  MaxInstances = 1
  MaxRunning = 1
  TotalBudgetGiB = 1
  Sizes = {1}
  Host = "docker"
  RuntimeAddress = "planned"
  InstantBoot = TRUE
  CreatedState = "running"
  Procs = {p1, p2}
  NoProc = NoProc
  Kinds = {"create", "start", "restart", "delete", "view", "reconcile"}
  Faults = {"status", "runtime", "store", "read", "db", "idp"}
  Existing = {1}
  MaxWorlds = 2
PROPERTIES
  RequestsReturn
