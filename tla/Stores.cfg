SPECIFICATION MCSpec
CONSTANTS
  c1 = c1
  c2 = c2
  c3 = c3
  p1 = p1
  p2 = p2
  d1 = d1
  d2 = d2
  n1 = n1
  n2 = n2
  e1 = e1
  e2 = e2
  NoDoc = NoDoc
  Procs = {p1, p2}
  Clients = {c1, c2, c3}
  ProcOf <- MCProcOf
  Dirs = {d1, d2}
  Names = {n1, n2}
  Entries = {e1, e2}
  CallsOf <- MCCallsOf
  InitTree <- MCInitTree
  Backends = {"git", "local"}
  SharedEdits = FALSE
  RawPuts = FALSE
  RemovalsFail = FALSE
  MaxCommits = 3
  MaxCrashes = 1
CHECK_DEADLOCK FALSE
INVARIANTS
  GitInv
PROPERTIES
  GitImplementsStateStore
  LocalImplementsStateStore
