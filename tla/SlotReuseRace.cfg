SPECIFICATION Spec
CONSTANTS
  Accounts = {a1, a2}
  Members = {a1}
  SignedIn = {a1}
  MaxInstances = 2
  Procs = {p1, p2}
  Concurrent = TRUE
  Kinds = {"grant", "create", "delete"}
  Faults = {}
  SessionTTL = 4
  MaxSessions = 1
  MaxWorlds = 3
  MaxTime = 0
SYMMETRY Symmetry
INVARIANTS
  AccessWasGranted
