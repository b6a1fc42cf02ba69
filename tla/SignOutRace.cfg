SPECIFICATION Spec
CONSTANTS
  Accounts = {a1}
  Members = {a1}
  SignedIn = {}
  MaxInstances = 1
  Procs = {p1, p2}
  Concurrent = TRUE
  Kinds = {"revoke", "signout", "signin"}
  Faults = {}
  SessionTTL = 4
  MaxSessions = 2
  MaxWorlds = 1
  MaxTime = 0
SYMMETRY Symmetry
INVARIANTS
  SignOutIsImmediate
