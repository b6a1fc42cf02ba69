SPECIFICATION Spec
CONSTANTS
  Accounts = {a1}
  Members = {a1}
  SignedIn = {a1}
  MaxInstances = 2
  Procs = {p1, p2}
  Concurrent = TRUE
  Kinds = {"grant", "revoke", "signout", "signin", "page"}
  Faults = {"sessions"}
  SessionTTL = 3
  MaxSessions = 2
  MaxWorlds = 2
  MaxTime = 0
SYMMETRY Symmetry
INVARIANTS
  AccessEndsAtSignOut
