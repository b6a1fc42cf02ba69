SPECIFICATION Spec
CONSTANTS
  Accounts = {a1, a2}
  Members = {a1}
  SignedIn = {a1}
  MaxInstances = 1
  Procs = {p1}
  Concurrent = FALSE
  Kinds = {"grant", "revoke", "signin", "create", "delete", "logout", "purge", "zitadel"}
  Faults = {"idp", "db"}
  SessionTTL = 2
  MaxSessions = 2
  MaxWorlds = 2
  MaxTime = 1
SYMMETRY Symmetry
INVARIANTS
  AccessTypeOK
  AccessWasGranted
