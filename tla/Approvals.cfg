SPECIFICATION Spec
CONSTANTS
  Accounts = {a1, a2, b}
  Admins = {b}
  Procs = {p1, p2, p3}
  Games = {"valheim"}
  CreationLimit = 1
  MaxInstances = 3
  OnePerAccount = TRUE
  OneDecider = TRUE
  Faults = {"create", "read"}
  MaxRequests = 2
  MaxWorlds = 4
SYMMETRY Symmetry
INVARIANTS
  RequestsTypeOK
  LimitsKept
PROPERTIES
  DecidedOnceAndWhole
