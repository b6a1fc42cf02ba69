SPECIFICATION Spec
CONSTANTS
  Accounts = {a1}
  Admins = {}
  Procs = {p1, p2}
  Games = {"valheim"}
  CreationLimit = 0
  MaxInstances = 3
  OnePerAccount = TRUE
  OneDecider = FALSE
  Faults = {}
  MaxRequests = 1
  MaxWorlds = 3
SYMMETRY Symmetry
INVARIANTS
  OneWorldPerRequest
