SPECIFICATION MCSpec
CONSTANTS
  w1 = w1
  w2 = w2
  w3 = w3
  Subjects = {"rcon"}
  Worlds = {w1, w2, w3}
  Minecraft = {w1, w2}
  Fresh = {w2}
  Globs <- Own
  DailyGlobs <- Own
  Keep = 1
  Admins = {p1}
  Scheduler = sched
  BackupFaults = {"launch", "list"}
  MaxWrites = 3
  MaxVersions = 1
  MaxDays = 1
  MaxAsked = 2
  MaxJobs = 2
  Hosts = {"cluster", "docker"}
  SlowChecks = FALSE
  StoreFails = TRUE
  MaxEvents = 5
  Numbers = {1, 2}
  Players = {a, b}
  TailLines = 4
  Overlap = FALSE
  MaxLines = 3
  MaxBreaks = 1
  MaxStops = 1
  Names = {u1, u2}
  Clients = {c1, c2}
  Overlapping = {}
  ListFaults = {"store", "rcon", "lost", "game", "death"}
  HasCluster = TRUE
  MaxListRequests = 4
  IndexTTL = 3
  FreshFor = 1
  FetchTimeout = 1
  RetryPause = 1
  MaxClock = 4
  MaxRestarts = 1
  NoIndex = NoIndex
  Profiles <- MCProfiles
  Legacy = {"minecraft"}
  TierKeys <- MCTierKeys
  Builtin <- MCBuiltin
  Sizes <- MCSizes
  Limits = {0, 2}
  DefaultLimit = 3
  Ceilings = {0, 1}
  Editors = {e1}
  MaxBoots = 2
  MaxEdits = 2
  NoRow = NoRow
  Commands = {r1, r2, r3}
  Routes <- MCRoutes
  MaxOutages = 1
  NoWire = NoWire
CHECK_DEADLOCK FALSE
INVARIANTS
  RunAtMostOnce
