SPECIFICATION Spec
CONSTANTS
  Worlds = {w1}
  People = {a}
  Handlers = {h1, h2}
  Tick = tick
  NoWorld = none
  Races = {}
  Faults = {"lookup", "restart"}
  MaxChanges = 2
  MaxLines = 0
  MaxTime = 4
  MaxLost = 0
SYMMETRY Symmetry
CHECK_DEADLOCK FALSE
INVARIANTS
  RestartQueueTypeOK
  NoChangeIsForgotten
