SPECIFICATION LiveSpec
CONSTANTS
  Worlds = {w1}
  People = {a}
  Handlers = {h1}
  Tick = tick
  NoWorld = none
  Races = {"overlap", "merge", "lag", "crash"}
  Faults = {"endpoint"}
  MaxChanges = 1
  MaxLines = 2
  MaxTime = 2
  MaxLost = 1
CHECK_DEADLOCK FALSE
PROPERTIES
  DisconnectsOnlyNewcomers
  PendingRestartHappens
