SPECIFICATION Spec
CONSTANTS
  Worlds = {w1}
  People = {a}
  Handlers = {h1}
  Tick = tick
  NoWorld = none
  Races = {"merge"}
  Faults = {}
  MaxChanges = 2
  MaxLines = 0
  MaxTime = 4
  MaxLost = 0
CHECK_DEADLOCK FALSE
INVARIANT
  NoChangeIsForgotten
