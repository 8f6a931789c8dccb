SPECIFICATION Spec
CONSTANTS
  Cell = 5
  Width = 2
  Coords = {0, 1, 2}
  MaxRoads = 2
  Paces = {3}
  Times = {1, 2}
INVARIANTS
  FindExact
  TickSplit
  IndexPartitioned
CHECK_DEADLOCK FALSE
