SPECIFICATION Spec
CONSTANTS
  Cell = 5
  Width = 2
  Coords = {0, 1, 2}
  MaxRoads = 3
  Paces = {1}
  Times = {1}
INVARIANTS
  TilesMeet
  OpenWhereDogsWalk
  TilesDrawn
CHECK_DEADLOCK FALSE
