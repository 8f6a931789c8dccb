SPECIFICATION Spec
CONSTANTS
  Cell = 5
  Width = 2
  Maps = {"split"}
  UnknownMap = "nowhere"
  RoadsOf <- MCRoads
  ConfigSpeed <- MCSpeeds
  DefaultSpeed = 7
  Tokens = {t1}
  BadHeader = BadHeader
  TimerOn = TRUE
  RandomSpawn = TRUE
  TokensRepeat = FALSE
  Methods = {"POST"}
  Moves = {"U", "D", "L", "R", "S"}
  TickTimes = {1}
  TimerDeltas = {1}
  MaxDogs = 1
INVARIANTS
  NeverStranded
PROPERTIES
  StaysOnOneRoad
  RunsOutOfRoad
  RestEventually
  KeepsPromise
