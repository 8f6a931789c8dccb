SPECIFICATION Spec
CONSTANTS
  Cell = 5
  Width = 2
  Maps = {"crossing"}
  UnknownMap = "nowhere"
  RoadsOf <- MCRoads
  ConfigSpeed <- MCSpeeds
  DefaultSpeed = 2
  Tokens = {t1}
  BadHeader = BadHeader
  TimerOn = FALSE
  RandomSpawn = TRUE
  TokensRepeat = FALSE
  Methods = {"GET", "POST"}
  Moves = {"U", "D", "L", "R", "S"}
  TickTimes <- MCBackward
  TimerDeltas = {}
  MaxDogs = 1
INVARIANT NeverStranded
