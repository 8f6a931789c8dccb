SPECIFICATION Spec
CONSTANTS
  Cell = 5
  Width = 2
  Maps = {"crossing", "corner"}
  UnknownMap = "nowhere"
  RoadsOf <- MCRoads
  ConfigSpeed <- MCSpeeds
  DefaultSpeed = 6
  Tokens = {t1, t2}
  BadHeader = BadHeader
  TimerOn = FALSE
  RandomSpawn = FALSE
  TokensRepeat = TRUE
  Methods = {"GET", "OS"}
  Moves = {"R", "D"}
  TickTimes = {1}
  TimerDeltas = {}
  MaxDogs = 2
SYMMETRY Symmetry
INVARIANTS
  TypeOK
  StateMatchesPlayers
  TokenLeadsToFirst
  PlayerListServed
  SpeedFollowsDirection
  LockedOutStaysPut
PROPERTIES
  StopsOnlyAtBorder
  KeepsPromise
