SPECIFICATION Spec
CONSTANTS
  Me = me
  Others = {second, third}
  MaxMoment = 1
  MaxPolls = 2
  playersUpdateInterval = 2
INVARIANTS TypeOK NeverBroken NoGhosts
PROPERTIES PageCatchesUp
