SPECIFICATION Spec
CONSTANTS
  Workers = {w1, w2}
  Conns = {c1, c2}
  Statuses = {200}
  TimerOn = TRUE
  Tick = Tick
  Invoker = Invoker
  Signal = Signal
  NoConn = NoConn
  NoStatus = 0
INVARIANTS
  TypeOK
  OneAtATime
  WorkInOnePlace
PROPERTIES
  EveryRequestAnswered
  TicksGoOn
  ServesInOrder
CHECK_DEADLOCK FALSE
