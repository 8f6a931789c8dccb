SPECIFICATION Spec
CONSTANTS
  Workers = {w1}
  Conns = {c1, c2}
  Statuses = {200, 404}
  TimerOn = TRUE
  Tick = Tick
  Invoker = Invoker
  Signal = Signal
  NoConn = NoConn
  NoStatus = 0
INVARIANTS
  RequestOutlivesHandler
  LogMatchesResponse
CHECK_DEADLOCK FALSE
