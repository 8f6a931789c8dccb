SPECIFICATION Spec
CONSTANTS
  Clients = {c1, c2}
  Threads = {main, t1}
  Main = main
  MaxRequests = 3
INVARIANTS TypeOK AnswersInOrder AtMostOneUnanswered
PROPERTIES Accepted SessionsEnd
CHECK_DEADLOCK FALSE
