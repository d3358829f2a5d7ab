SPECIFICATION Spec
CONSTANTS
  Fds = {4, 44}
  MaxConns = 2
  MaxRequests = 2
  MaxBots = 2
  NONE = none
INVARIANTS
  TypeOK
  AnswersInOrder
PROPERTIES
  RequestsAnswered
CHECK_DEADLOCK FALSE
