SPECIFICATION Spec
CONSTANTS
  Conn = {x1, x2, x3}
  Listener = Listener
  NoConn = NoConn
  NumEvents = 4
  MaxGet = 3
  Handlers = {"epoll", "select", "kqueue"}
SYMMETRY Symmetry
INVARIANTS
  ArrayMatchesFilters
PROPERTY Contract
CHECK_DEADLOCK FALSE
