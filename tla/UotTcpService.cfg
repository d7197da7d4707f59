\* Two channels with both sockets; a third gets no descriptor for its UDP socket,
\* and takes the place of the oldest in the table.
SPECIFICATION Spec
CONSTANTS
  Chan = {c1, c2, c3}
  NumEvents = 6
  FdLimit = 6
  LruSize = 2
  MaxBatch = 3
  KeepaliveTimeout = 1
  Word = 16
  ClockSteps <- MCForward
  Reports <- MCReports
  Listener = Listener
  NoConn = NoConn
SYMMETRY Symmetry
CHECK_DEADLOCK FALSE
INVARIANTS
  TypeOK
  NoStaleDispatch
  EventsAccounted
  DescriptorsAccounted
  TableMatchesChannels
  UnsentIsArmed
PROPERTIES
  CrashesOnlyAtALimit
