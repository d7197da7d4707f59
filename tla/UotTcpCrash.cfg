\* As with the usual limit of 1024, an even number of descriptors is left; the
\* pool and the table are large enough.
SPECIFICATION Spec
CONSTANTS
  Chan = {c1, c2}
  NumEvents = 5
  FdLimit = 4
  LruSize = 3
  MaxBatch = 3
  KeepaliveTimeout = 1
  Word = 16
  ClockSteps <- MCForward
  Reports <- MCReports
  Listener = Listener
  NoConn = NoConn
SYMMETRY Symmetry
INVARIANT NeverCrashes
