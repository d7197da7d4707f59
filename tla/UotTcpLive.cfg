SPECIFICATION FairSpec
CONSTANTS
  Chan = {c1, c2}
  NumEvents = 5
  FdLimit = 5
  LruSize = 3
  MaxBatch = 1
  KeepaliveTimeout = 1
  Word = 16
  ClockSteps <- MCAnyClock
  Reports <- MCReports
  Listener = Listener
  NoConn = NoConn
INVARIANT TableMatchesChannels
PROPERTIES
  SilentChannelsAreClosed
