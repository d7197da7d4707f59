SPECIFICATION FairSpec
CONSTANTS
  NumEvents = 3
  ReconnectInterval = 2
  KeepaliveInterval = 1
  KeepaliveTimeout = 3
  Word = 64
  ClockSteps <- MCForward
  Outcomes <- MCOutcomes
CHECK_DEADLOCK FALSE
INVARIANTS
  LinkAccounted
  NoStaleDispatch
  UnsentIsArmed
  KeepalivesKeepUp
PROPERTIES
  NewLinkGetsItsTime
  CrashesOnlyWithoutLink
  LinkIsReopened
  SilentLinkIsGivenUp
