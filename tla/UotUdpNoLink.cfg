SPECIFICATION Spec
CONSTANTS
  NumEvents = 3
  ReconnectInterval = 2
  KeepaliveInterval = 1
  KeepaliveTimeout = 3
  Word = 64
  ClockSteps <- MCForward
  Outcomes <- MCInProgress
CHECK_DEADLOCK FALSE
INVARIANTS
  NeverCrashes
