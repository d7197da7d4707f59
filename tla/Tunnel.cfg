SPECIFICATION Spec
CONSTANTS
  Conn = {c1, c2}
  None = None
  KeepaliveInterval = 1
  ReconnectInterval = 1
  KeepaliveTimeout = 5
INVARIANT RecoversInTime
PROPERTY EnduresTrouble
