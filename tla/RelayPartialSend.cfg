SPECIFICATION RelaySpec
CONSTANTS
  Size = 6
  FrameHead = 2
  Keepalive = 1
  Lengths = {1, 3}
  Address = {dest, other}
  Configured = dest
  Unset = Unset
  MaxQueued = 3
  MaxArrived = 2
CHECK_DEADLOCK FALSE
INVARIANTS
  WireIsTheQueuedBytes
