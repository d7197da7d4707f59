SPECIFICATION ForwardingSpec
CONSTANTS
  Base = 8
  HeadSize = 4
  MaxPayloadSize = 6
  FrameLimit = 63
  Payloads <- MCLegalPayloads
  MaxFrames = 2
  Size = 6
  FrameHead = 2
  Keepalive = 1
  Lengths = {1, 3}
  Address = {dest, other}
  Configured = dest
  Unset = Unset
  MaxQueued = 3
  MaxArrived = 2
CHECK_DEADLOCK FALSE
INVARIANTS
  NeverOverruns
