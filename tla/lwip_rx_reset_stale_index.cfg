\* A bus reset in the middle of a received frame.
CONSTANTS
  MaxPacket = 64
  MaxSegment = 1514
  StallLimit = 4
  HostFrameLens <- MCHostFrameLens
  DevFrameLens <- MCDevFrameLens
  MaxHostFrames = 2
  MaxDevFrames = 0
  MaxResets = 1
  HostLatency = 2
  PbufPoolCanRunOut = FALSE
  HostRequests = {}
  NotifyItf = 0
  NULL = NULL

SPECIFICATION Spec

INVARIANT StackGetsWholeFrames
