\* pbuf_alloc() fails after a long frame: reception is re-armed at the old frame's end.
CONSTANTS
  MaxPacket = 64
  MaxSegment = 1514
  StallLimit = 4
  HostFrameLens <- MCPbufHostFrameLens
  DevFrameLens <- MCDevFrameLens
  MaxHostFrames = 2
  MaxDevFrames = 0
  MaxResets = 0
  HostLatency = 2
  PbufPoolCanRunOut = TRUE
  HostRequests = {}
  NotifyItf = 0
  NULL = NULL

SPECIFICATION Spec

INVARIANT RxWithinBuffer
