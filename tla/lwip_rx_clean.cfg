\* Reception without bus resets or pbuf pool exhaustion, frames up to ECM_MAX_SEGMENT_SIZE.
CONSTANTS
  MaxPacket = 64
  MaxSegment = 1514
  StallLimit = 4
  HostFrameLens <- MCRxHostFrameLens
  DevFrameLens <- MCDevFrameLens
  MaxHostFrames = 3
  MaxDevFrames = 1
  MaxResets = 0
  HostLatency = 2
  PbufPoolCanRunOut = FALSE
  HostRequests <- MCHostRequests
  NotifyItf = 0
  NULL = NULL

SPECIFICATION Spec


INVARIANT RxWithinBuffer
PROPERTY RxProgress
PROPERTY LinkRefined
