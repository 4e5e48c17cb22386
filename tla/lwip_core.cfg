\* Bare-metal driver with bus resets, pbuf pool exhaustion and lost DataIn
\* callbacks; the host polls IN within the watchdog's limit.
CONSTANTS
  MaxPacket = 64
  MaxSegment = 1514
  StallLimit = 4
  HostFrameLens <- MCHostFrameLens
  DevFrameLens <- MCDevFrameLens
  MaxHostFrames = 2
  MaxDevFrames = 2
  MaxResets = 1
  HostLatency = 2
  PbufPoolCanRunOut = TRUE
  HostRequests = {}
  NotifyItf = 0
  NULL = NULL

SPECIFICATION Spec

INVARIANT TypeOK
PROPERTY TxCompletes
PROPERTY TxLinkRefined
