\* Both directions with a bus reset and descriptor pool exhaustion.
CONSTANTS
  MaxPacket = 64
  MaxSegment = 1514
  HostFrameLens <- MCResetHostFrameLens
  DevFrameLens <- MCDevFrameLens
  MaxHostFrames = 2
  MaxDevFrames = 2
  MaxResets = 1
  DescriptorsCanRunOut = TRUE
  NULL = NULL

SPECIFICATION Spec

PROPERTY RxProgress
