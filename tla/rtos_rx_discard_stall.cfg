\* After a DISCARDed stream reception is never armed again.
CONSTANTS
  MaxPacket = 64
  MaxSegment = 1514
  HostFrameLens <- MCDiscardHostFrameLens
  DevFrameLens <- MCDevFrameLens
  MaxHostFrames = 2
  MaxDevFrames = 0
  MaxResets = 0
  DescriptorsCanRunOut = FALSE
  NULL = NULL

SPECIFICATION Spec

PROPERTY RxProgress
