\* A bus reset while a received frame awaits the EMAC task: Init re-arms reception under it.
CONSTANTS
  MaxPacket = 64
  MaxSegment = 1514
  HostFrameLens <- MCResetHostFrameLens
  DevFrameLens <- MCDevFrameLens
  MaxHostFrames = 2
  MaxDevFrames = 0
  MaxResets = 1
  DescriptorsCanRunOut = FALSE
  NULL = NULL

SPECIFICATION Spec

INVARIANT StackGetsWholeFrames
