\* One frame each way: an OUT packet arrives while an IN packet waits for the host.
CONSTANTS
  MaxPacket = 64
  MaxSegment = 1514
  HostFrameLens <- MCDevFrameLens
  DevFrameLens <- MCDevFrameLens
  MaxHostFrames = 1
  MaxDevFrames = 1
  MaxResets = 0
  DescriptorsCanRunOut = FALSE
  NULL = NULL

SPECIFICATION Spec

INVARIANT HostGetsWholeFrames
