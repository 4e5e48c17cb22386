\* xNetworkInterfaceOutput() releases a frame's buffer while the HAL still reads it.
CONSTANTS
  MaxPacket = 64
  MaxSegment = 1514
  HostFrameLens <- MCRxHostFrameLens
  DevFrameLens <- MCDevFrameLens
  MaxHostFrames = 0
  MaxDevFrames = 2
  MaxResets = 0
  DescriptorsCanRunOut = FALSE
  NULL = NULL

SPECIFICATION Spec

INVARIANT TxBufferHeld
