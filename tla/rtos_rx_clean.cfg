\* Reception without bus resets: legal frames up to ECM_MAX_SEGMENT_SIZE, an oversize stream, descriptor pool exhaustion.
CONSTANTS
  MaxPacket = 64
  MaxSegment = 1514
  HostFrameLens <- MCRxHostFrameLens
  DevFrameLens <- MCOneChunkDevFrameLens
  MaxHostFrames = 3
  MaxDevFrames = 1
  MaxResets = 0
  DescriptorsCanRunOut = TRUE
  NULL = NULL

SPECIFICATION Spec

INVARIANT TypeOK
INVARIANT BufferSingleOwner
PROPERTY LinkRefined
INVARIANT RxWithinBuffer
