\* Power-on (RAM arbitrary) to the first frames: the MAC addresses of the two ends and the
\* creation of rcvSemaphore before the host can send.  The model ends once
\* the host has sent its frames, where EcmRtos continues.
CONSTANTS
  IdBytes <- MCIdBytes
  DeviceId3 <- MCDeviceId3
  EnumMs = 2
  StartMs = 1
  HostFrameLens = {10}
  MaxHostFrames = 2
  NoSem = NoSem
  JunkSem = JunkSem
  BssOrder <- MCBssOrder
  USB_IRQn = 31
  NUM_OF_ECM = 1
  USBD_MAX_NUM_INTERFACES = 2
  USBD_MAX_NUM_CONFIGURATION = 1
SPECIFICATION Spec
CHECK_DEADLOCK FALSE
INVARIANT TypeOK
INVARIANT SerialIsMacString
INVARIANT MacsDistinct
INVARIANT NoGiveBeforeCreate
INVARIANT NetworkUpOnlyConfigured
INVARIANT HostAgreesWithDriver
PROPERTY NetworkComesUp
PROPERTY HostGetsMac
