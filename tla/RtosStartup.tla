----------------------------- MODULE RtosStartup -----------------------------
(***************************************************************************)
(* Start-up of the FreeRTOS build (src/src/main.c), up to the point where  *)
(* EcmRtos takes over: Reset_Handler() (startup_stm32f0xx.c) zeroes the    *)
(* globals in .bss, which RAM leaves arbitrary at power-on and after a     *)
(* reset; main() derives the device's MAC address, starts the              *)
(* USB device and the IP task; the IP task's xNetworkInterfaceInitialise() *)
(* creates the EMAC handler task, which creates rcvSemaphore; meanwhile    *)
(* the host enumerates the device, parsing the descriptor bytes for the   *)
(* ECM function's endpoints, takes its own MAC address from the            *)
(* serial-number string (the iMACAddress of the ECM descriptor), sets the  *)
(* configuration and sends frames.                                         *)
(*                                                                         *)
(* Time is counted in ms from USBD_Start() (the pull-up that attaches the  *)
(* device).  The host needs at least EnumMs of it before it can read       *)
(* descriptors (USB: 100 ms debounce after attach, then a 10 ms reset);    *)
(* the device's own start-up steps are CPU-bound and finish within StartMs *)
(* of attach.  The driver's receive path after start-up is EcmRtos's.      *)
(***************************************************************************)
EXTENDS Integers, Sequences, FiniteSets, SequencesExt

CONSTANTS
  IdBytes,        \* values the bytes of DEVICE_ID2 range over
  DeviceId3,      \* the 4 bytes of DEVICE_ID3
  EnumMs,         \* least ms from attach to the host's first descriptor read
  StartMs,        \* most ms from attach to the end of the device's start-up
  HostFrameLens,  \* lengths of the frames the host sends (one chunk each)
  MaxHostFrames,  \* bound: frames the host sends
  NoSem,          \* a semaphore handle that is still NULL
  JunkSem,        \* a handle holding the power-on contents of RAM
  BssOrder,       \* the zero-initialised globals the model reads, in address order
  USB_IRQn,       \* the USB interrupt's number (31 on the STM32F0x2)
  NUM_OF_ECM,     \* ECM instances (usbd_ecm.h: 1)
  USBD_MAX_NUM_INTERFACES,    \* usbd_conf.h, not in the repository
  USBD_MAX_NUM_CONFIGURATION  \* usbd_conf.h, not in the repository

ASSUME /\ IdBytes \subseteq 0..255
       /\ DeviceId3 \in [1..4 -> 0..255]
       /\ StartMs \in Nat /\ EnumMs \in Nat \ {0}
       /\ HostFrameLens \subseteq 0..63
       /\ USB_IRQn \in Nat
       /\ NUM_OF_ECM \in {1, 2}
       /\ USBD_MAX_NUM_INTERFACES \in 0..255 /\ USBD_MAX_NUM_CONFIGURATION \in 0..255

VARIABLES
  deviceId2,      \* the 4 bytes of DEVICE_ID2 at 0x1FFFF7B0, in address order
  ucMACAddress,   \* main.c's static ucMACAddress[6]
  ipMac,          \* the MAC FreeRTOS_IPInit() gave the IP stack, or <<>>
  mainPc,         \* "reset" (Reset_Handler), "id3", "usb", "mac", "ip", "sched"
  ipPc,           \* IP task: "none", "init" (first call), "down", "retry", "up"
  emacPc,         \* EMAC task: "none", "created", "take", "hand", "renew";
                  \* "stale": no task, but xEMACTaskHandle is not NULL
  rcvSemaphore,   \* NoSem, JunkSem, or 1 when given, 0 when taken
  xmitSemaphore,  \* NoSem, or 1 when given, 0 when taken
  network_active,
  registered_pdev,
  OutboundTransferNeedsRenewal,
  outArmed,       \* the OUT endpoint is armed
  rcv_length,
  hostPc,         \* "detached", "attached", "described", "configured"
  strDesc,        \* the serial-number string descriptor the host read
  hostMac,        \* the MAC the host derived from it, or <<>>
  hostFns,        \* the ECM functions the host found in the descriptors
  sinceAttach,    \* ms since USBD_Start(), saturating at EnumMs
  sent,           \* number of frames the host has sent
  gaveNull,       \* ghost: xSemaphoreGive() was called on a handle not yet created
  stackLens       \* ghost: lengths of the frames handed to the IP task

vars == <<deviceId2, ucMACAddress, ipMac, mainPc, ipPc, emacPc, rcvSemaphore,
          xmitSemaphore, network_active, registered_pdev,
          OutboundTransferNeedsRenewal, outArmed, rcv_length, hostPc, strDesc,
          hostMac, sinceAttach, sent, gaveNull, stackLens, hostFns>>

-----------------------------------------------------------------------------
(* A uint32_t is held as its 8 hex digits, most significant first (TLC's *)
(* integers stop below 2^31): >> 28 is the first, << 4 a shift by one.   *)

(* IntToUnicode(value, pbuf, len): len digits, each value >> 28 printed as *)
(* '0' + n or 'A' + n - 10 followed by a 0 byte (a UTF-16 code unit); the  *)
(* value is shifted left 4 bits in uint32_t after each digit.              *)
(* Seeded fault: digits from 10 up printed from '0'.                       *)
RECURSIVE IntToUnicodeOffByOne(_, _)
IntToUnicodeOffByOne(value, len) ==
  IF len = 0 THEN <<>>
  ELSE LET n == Head(value)
       IN  <<IF n <= 10 THEN n + 48 ELSE n + 65 - 10, 0>>
           \o IntToUnicodeOffByOne(Tail(value) \o <<0>>, len - 1)

RECURSIVE IntToUnicode(_, _)
IntToUnicode(value, len) ==
  IF len = 0 THEN <<>>
  ELSE LET n == Head(value)
       IN  <<IF n < 10 THEN n + 48 ELSE n + 65 - 10, 0>>
           \o IntToUnicode(Tail(value) \o <<0>>, len - 1)

\* *(uint32_t *)0x1FFFF7B0 on the little-endian Cortex-M0.
DeviceSerial(id) ==
  [i \in 1..8 |-> LET b == id[4 - (i - 1) \div 2]
                  IN  IF (i - 1) % 2 = 0 THEN b \div 16 ELSE b % 16]

(* USBD_VCP_SerialStrDescriptor(): bLength 26, STRING type, 4 digits of    *)
(* 0x02020000 and 8 digits of DEVICE_ID2.                                  *)
SerialStrDescriptor(id) ==
  <<2 + 8 * 2 + 4 * 2, 3>> \o IntToUnicode(<<0, 2, 0, 2, 0, 0, 0, 0>>, 4)
                           \o IntToUnicode(DeviceSerial(id), 8)

\* String descriptor indices of the ST device core (usbd_def.h).
USBD_IDX_MFC_STR     == 1
USBD_IDX_PRODUCT_STR == 2
USBD_IDX_SERIAL_STR  == 3

\* USBD_GetString() of the ST device core: an ASCII string as a UNICODE
\* string descriptor (bLength, STRING type, each character then a zero byte).
USBD_GetString(ascii) ==
  <<2 * Len(ascii) + 2, 3>>
    \o [i \in 1..2 * Len(ascii) |-> IF i % 2 = 1 THEN ascii[(i + 1) \div 2] ELSE 0]

\* USBD_VCP_ProductStrDescriptor(): USBD_PRODUCT_FS_STRING, "ECM".
USBD_VCP_ProductStrDescriptor == USBD_GetString(<<69, 67, 77>>)

\* USBD_VCP_ManufacturerStrDescriptor(): USBD_MANUFACTURER_STRING, "Acme".
USBD_VCP_ManufacturerStrDescriptor == USBD_GetString(<<65, 99, 109, 101>>)

(* VCP_Desc: the string descriptor the core returns to GET_DESCRIPTOR for  *)
(* string index index, on a part whose DEVICE_ID2 bytes are id.            *)
StringDescriptor(index, id) ==
  CASE index = USBD_IDX_MFC_STR     -> USBD_VCP_ManufacturerStrDescriptor
    [] index = USBD_IDX_PRODUCT_STR -> USBD_VCP_ProductStrDescriptor
    [] index = USBD_IDX_SERIAL_STR  -> SerialStrDescriptor(id)
    [] OTHER                        -> <<>>

\* Seeded fault: the ECM instance names the product string as its MAC.
iMACstringProduct == USBD_IDX_PRODUCT_STR

\* The iMACstring argument of the configuration's first ECM_DESCRIPTOR().
iMACstring == USBD_IDX_SERIAL_STR

-----------------------------------------------------------------------------
(* The descriptors as the bytes the host reads.  usbhelper.h builds every  *)
(* descriptor from structs of uint8_t-derived members only, so a struct's  *)
(* bytes are its members' in order with no padding; a member is a byte, a  *)
(* struct usb_uint16 (lo, hi) or a uint8_t array, so a member is a run of  *)
(* bytes and a struct the concatenation of its members.                    *)
USB_DESC_TYPE_DEVICE        == 1
USB_DESC_TYPE_CONFIGURATION == 2
USB_DESC_TYPE_INTERFACE     == 4
USB_DESC_TYPE_ENDPOINT      == 5
USB_FS_MAX_PACKET_SIZE      == 64
USB_MAX_EP0_SIZE            == 64

\* usbd_ecm.h
ECM_MAX_USB_DATA_PACKET_SIZE   == USB_FS_MAX_PACKET_SIZE
ECM_MAX_USB_NOTIFY_PACKET_SIZE == USB_FS_MAX_PACKET_SIZE
ECM_MAX_SEGMENT_SIZE           == 1514

USB_UINT16(x) == <<x % 256, (x \div 256) % 256>>

(* A descriptor struct: its first member, bLength or bFunctionLength, is   *)
(* sizeof() of the struct; then the bytes of the other members.            *)
Descriptor(rest) == <<1 + Len(rest)>> \o rest

(* ECM_DESCRIPTOR(): struct ecm_interface, its eight descriptors in        *)
(* member order.                                                           *)
ECM_DESCRIPTOR(NOTIFY_ITF, DATA_ITF, NOTIFY_EP, DATAOUT_EP, DATAIN_EP, IMAC_STRING) ==
  FlattenSeq(<<
    Descriptor(<<USB_DESC_TYPE_INTERFACE, NOTIFY_ITF, 0, 1, 2, 6, 0, 0>>),
    Descriptor(<<36, 0>> \o USB_UINT16(288)),
    Descriptor(<<36, 6, NOTIFY_ITF, DATA_ITF>>),
    Descriptor(<<36, 15, IMAC_STRING>> \o <<0, 0, 0, 0>>
                 \o USB_UINT16(ECM_MAX_SEGMENT_SIZE) \o USB_UINT16(0) \o <<0>>),
    Descriptor(<<USB_DESC_TYPE_ENDPOINT, NOTIFY_EP, 3>>
                 \o USB_UINT16(ECM_MAX_USB_NOTIFY_PACKET_SIZE) \o <<255>>),
    Descriptor(<<USB_DESC_TYPE_INTERFACE, DATA_ITF, 0, 2, 10, 0, 0, 0>>),
    Descriptor(<<USB_DESC_TYPE_ENDPOINT, DATAOUT_EP, 2>>
                 \o USB_UINT16(ECM_MAX_USB_DATA_PACKET_SIZE) \o <<0>>),
    Descriptor(<<USB_DESC_TYPE_ENDPOINT, DATAIN_EP, 2>>
                 \o USB_UINT16(ECM_MAX_USB_DATA_PACKET_SIZE) \o <<0>>)>>)

(* hUSBDDeviceDesc: USB 2.0, class per interface, VID 0x1209, PID 0x0001,  *)
(* the three string indices and one configuration.                         *)
hUSBDDeviceDesc ==
  Descriptor(<<USB_DESC_TYPE_DEVICE>> \o USB_UINT16(512) \o <<0, 0, 0, USB_MAX_EP0_SIZE>>
             \o USB_UINT16(4617) \o USB_UINT16(1) \o USB_UINT16(512)
             \o <<USBD_IDX_MFC_STR, USBD_IDX_PRODUCT_STR, USBD_IDX_SERIAL_STR,
                  USBD_MAX_NUM_CONFIGURATION>>)

(* The arguments of the ECM_DESCRIPTOR() of instance 0 and, when           *)
(* NUM_OF_ECM > 1, instance 1: notify and data interface, notify, data OUT *)
(* and data IN endpoint, iMACAddress string.                               *)
EcmDescriptorArgs ==
  SubSeq(<<<<0, 1, 129, 1, 130, iMACstring>>,
           <<2, 3, 131, 3, 132, USBD_IDX_SERIAL_STR>>>>, 1, NUM_OF_ECM)

EcmInterfaces ==
  FlattenSeq([i \in 1..NUM_OF_ECM |->
                LET a == EcmDescriptorArgs[i]
                IN  ECM_DESCRIPTOR(a[1], a[2], a[3], a[4], a[5], a[6])])

ConfigurationDescriptor(wTotalLength) ==
  Descriptor(<<USB_DESC_TYPE_CONFIGURATION>> \o USB_UINT16(wTotalLength)
             \o <<USBD_MAX_NUM_INTERFACES, 1, 0, 128, 50>>)

(* USBD_ECM_CfgFSDesc, a struct configuration_1: the configuration         *)
(* descriptor, whose wTotalLength is sizeof() of the whole struct, then    *)
(* ecm[NUM_OF_ECM]; GetFSCfgDesc() returns it with that length.            *)
USBD_ECM_CfgFSDesc ==
  LET total == Len(ConfigurationDescriptor(0)) + Len(EcmInterfaces)
  IN  ConfigurationDescriptor(total) \o EcmInterfaces

(* Seeded fault: instance 0's data endpoints given the other way round.   *)
parametersSwapped ==
  SubSeq(<<[data_in_ep |-> 1, data_out_ep |-> 130, notify_in_ep |-> 129, notify_itf |-> 0],
           [data_in_ep |-> 132, data_out_ep |-> 3, notify_in_ep |-> 131, notify_itf |-> 1]>>,
         1, NUM_OF_ECM)

(* usbd_ecm.c's parameters[NUM_OF_ECM]: the endpoints the driver opens,    *)
(* arms and dispatches on for each instance.                               *)
parameters ==
  SubSeq(<<[data_in_ep |-> 130, data_out_ep |-> 1, notify_in_ep |-> 129, notify_itf |-> 0],
           [data_in_ep |-> 132, data_out_ep |-> 3, notify_in_ep |-> 131, notify_itf |-> 1]>>,
         1, NUM_OF_ECM)

(* USBD_ECM_Init() opens, for every instance, its data IN, data OUT and    *)
(* notify endpoints.                                                       *)
OpenedEndpoints ==
  UNION {{parameters[i].data_in_ep, parameters[i].data_out_ep,
          parameters[i].notify_in_ep} : i \in 1..NUM_OF_ECM}

(* USBD_ECM_DataOut(): an OUT packet on endpoint ep reaches the instance   *)
(* whose data_out_ep it is (USBD_ECM_Init() opened it as bulk OUT); on any *)
(* other endpoint the loop finds none and the packet is lost.              *)
DataOutDispatched(ep) == \E i \in 1..NUM_OF_ECM : parameters[i].data_out_ep = ep

-----------------------------------------------------------------------------
(* The host's side of enumeration (a USB host stack's parser, not code of  *)
(* this repository): it splits the configuration's bytes into descriptors  *)
(* by their bLength, a bLength below 2 or past the end making it           *)
(* malformed (an empty entry).                                             *)
RECURSIVE SplitDescriptors(_)
SplitDescriptors(b) ==
  IF b = <<>> THEN <<>>
  ELSE IF b[1] < 2 \/ b[1] > Len(b) THEN <<<<>>>>
  ELSE <<SubSeq(b, 1, b[1])>> \o SplitDescriptors(SubSeq(b, b[1] + 1, Len(b)))

Word(s, k) == s[k] + 256 * s[k + 1]

(* The CDC ECM functions the host finds in a device, in interface order:   *)
(* for each communication interface of subclass ECM, its notification     *)
(* endpoint, the bulk endpoints of the data interface its union descriptor *)
(* names, and its Ethernet descriptor's iMACAddress and wMaxSegmentSize.   *)
(* <<>> when the host rejects the descriptors: a device descriptor or      *)
(* configuration that is not well-formed, a wTotalLength that is not the   *)
(* number of bytes sent, a bNumInterfaces or bNumEndpoints that does not   *)
(* count what follows, or an ECM function that is incomplete.              *)
HostEcmFunctions(dev, cfg) ==
  LET d == SplitDescriptors(cfg)
      Type(k) == d[k][2]
      MinLen == [t \in {USB_DESC_TYPE_INTERFACE, USB_DESC_TYPE_ENDPOINT, 36} |->
                   IF t = USB_DESC_TYPE_INTERFACE THEN 9
                   ELSE IF t = USB_DESC_TYPE_ENDPOINT THEN 7 ELSE 3]
      Itfs == {k \in DOMAIN d : Type(k) = USB_DESC_TYPE_INTERFACE}
      Within(k) == (k + 1)..(Min({j \in Itfs : j > k} \cup {Len(d) + 1}) - 1)
      Eps(k) == {j \in Within(k) : Type(j) = USB_DESC_TYPE_ENDPOINT}
      Cs(k, sub) == {j \in Within(k) : Type(j) = 36 /\ d[j][3] = sub}
      Bulk(k, dirIn) == {j \in Eps(k) : d[j][4] = 2 /\ (d[j][3] >= 128) = dirIn}
      Comm == {k \in Itfs : d[k][6] = 2 /\ d[k][7] = 6}
      Union(k) == CHOOSE j \in Cs(k, 6) : TRUE
      Enet(k) == CHOOSE j \in Cs(k, 15) : TRUE
      Data(k) == {j \in Itfs : d[j][3] = d[Union(k)][5] /\ d[j][6] = 10}
      DataItf(k) == CHOOSE j \in Data(k) : TRUE
      Only(S) == CHOOSE j \in S : TRUE
      EcmOk(k) ==
        /\ Cardinality(Cs(k, 6)) = 1 /\ Len(d[Union(k)]) >= 5
        /\ Cardinality(Cs(k, 15)) = 1 /\ Len(d[Enet(k)]) >= 13
        /\ d[Union(k)][4] = d[k][3]
        /\ Cardinality({j \in Eps(k) : d[j][4] = 3 /\ d[j][3] >= 128}) = 1
        /\ Cardinality(Data(k)) = 1
        /\ Cardinality(Bulk(DataItf(k), TRUE)) = 1
        /\ Cardinality(Bulk(DataItf(k), FALSE)) = 1
      WellFormed ==
        /\ Len(dev) = 18 /\ dev[1] = 18 /\ dev[2] = USB_DESC_TYPE_DEVICE
        /\ dev[8] \in {8, 16, 32, 64} /\ dev[18] >= 1
        /\ Len(cfg) >= 9 /\ cfg[1] = 9 /\ cfg[2] = USB_DESC_TYPE_CONFIGURATION
        /\ Word(cfg, 3) = Len(cfg)
        /\ <<>> \notin Range(d)
        /\ \A k \in DOMAIN d : Type(k) \in DOMAIN MinLen => Len(d[k]) >= MinLen[Type(k)]
        /\ Cardinality({d[k][3] : k \in Itfs}) = cfg[5]
        /\ \A k \in Itfs : d[k][5] = Cardinality(Eps(k))
        /\ Comm # {} /\ \A k \in Comm : EcmOk(k)
      Function(k) ==
        LET b == DataItf(k)
        IN  [notify |-> d[Only(Eps(k))][3],
             dataIn |-> d[Only(Bulk(b, TRUE))][3],
             dataOut |-> d[Only(Bulk(b, FALSE))][3],
             wMaxPacketSize |-> Word(d[Only(Bulk(b, FALSE))], 5),
             iMACAddress |-> d[Enet(k)][4],
             wMaxSegmentSize |-> Word(d[Enet(k)], 9)]
  IN  IF WellFormed
      THEN LET order == SetToSortSeq(Comm, <)
           IN  [i \in 1..Len(order) |-> Function(order[i])]
      ELSE <<>>

\* What the host makes of this device's descriptors.
HostView == HostEcmFunctions(hUSBDDeviceDesc, USBD_ECM_CfgFSDesc)

\* Reference: the upper-case hex digits, and a string's 12 digits.
HexDigits == <<48, 49, 50, 51, 52, 53, 54, 55, 56, 57, 65, 66, 67, 68, 69, 70>>
StrChar(s, k) == s[2 * k + 1]
IsMacString(s) ==
  /\ Len(s) = 26 /\ s[1] = 26 /\ s[2] = 3
  /\ \A k \in 1..12 : StrChar(s, k) \in Range(HexDigits) /\ s[2 * k + 2] = 0
HexVal(c) == CHOOSE n \in 0..15 : HexDigits[n + 1] = c
\* How the host reads a MAC address out of the iMACAddress string.
ParseMac(s) == [i \in 1..6 |-> 16 * HexVal(StrChar(s, 2 * i - 1))
                                  + HexVal(StrChar(s, 2 * i))]

-----------------------------------------------------------------------------
(* vectors[] of startup_stm32f0xx.c: the initial stack pointer, the 15     *)
(* Cortex-M0 exception vectors, then one per peripheral interrupt, in      *)
(* IRQ-number order.  Reserved entries are 0.                              *)
CoreVectors ==
  <<"_stack_top", "Reset_Handler", "NMI_Handler", "HardFault_Handler",
    0, 0, 0, 0, 0, 0, 0, "SVC_Handler", 0, 0, "PendSV_Handler", "SysTick_Handler">>

PeripheralVectors ==
  <<"WWDG_IRQHandler", "PVD_VDDIO2_IRQHandler", "RTC_IRQHandler",
    "FLASH_IRQHandler", "RCC_CRS_IRQHandler", "EXTI0_1_IRQHandler",
    "EXTI2_3_IRQHandler", "EXTI4_15_IRQHandler", "TSC_IRQHandler",
    "DMA1_Channel1_IRQHandler", "DMA1_Channel2_3_IRQHandler",
    "DMA1_Channel4_5_6_7_IRQHandler", "ADC1_COMP_IRQHandler",
    "TIM1_BRK_UP_TRG_COM_IRQHandler", "TIM1_CC_IRQHandler", "TIM2_IRQHandler",
    "TIM3_IRQHandler", "TIM6_DAC_IRQHandler", "TIM7_IRQHandler",
    "TIM14_IRQHandler", "TIM15_IRQHandler", "TIM16_IRQHandler",
    "TIM17_IRQHandler", "I2C1_IRQHandler", "I2C2_IRQHandler", "SPI1_IRQHandler",
    "SPI2_IRQHandler", "USART1_IRQHandler", "USART2_IRQHandler",
    "USART3_4_IRQHandler", "CEC_CAN_IRQHandler", "USB_IRQHandler">>

(* Seeded fault: the table as ported without TIM7's entry (a timer the    *)
(* smaller parts of the family lack).                                      *)
VectorsWithoutTim7 == CoreVectors \o RemoveAt(PeripheralVectors, 19)

vectors == CoreVectors \o PeripheralVectors

(* The CPU takes interrupt n through the word at vectors + 4 * (16 + n);   *)
(* past the end of the table it reads whatever the linker placed next.     *)
VectorOf(n) == IF 16 + n < Len(vectors) THEN vectors[16 + n + 1] ELSE "beyond"

(* The USB interrupt reaches NetworkInterface.c's USB_IRQHandler() and so  *)
(* the HAL, which runs the device core and the ECM class callbacks.  Any   *)
(* other entry runs another handler (the DUMMY ones alias                  *)
(* irq_handler_dummy(), which spins forever).                              *)
UsbIrqServiced == VectorOf(USB_IRQn) = "USB_IRQHandler"

(* Seeded fault in Reset_Handler(): the bss loop stops a word early.       *)
BssZeroedShort == {BssOrder[k] : k \in 1..(Len(BssOrder) - 1)}

(* Reset_Handler(): `dst = &_bss; while (dst < &_ebss) *dst++ = 0;` zeroes *)
(* every word of .bss, the zero-initialised globals.                       *)
BssZeroed == {BssOrder[k] : k \in 1..Len(BssOrder)}

ZeroIfBss(g, v, zero) == IF g \in BssZeroed THEN zero ELSE v

(* Reset_Handler(): SystemInit(), copy .data from flash (none of the       *)
(* globals modelled here has an initialiser), zero .bss, call main().      *)
(* Until then RAM holds what it held at power-on or before a reset.        *)
Reset_Handler ==
  /\ mainPc = "reset"
  /\ registered_pdev' = ZeroIfBss("registered_pdev", registered_pdev, FALSE)
  /\ network_active' = ZeroIfBss("network_active", network_active, FALSE)
  /\ emacPc' = ZeroIfBss("xEMACTaskHandle", emacPc, "none")
  /\ rcvSemaphore' = ZeroIfBss("rcvSemaphore", rcvSemaphore, NoSem)
  /\ mainPc' = "id3"
  /\ UNCHANGED <<deviceId2, ucMACAddress, ipMac, ipPc, xmitSemaphore,
                 OutboundTransferNeedsRenewal, outArmed, rcv_length, hostPc,
                 strDesc, hostMac, sinceAttach, sent, gaveNull, stackLens, hostFns>>

(* main(): memcpy(ucMACAddress + 2, DEVICE_ID3, 4).                        *)
MainCopyId3 ==
  /\ mainPc = "id3"
  /\ ucMACAddress' = [i \in 1..6 |-> IF i >= 3 THEN DeviceId3[i - 2]
                                              ELSE ucMACAddress[i]]
  /\ mainPc' = "usb"
  /\ UNCHANGED <<deviceId2, ipMac, ipPc, emacPc, rcvSemaphore, xmitSemaphore,
                 network_active, registered_pdev, OutboundTransferNeedsRenewal,
                 outArmed, rcv_length, hostPc, strDesc, hostMac, sinceAttach,
                 sent, gaveNull, stackLens, hostFns>>

\* USBD_ECM_RegisterInterface(): vSemaphoreCreateBinary() creates the
\* transmit semaphore of the one ECM instance already given.
USBD_ECM_RegisterInterface == xmitSemaphore' = 1

(* main(): USBD_Init(), USBD_RegisterClass(), USBD_ECM_RegisterInterface() *)
(* and USBD_Start(), which attaches the device to the bus.                 *)
USBD_Start ==
  /\ mainPc = "usb"
  /\ USBD_ECM_RegisterInterface
  /\ hostPc' = "attached"
  /\ mainPc' = "mac"
  /\ UNCHANGED <<deviceId2, ucMACAddress, ipMac, ipPc, emacPc, rcvSemaphore,
                 network_active, registered_pdev, OutboundTransferNeedsRenewal,
                 outArmed, rcv_length, strDesc, hostMac, sinceAttach, sent,
                 gaveNull, stackLens, hostFns>>

(* Seeded fault: the bytes of DEVICE_ID2 copied in address order.          *)
build_mac_addressInOrder ==
  /\ mainPc = "mac"
  /\ ucMACAddress' = <<2, 1>> \o deviceId2
  /\ mainPc' = "ip"
  /\ UNCHANGED <<deviceId2, ipMac, ipPc, emacPc, rcvSemaphore, xmitSemaphore,
                 network_active, registered_pdev, OutboundTransferNeedsRenewal,
                 outArmed, rcv_length, hostPc, strDesc, hostMac, sinceAttach,
                 sent, gaveNull, stackLens, hostFns>>

(* build_mac_address(): ucMACAddress[5..2] = DEVICE_ID2 bytes 0..3,        *)
(* ucMACAddress[1] = 0x01, ucMACAddress[0] = 0x02.                         *)
build_mac_address ==
  /\ mainPc = "mac"
  /\ ucMACAddress' = <<2, 1, deviceId2[4], deviceId2[3], deviceId2[2],
                       deviceId2[1]>>
  /\ mainPc' = "ip"
  /\ UNCHANGED <<deviceId2, ipMac, ipPc, emacPc, rcvSemaphore, xmitSemaphore,
                 network_active, registered_pdev, OutboundTransferNeedsRenewal,
                 outArmed, rcv_length, hostPc, strDesc, hostMac, sinceAttach,
                 sent, gaveNull, stackLens, hostFns>>

(* FreeRTOS_IPInit(..., ucMACAddress) creates the IP task with a copy of   *)
(* the MAC; vTaskStartScheduler() starts it.                               *)
FreeRTOS_IPInit ==
  /\ mainPc = "ip"
  /\ ipMac' = ucMACAddress
  /\ ipPc' = "init"
  /\ mainPc' = "sched"
  /\ UNCHANGED <<deviceId2, ucMACAddress, emacPc, rcvSemaphore, xmitSemaphore,
                 network_active, registered_pdev, OutboundTransferNeedsRenewal,
                 outArmed, rcv_length, hostPc, strDesc, hostMac, sinceAttach,
                 sent, gaveNull, stackLens, hostFns>>

-----------------------------------------------------------------------------
(* Seeded fault: the EMAC task is created only once the network is active. *)
xNetworkInterfaceInitialiseLate ==
  /\ ipPc \in {"init", "retry"}
  /\ emacPc' = IF emacPc = "none" /\ network_active THEN "created" ELSE emacPc
  /\ ipPc' = IF network_active THEN "up" ELSE "down"
  /\ UNCHANGED <<deviceId2, ucMACAddress, ipMac, mainPc, rcvSemaphore,
                 xmitSemaphore, network_active, registered_pdev,
                 OutboundTransferNeedsRenewal, outArmed, rcv_length, hostPc,
                 strDesc, hostMac, sinceAttach, sent, gaveNull, stackLens, hostFns>>

(* The IP task's xNetworkInterfaceInitialise(): outcome = network_active;  *)
(* the first call creates the EMAC task (at the highest priority, so it    *)
(* runs next).  FreeRTOS+TCP calls it again later while it returns 0.      *)
xNetworkInterfaceInitialise ==
  /\ ipPc \in {"init", "retry"}
  /\ emacPc' = IF emacPc = "none" THEN "created" ELSE emacPc
  /\ ipPc' = IF network_active THEN "up" ELSE "down"
  /\ UNCHANGED <<deviceId2, ucMACAddress, ipMac, mainPc, rcvSemaphore,
                 xmitSemaphore, network_active, registered_pdev,
                 OutboundTransferNeedsRenewal, outArmed, rcv_length, hostPc,
                 strDesc, hostMac, sinceAttach, sent, gaveNull, stackLens, hostFns>>

\* FreeRTOS+TCP retries a failed initialisation after a delay.
IpRetry ==
  /\ ipPc = "down"
  /\ ipPc' = "retry"
  /\ UNCHANGED <<deviceId2, ucMACAddress, ipMac, mainPc, emacPc, rcvSemaphore,
                 xmitSemaphore, network_active, registered_pdev,
                 OutboundTransferNeedsRenewal, outArmed, rcv_length, hostPc,
                 strDesc, hostMac, sinceAttach, sent, gaveNull, stackLens, hostFns>>

(* prvEMACHandlerTask(): vSemaphoreCreateBinary(rcvSemaphore) creates it   *)
(* given.                                                                  *)
EmacStart ==
  /\ emacPc = "created"
  /\ rcvSemaphore' = 1
  /\ emacPc' = "take"
  /\ UNCHANGED <<deviceId2, ucMACAddress, ipMac, mainPc, ipPc, xmitSemaphore,
                 network_active, registered_pdev, OutboundTransferNeedsRenewal,
                 outArmed, rcv_length, hostPc, strDesc, hostMac, sinceAttach,
                 sent, gaveNull, stackLens, hostFns>>

(* xSemaphoreTake(rcvSemaphore, portMAX_DELAY).                            *)
EmacTake ==
  /\ emacPc = "take" /\ rcvSemaphore = 1
  /\ rcvSemaphore' = 0
  /\ emacPc' = "hand"
  /\ UNCHANGED <<deviceId2, ucMACAddress, ipMac, mainPc, ipPc, xmitSemaphore,
                 network_active, registered_pdev, OutboundTransferNeedsRenewal,
                 outArmed, rcv_length, hostPc, strDesc, hostMac, sinceAttach,
                 sent, gaveNull, stackLens, hostFns>>

(* A descriptor of rcv_length bytes is filled and sent to the IP task      *)
(* (its failure paths are EcmRtos's).                                      *)
EmacHand ==
  /\ emacPc = "hand"
  /\ stackLens' = Append(stackLens, rcv_length)
  /\ emacPc' = "renew"
  /\ UNCHANGED <<deviceId2, ucMACAddress, ipMac, mainPc, ipPc, rcvSemaphore,
                 xmitSemaphore, network_active, registered_pdev,
                 OutboundTransferNeedsRenewal, outArmed, rcv_length, hostPc,
                 strDesc, hostMac, sinceAttach, sent, gaveNull, hostFns>>

(* ECM_RenewReceivePacket(0): returns at once while unconfigured.          *)
ECM_RenewReceivePacket ==
  /\ emacPc = "renew"
  /\ OutboundTransferNeedsRenewal' =
       (OutboundTransferNeedsRenewal \/ registered_pdev)
  /\ emacPc' = "take"
  /\ UNCHANGED <<deviceId2, ucMACAddress, ipMac, mainPc, ipPc, rcvSemaphore,
                 xmitSemaphore, network_active, registered_pdev, outArmed,
                 rcv_length, hostPc, strDesc, hostMac, sinceAttach, sent,
                 gaveNull, stackLens, hostFns>>

-----------------------------------------------------------------------------
(* Seeded fault: rcvSemaphore as a counting semaphore.                     *)
GiveCounting(sem) == IF sem \in {NoSem, JunkSem} THEN sem ELSE sem + 1

(* xSemaphoreGive() on a handle that may still be NULL (or hold power-on  *)
(* junk) does nothing here; a give to a binary semaphore already given is  *)
(* lost.                                                                   *)
Give(sem) == IF sem \in {NoSem, JunkSem} THEN sem ELSE 1

(* Seeded fault: Init without its ECM_ReceivePacket(index, NULL, 1).       *)
USBD_ECM_InitSilent ==
  /\ hostPc = "described" /\ UsbIrqServiced
  /\ registered_pdev' = TRUE
  /\ OutboundTransferNeedsRenewal' = FALSE
  /\ outArmed' = TRUE
  /\ xmitSemaphore' = Give(xmitSemaphore)
  /\ hostPc' = "configured"
  /\ UNCHANGED <<deviceId2, ucMACAddress, ipMac, mainPc, ipPc, emacPc,
                 rcvSemaphore, rcv_length, strDesc, hostMac, sinceAttach, sent,
                 gaveNull, stackLens, network_active, hostFns>>

(* SET_CONFIGURATION: USBD_ECM_Init() sets registered_pdev, arms the OUT   *)
(* endpoint, gives xmitSemaphore and calls ECM_ReceivePacket(0, NULL, 1),  *)
(* which sets network_active.                                              *)
USBD_ECM_Init ==
  /\ hostPc = "described" /\ UsbIrqServiced
  /\ registered_pdev' = TRUE
  /\ OutboundTransferNeedsRenewal' = FALSE
  /\ outArmed' = TRUE
  /\ xmitSemaphore' = Give(xmitSemaphore)
  /\ network_active' = TRUE
  /\ hostPc' = "configured"
  /\ UNCHANGED <<deviceId2, ucMACAddress, ipMac, mainPc, ipPc, emacPc,
                 rcvSemaphore, rcv_length, strDesc, hostMac, sinceAttach, sent,
                 gaveNull, stackLens, hostFns>>

(* The host sends a frame of one short chunk: USBD_ECM_DataOut() calls     *)
(* ECM_ReceivePacket(0, OutboundBuffer, L), which notes the length and     *)
(* gives rcvSemaphore; the endpoint stays unarmed until the renewal.       *)
USBD_ECM_DataOut ==
  /\ hostPc = "configured" /\ UsbIrqServiced /\ outArmed /\ sent < MaxHostFrames
  /\ DataOutDispatched(hostFns[1].dataOut)
  /\ \E L \in HostFrameLens : rcv_length' = L
  /\ gaveNull' = (gaveNull \/ rcvSemaphore \in {NoSem, JunkSem})
  /\ rcvSemaphore' = Give(rcvSemaphore)
  /\ outArmed' = FALSE
  /\ sent' = sent + 1
  /\ UNCHANGED <<deviceId2, ucMACAddress, ipMac, mainPc, ipPc, emacPc,
                 xmitSemaphore, network_active, registered_pdev,
                 OutboundTransferNeedsRenewal, hostPc, strDesc, hostMac,
                 sinceAttach, stackLens, hostFns>>

(* USBD_ECM_SOF(): a pending renewal re-arms the OUT endpoint.             *)
USBD_ECM_SOF ==
  /\ UsbIrqServiced /\ registered_pdev /\ OutboundTransferNeedsRenewal
  /\ outArmed' = TRUE
  /\ OutboundTransferNeedsRenewal' = FALSE
  /\ UNCHANGED <<deviceId2, ucMACAddress, ipMac, mainPc, ipPc, emacPc,
                 rcvSemaphore, xmitSemaphore, network_active, registered_pdev,
                 rcv_length, hostPc, strDesc, hostMac, sinceAttach, sent,
                 gaveNull, stackLens, hostFns>>

(* The host reads the device and configuration descriptors, then the      *)
(* string the first ECM function names as iMACAddress, and takes its MAC   *)
(* from that (a string that is not 12 hex digits gives it none).  It       *)
(* rejects a device whose descriptors it cannot parse.                     *)
HostGetSerial ==
  /\ hostPc = "attached" /\ UsbIrqServiced /\ sinceAttach >= EnumMs
  /\ hostFns' = HostView
  /\ strDesc' = IF HostView = <<>> THEN <<>>
                ELSE StringDescriptor(HostView[1].iMACAddress, deviceId2)
  /\ hostMac' = IF strDesc' # <<>> /\ IsMacString(strDesc') THEN ParseMac(strDesc')
                ELSE <<>>
  /\ hostPc' = IF HostView = <<>> THEN "rejected" ELSE "described"
  /\ UNCHANGED <<deviceId2, ucMACAddress, ipMac, mainPc, ipPc, emacPc,
                 rcvSemaphore, xmitSemaphore, network_active, registered_pdev,
                 OutboundTransferNeedsRenewal, outArmed, rcv_length,
                 sinceAttach, sent, gaveNull, stackLens>>

(* A millisecond passes.  The device's pending start-up steps (main()      *)
(* up to the scheduler, the IP task's first initialisation, the EMAC      *)
(* task's first instructions) are done within StartMs.                     *)
StartupPending == mainPc # "sched" \/ ipPc = "init" \/ emacPc = "created"

Tick ==
  /\ hostPc # "detached" /\ sinceAttach < EnumMs
  /\ StartupPending => sinceAttach < StartMs
  /\ sinceAttach' = sinceAttach + 1
  /\ UNCHANGED <<deviceId2, ucMACAddress, ipMac, mainPc, ipPc, emacPc,
                 rcvSemaphore, xmitSemaphore, network_active, registered_pdev,
                 OutboundTransferNeedsRenewal, outArmed, rcv_length, hostPc,
                 strDesc, hostMac, sent, gaveNull, stackLens, hostFns>>

-----------------------------------------------------------------------------
Init ==
  /\ deviceId2 \in [1..4 -> IdBytes]
  /\ ucMACAddress = [i \in 1..6 |-> 0]
  /\ ipMac = <<>>
  /\ mainPc = "reset"
  /\ ipPc = "none"
  /\ emacPc \in {"none", "stale"}
  /\ rcvSemaphore \in {NoSem, JunkSem}
  /\ xmitSemaphore = NoSem
  /\ network_active \in BOOLEAN
  /\ registered_pdev \in BOOLEAN
  /\ OutboundTransferNeedsRenewal = FALSE
  /\ outArmed = FALSE
  /\ rcv_length = 0
  /\ hostPc = "detached"
  /\ strDesc = <<>>
  /\ hostMac = <<>>
  /\ sinceAttach = 0
  /\ sent = 0
  /\ gaveNull = FALSE
  /\ stackLens = <<>>
  /\ hostFns = <<>>

Next ==
  \/ Reset_Handler
  \/ MainCopyId3 \/ USBD_Start \/ build_mac_address \/ FreeRTOS_IPInit
  \/ xNetworkInterfaceInitialise \/ IpRetry
  \/ EmacStart \/ EmacTake \/ EmacHand \/ ECM_RenewReceivePacket
  \/ USBD_ECM_Init \/ USBD_ECM_DataOut \/ USBD_ECM_SOF
  \/ HostGetSerial \/ Tick

(* Every step of the device runs when it can (the tasks and the USB        *)
(* interrupt are never starved at start-up); time passes; the host goes on *)
(* with enumeration.  The host is not obliged to send frames.              *)
Fairness ==
  /\ WF_vars(Reset_Handler) /\ WF_vars(MainCopyId3) /\ WF_vars(USBD_Start)
  /\ WF_vars(build_mac_address) /\ WF_vars(FreeRTOS_IPInit)
  /\ WF_vars(xNetworkInterfaceInitialise) /\ WF_vars(IpRetry)
  /\ WF_vars(EmacStart) /\ WF_vars(EmacTake) /\ WF_vars(EmacHand)
  /\ WF_vars(ECM_RenewReceivePacket) /\ WF_vars(USBD_ECM_SOF)
  /\ WF_vars(USBD_ECM_Init) /\ WF_vars(HostGetSerial) /\ WF_vars(Tick)

Spec == Init /\ [][Next]_vars /\ Fairness

-----------------------------------------------------------------------------
Byte == 0..255
TypeOK ==
  /\ deviceId2 \in [1..4 -> IdBytes]
  /\ ucMACAddress \in [1..6 -> Byte]
  /\ ipMac \in {<<>>} \cup [1..6 -> Byte]
  /\ ipPc \in {"none", "init", "down", "retry", "up"}
  /\ emacPc \in {"none", "stale", "created", "take", "hand", "renew"}
  /\ rcvSemaphore \in {NoSem, JunkSem, 0, 1} /\ xmitSemaphore \in {NoSem, 0, 1}
  /\ hostPc \in {"detached", "attached", "described", "configured", "rejected"}
  /\ strDesc \in Seq(Byte)
  /\ hostMac \in {<<>>} \cup [1..6 -> Byte]
  /\ sinceAttach \in 0..EnumMs /\ sent \in 0..MaxHostFrames
  /\ stackLens \in Seq(Nat)
  /\ hostFns \in Seq([notify : Byte, dataIn : Byte, dataOut : Byte,
                      wMaxPacketSize : Nat, iMACAddress : Byte,
                      wMaxSegmentSize : Nat])

(* The serial-number string the host reads is a well-formed iMACAddress:   *)
(* 12 upper-case hex digits that spell 0x0202 and then the 32-bit value of *)
(* DEVICE_ID2 (its bytes from the highest address down), as a reference    *)
(* hex printer would print them.                                           *)
SerialIsMacString ==
  strDesc # <<>> =>
    /\ IsMacString(strDesc)
    /\ \A k \in 1..4 : StrChar(strDesc, k) = HexDigits[<<0, 2, 0, 2>>[k] + 1]
    /\ \A m \in 0..3 :
         /\ StrChar(strDesc, 5 + 2 * m) = HexDigits[deviceId2[4 - m] \div 16 + 1]
         /\ StrChar(strDesc, 6 + 2 * m) = HexDigits[(deviceId2[4 - m] % 16) + 1]

(* The ECM function the host takes from the descriptor bytes that          *)
(* ECM_DESCRIPTOR() and USBD_ECM_CfgFSDesc lay out is the one the driver   *)
(* serves: every instance's notify, data IN and data OUT endpoints are     *)
(* those parameters[] has USBD_ECM_Init() open and USBD_ECM_DataOut()      *)
(* dispatch on, the host's bulk packets are the size the driver arms and   *)
(* takes as the end of a frame when shorter, and the host's segments are   *)
(* no longer than the length past which the driver discards a frame.      *)
HostAgreesWithDriver ==
  hostFns # <<>> =>
    /\ Len(hostFns) = NUM_OF_ECM
    /\ \A i \in 1..NUM_OF_ECM :
         /\ hostFns[i].notify = parameters[i].notify_in_ep
         /\ hostFns[i].dataIn = parameters[i].data_in_ep
         /\ hostFns[i].dataOut = parameters[i].data_out_ep
         /\ hostFns[i].wMaxPacketSize = ECM_MAX_USB_DATA_PACKET_SIZE
         /\ hostFns[i].wMaxSegmentSize <= ECM_MAX_SEGMENT_SIZE

LocalUnicast(mac) == mac[1] % 4 = 2

(* Once both are known, the MAC the IP stack uses and the MAC the host     *)
(* took from the descriptor are distinct locally administered unicast      *)
(* addresses that carry the same 32 bits of the silicon serial number.     *)
MacsDistinct ==
  ipMac # <<>> /\ hostMac # <<>> =>
    /\ LocalUnicast(ipMac) /\ LocalUnicast(hostMac)
    /\ ipMac # hostMac
    /\ SubSeq(ipMac, 3, 6) = SubSeq(hostMac, 3, 6)

(* No frame of the host makes ECM_ReceivePacket() give rcvSemaphore before *)
(* the EMAC task has created it.                                           *)
NoGiveBeforeCreate == ~gaveNull

(* The IP stack's network comes up: xNetworkInterfaceInitialise()          *)
(* eventually reports the network active.                                  *)
NetworkComesUp == <>(ipPc = "up")

(* The IP task is told the network is up only once the host has set the   *)
(* configuration: network_active, which Reset_Handler() must have cleared  *)
(* whatever RAM held, is set by USBD_ECM_Init() alone.                     *)
NetworkUpOnlyConfigured == ipPc = "up" => hostPc = "configured"

(* The host eventually takes its MAC address from the device's descriptors: *)
(* the device answers enumeration, which it does from the USB interrupt    *)
(* that vectors[] must route to USB_IRQHandler().                          *)
HostGetsMac == <>(hostMac # <<>>)

=============================================================================
