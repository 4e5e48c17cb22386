------------------------------ MODULE EcmRtos ------------------------------
(***************************************************************************)
(* The FreeRTOS build of the CDC-ECM driver (src/src/usbd_ecm.c) with the  *)
(* FreeRTOS+TCP network interface that drives it                           *)
(* (src/src/NetworkInterface.c), for the one interface NUM_OF_ECM = 1.     *)
(*                                                                         *)
(* Three contexts share the driver's context[0]: the USB interrupt (Init,  *)
(* DeInit, DataOut, DataIn, SOF and the HAL's own IN-packet handling, each *)
(* running to completion), the EMAC handler task that takes received       *)
(* frames out of OutboundBuffer, and the IP task that transmits through    *)
(* xNetworkInterfaceOutput().  Task-side calls into the HAL are made       *)
(* inside taskENTER_CRITICAL(), so the interrupt never finds the HAL       *)
(* locked and USBD_LL_PrepareReceive() always succeeds.                    *)
(*                                                                         *)
(* The EMAC task starts with the token vSemaphoreCreateBinary() leaves in  *)
(* rcvSemaphore already consumed: the task is created before the scheduler *)
(* has run for a millisecond, long before enumeration can reach            *)
(* USBD_ECM_Init(), and its ECM_RenewReceivePacket() for that token        *)
(* returns at once because registered_pdev is still NULL.                  *)
(***************************************************************************)
EXTENDS Integers, Sequences, FiniteSets, EcmChunks

CONSTANTS
  MaxSegment,     \* ECM_MAX_SEGMENT_SIZE
  HostFrameLens,  \* lengths of the frames the host sends
  DevFrameLens,   \* lengths of the frames FreeRTOS+TCP transmits
  MaxHostFrames,  \* bound: frames the host sends
  MaxDevFrames,   \* bound: calls of xNetworkInterfaceOutput()
  MaxResets,      \* bound: bus resets (DeInit) of the configuration
  DescriptorsCanRunOut, \* whether pxGetNetworkBufferWithDescriptor() may fail
  NULL

ASSUME /\ MaxSegment \in Nat \ {0}
       /\ HostFrameLens \subseteq Nat
       /\ DevFrameLens \subseteq 1..MaxSegment
       /\ {MaxHostFrames, MaxDevFrames, MaxResets} \subseteq Nat
       /\ DescriptorsCanRunOut \in BOOLEAN

\* Bytes of OutboundBuffer: uint32_t[(ECM_MAX_SEGMENT_SIZE +
\* ECM_MAX_USB_DATA_PACKET_SIZE - 1) / sizeof(uint32_t)].
OutboundBufferSize == ((MaxSegment + MaxPacket - 1) \div 4) * 4

VARIABLES
  \* src/src/usbd_ecm.c: registered_pdev and context[0]
  registered_pdev,              \* TRUE iff registered_pdev # NULL
  OutboundTransferNeedsRenewal,
  OutboundTransferPosition,
  OutboundTransferInhibited,
  xmitSemaphore,                \* binary semaphore: 1 when given
  \* src/src/NetworkInterface.c
  rcvSemaphore,                 \* binary semaphore: 1 when given
  rcv_length,                   \* rcv_data is always OutboundBuffer here
  network_active,
  emacPc,                       \* prvEMACHandlerTask: "take", "alloc", "copy", "renew"
  descLen,                      \* xDataLength of the descriptor it obtained
  stackLog,                     \* ghost: the frames copied to the IP task, in order
  ipPc,                         \* IP task: "idle" or "wait" (blocked in ECM_TransmitPacket)
  released,                     \* ghost: ids of frames whose network buffer was released
  \* USB peripheral
  outEp,                        \* offset the OUT endpoint will write at, or NotArmed
  inXfer,                       \* NULL or the IN transfer [id, size, rem, pma]: size
                                \* bytes of datum pma are in packet memory, rem still
                                \* to be read from the frame
  rxData,                       \* ghost: extents written into OutboundBuffer
  overrun,                      \* ghost: a chunk was written past OutboundBuffer
  \* the host
  hostOut, sentLen, devLen, hostIn, hostGot, resets

drv  == <<registered_pdev, OutboundTransferNeedsRenewal, OutboundTransferPosition,
          OutboundTransferInhibited, xmitSemaphore>>
nif  == <<rcvSemaphore, rcv_length, network_active, emacPc, descLen, stackLog,
          ipPc, released>>
usb  == <<outEp, inXfer, rxData, overrun>>
host == <<hostOut, sentLen, devLen, hostIn, hostGot, resets>>
vars == <<drv, nif, usb, host>>

NotArmed == -1

-----------------------------------------------------------------------------
(* USBD_ECM_ReceivePacket(): arm the OUT endpoint at OutboundBuffer +      *)
(* OutboundTransferPosition; success clears the renewal flag.              *)
USBD_ECM_ReceivePacket(position) ==
  /\ outEp' = position
  /\ OutboundTransferNeedsRenewal' = FALSE

(* USBD_ECM_PMAConfig() for NUM_OF_ECM = 1: each `*pma_address =+ SIZE`   *)
(* assigns +SIZE rather than advancing the cursor, so the data IN, data    *)
(* OUT and notification endpoints are all given packet-memory offset SIZE, *)
(* whatever *pma_address was.                                              *)
PMAConfig == [data_in |-> MaxPacket, data_out |-> MaxPacket, notify_in |-> MaxPacket]

\* The data IN and data OUT endpoints' packet buffers share bytes.
PmaShared == /\ PMAConfig.data_in < PMAConfig.data_out + MaxPacket
             /\ PMAConfig.data_out < PMAConfig.data_in + MaxPacket

(* The peripheral stores an OUT packet of n bytes of datum d in packet     *)
(* memory: where that overlaps the IN buffer, the IN packet still waiting  *)
(* for the host now holds d.                                               *)
PmaReceive(n, d) ==
  inXfer' = IF inXfer # NULL /\ n > 0 /\ PmaShared
              THEN [inXfer EXCEPT !.pma = d] ELSE inXfer

(* Seeded fault: rcvSemaphore created as a counting semaphore.            *)
ECMReceivePacketCounting(length) ==
  /\ rcv_length' = length
  /\ rcvSemaphore' = rcvSemaphore + 1

(* ECM_ReceivePacket() with a frame: note its specifics and give           *)
(* rcvSemaphore (a give to a binary semaphore already given is lost).      *)
ECM_ReceivePacket(length) ==
  /\ rcv_length' = length
  /\ rcvSemaphore' = 1

(* SET_CONFIGURATION: open the endpoints, reset context[0], arm reception, *)
(* give xmitSemaphore and report the network active.                      *)
USBD_ECM_Init ==
  /\ ~registered_pdev
  /\ registered_pdev' = TRUE
  /\ OutboundTransferPosition' = 0
  /\ OutboundTransferInhibited' = FALSE
  /\ USBD_ECM_ReceivePacket(0)
  /\ xmitSemaphore' = 1
  /\ network_active' = TRUE
  /\ UNCHANGED <<rcvSemaphore, rcv_length, emacPc, descLen, stackLog, ipPc,
                 released, inXfer, rxData, overrun, host>>

(* Bus reset: close the endpoints and report the network inactive; the    *)
(* host abandons the transfers in progress.                                *)
USBD_ECM_DeInit ==
  /\ registered_pdev /\ resets < MaxResets
  /\ registered_pdev' = FALSE
  /\ network_active' = FALSE
  /\ outEp' = NotArmed
  /\ inXfer' = NULL
  /\ hostOut' = NULL
  /\ hostIn' = [len |-> 0, data |-> <<>>]
  /\ resets' = resets + 1
  /\ UNCHANGED <<OutboundTransferNeedsRenewal, OutboundTransferPosition,
                 OutboundTransferInhibited, xmitSemaphore, rcvSemaphore,
                 rcv_length, emacPc, descLen, stackLog, ipPc, released, rxData,
                 overrun, sentLen, devLen, hostGot>>

(* Seeded faults in DataOut: OutboundTransferPosition is not cleared after *)
(* a frame; the DISCARD check is missing.                                  *)
DataOutKeepingPosition ==
  /\ registered_pdev /\ outEp # NotArmed /\ hostOut # NULL
  /\ LET RxLength == Chunk(hostOut.rem)
         datum    == <<hostOut.id, (sentLen[hostOut.id] - hostOut.rem) \div MaxPacket>>
         position == IF OutboundTransferInhibited THEN OutboundTransferPosition
                     ELSE OutboundTransferPosition + RxLength
     IN  /\ rxData' = Write(rxData, outEp, RxLength, datum)
         /\ PmaReceive(RxLength, datum)
         /\ overrun' = (overrun \/ outEp + RxLength > OutboundBufferSize)
         /\ hostOut' = IF RxLength < MaxPacket THEN NULL
                       ELSE [hostOut EXCEPT !.rem = @ - RxLength]
         /\ CASE RxLength < MaxPacket ->
                   /\ IF OutboundTransferInhibited
                        THEN UNCHANGED <<rcv_length, rcvSemaphore>>
                        ELSE ECM_ReceivePacket(position)
                   /\ OutboundTransferPosition' = position
                   /\ OutboundTransferInhibited' = FALSE
                   /\ outEp' = NotArmed
                   /\ UNCHANGED OutboundTransferNeedsRenewal
              [] position > MaxSegment ->
                   /\ OutboundTransferPosition' = 0
                   /\ OutboundTransferInhibited' = TRUE
                   /\ USBD_ECM_ReceivePacket(0)
                   /\ UNCHANGED <<rcv_length, rcvSemaphore>>
              [] OTHER ->
                   /\ OutboundTransferPosition' = position
                   /\ USBD_ECM_ReceivePacket(position)
                   /\ UNCHANGED <<OutboundTransferInhibited, rcv_length, rcvSemaphore>>
  /\ UNCHANGED <<registered_pdev, xmitSemaphore, network_active, emacPc,
                 descLen, stackLog, ipPc, released, sentLen, devLen,
                 hostIn, hostGot, resets>>

DataOutWithoutDiscard ==
  /\ registered_pdev /\ outEp # NotArmed /\ hostOut # NULL
  /\ LET RxLength == Chunk(hostOut.rem)
         datum    == <<hostOut.id, (sentLen[hostOut.id] - hostOut.rem) \div MaxPacket>>
         position == IF OutboundTransferInhibited THEN OutboundTransferPosition
                     ELSE OutboundTransferPosition + RxLength
     IN  /\ rxData' = Write(rxData, outEp, RxLength, datum)
         /\ PmaReceive(RxLength, datum)
         /\ overrun' = (overrun \/ outEp + RxLength > OutboundBufferSize)
         /\ hostOut' = IF RxLength < MaxPacket THEN NULL
                       ELSE [hostOut EXCEPT !.rem = @ - RxLength]
         /\ CASE RxLength < MaxPacket ->
                   /\ IF OutboundTransferInhibited
                        THEN UNCHANGED <<rcv_length, rcvSemaphore>>
                        ELSE ECM_ReceivePacket(position)
                   /\ OutboundTransferPosition' = 0
                   /\ OutboundTransferInhibited' = FALSE
                   /\ outEp' = NotArmed
                   /\ UNCHANGED OutboundTransferNeedsRenewal
              [] OTHER ->
                   /\ OutboundTransferPosition' = position
                   /\ USBD_ECM_ReceivePacket(position)
                   /\ UNCHANGED <<OutboundTransferInhibited, rcv_length, rcvSemaphore>>
  /\ UNCHANGED <<registered_pdev, xmitSemaphore, network_active, emacPc,
                 descLen, stackLog, ipPc, released, sentLen, devLen,
                 hostIn, hostGot, resets>>

(* The host sends the next chunk into the armed OUT endpoint and the       *)
(* interrupt runs USBD_ECM_DataOut(): count it unless inhibited; a short   *)
(* chunk hands the frame over and leaves reception unarmed; a full chunk   *)
(* past ECM_MAX_SEGMENT_SIZE starts DISCARD; a full chunk re-arms.         *)
USBD_ECM_DataOut ==
  /\ registered_pdev /\ outEp # NotArmed /\ hostOut # NULL
  /\ LET RxLength == Chunk(hostOut.rem)
         datum    == <<hostOut.id, (sentLen[hostOut.id] - hostOut.rem) \div MaxPacket>>
         position == IF OutboundTransferInhibited THEN OutboundTransferPosition
                     ELSE OutboundTransferPosition + RxLength
     IN  /\ rxData' = Write(rxData, outEp, RxLength, datum)
         /\ PmaReceive(RxLength, datum)
         /\ overrun' = (overrun \/ outEp + RxLength > OutboundBufferSize)
         /\ hostOut' = IF RxLength < MaxPacket THEN NULL
                       ELSE [hostOut EXCEPT !.rem = @ - RxLength]
         /\ CASE RxLength < MaxPacket ->
                   /\ IF OutboundTransferInhibited
                        THEN UNCHANGED <<rcv_length, rcvSemaphore>>
                        ELSE ECM_ReceivePacket(position)
                   /\ OutboundTransferPosition' = 0
                   /\ OutboundTransferInhibited' = FALSE
                   /\ outEp' = NotArmed
                   /\ UNCHANGED OutboundTransferNeedsRenewal
              [] position > MaxSegment ->
                   /\ OutboundTransferPosition' = 0
                   /\ OutboundTransferInhibited' = TRUE
                   /\ USBD_ECM_ReceivePacket(0)
                   /\ UNCHANGED <<rcv_length, rcvSemaphore>>
              [] OTHER ->
                   /\ OutboundTransferPosition' = position
                   /\ USBD_ECM_ReceivePacket(position)
                   /\ UNCHANGED <<OutboundTransferInhibited, rcv_length, rcvSemaphore>>
  /\ UNCHANGED <<registered_pdev, xmitSemaphore, network_active, emacPc,
                 descLen, stackLog, ipPc, released, sentLen, devLen,
                 hostIn, hostGot, resets>>

(* Start-of-frame interrupt, once per bus frame while configured: a       *)
(* pending renewal arms the OUT endpoint.                                  *)
USBD_ECM_SOF ==
  /\ registered_pdev
  /\ IF OutboundTransferNeedsRenewal
       THEN USBD_ECM_ReceivePacket(OutboundTransferPosition)
       ELSE UNCHANGED <<outEp, OutboundTransferNeedsRenewal>>
  /\ UNCHANGED <<registered_pdev, OutboundTransferPosition,
                 OutboundTransferInhibited, xmitSemaphore, nif, inXfer, rxData,
                 overrun, host>>

(* The host appends the packet it read from the IN endpoint to the frame   *)
(* it is gathering; a short packet ends the frame.                         *)
HostTakesPacket ==
  LET chunk == IF inXfer.size = 0 THEN <<>> ELSE <<inXfer.pma>>
      got   == [len |-> hostIn.len + inXfer.size, data |-> hostIn.data \o chunk]
  IN  IF inXfer.size < MaxPacket
        THEN /\ hostGot' = got
             /\ hostIn' = [len |-> 0, data |-> <<>>]
        ELSE /\ hostIn' = got
             /\ UNCHANGED hostGot

(* The host reads a packet of an IN transfer with more to come: the HAL's  *)
(* interrupt copies the next packet out of the frame's buffer.             *)
HalInPacketSent ==
  /\ registered_pdev /\ inXfer # NULL /\ inXfer.rem > 0
  /\ HostTakesPacket
  /\ inXfer' = [inXfer EXCEPT !.size = Chunk(inXfer.rem), !.rem = @ - Chunk(inXfer.rem),
                               !.pma = <<inXfer.id, (devLen[inXfer.id] - inXfer.rem) \div MaxPacket>>]
  /\ UNCHANGED <<drv, nif, outEp, rxData, overrun, hostOut, sentLen, devLen,
                 resets>>

(* Seeded fault: xmitSemaphore created as a counting semaphore.           *)
DataInGivingCount ==
  /\ registered_pdev /\ inXfer # NULL /\ inXfer.rem = 0
  /\ HostTakesPacket
  /\ inXfer' = NULL
  /\ xmitSemaphore' = xmitSemaphore + 1
  /\ UNCHANGED <<registered_pdev, OutboundTransferNeedsRenewal,
                 OutboundTransferPosition, OutboundTransferInhibited, nif, outEp,
                 rxData, overrun, hostOut, sentLen, devLen, resets>>

(* The host reads the last packet of an IN transfer (no zero-length packet *)
(* follows a full one) and USBD_ECM_DataIn() gives xmitSemaphore.          *)
USBD_ECM_DataIn ==
  /\ registered_pdev /\ inXfer # NULL /\ inXfer.rem = 0
  /\ HostTakesPacket
  /\ inXfer' = NULL
  /\ xmitSemaphore' = 1
  /\ UNCHANGED <<registered_pdev, OutboundTransferNeedsRenewal,
                 OutboundTransferPosition, OutboundTransferInhibited, nif, outEp,
                 rxData, overrun, hostOut, sentLen, devLen, resets>>

(* The host starts sending a frame.                                        *)
HostSendsFrame ==
  /\ registered_pdev /\ hostOut = NULL /\ Len(sentLen) < MaxHostFrames
  /\ \E L \in HostFrameLens :
       /\ sentLen' = Append(sentLen, L)
       /\ hostOut' = [id |-> Len(sentLen) + 1, rem |-> L]
  /\ UNCHANGED <<drv, nif, usb, devLen, hostIn, hostGot, resets>>

-----------------------------------------------------------------------------
(* Seeded fault: the task renews reception as soon as it wakes, before    *)
(* copying the frame.                                                      *)
EmacTakeRenewingEarly ==
  /\ emacPc = "take" /\ rcvSemaphore = 1
  /\ rcvSemaphore' = 0
  /\ emacPc' = "alloc"
  /\ OutboundTransferNeedsRenewal' = (OutboundTransferNeedsRenewal \/ registered_pdev)
  /\ UNCHANGED <<registered_pdev, OutboundTransferPosition,
                 OutboundTransferInhibited, xmitSemaphore, rcv_length,
                 network_active, descLen, stackLog, ipPc, released, usb, host>>

(* Seeded fault: the task wakes without taking the token.                 *)
EmacTakeKeepingToken ==
  /\ emacPc = "take" /\ rcvSemaphore = 1
  /\ emacPc' = "alloc"
  /\ UNCHANGED <<drv, rcvSemaphore, rcv_length, network_active, descLen, stackLog,
                 ipPc, released, usb, host>>

(* prvEMACHandlerTask() blocks on rcvSemaphore.                            *)
EmacTake ==
  /\ emacPc = "take" /\ rcvSemaphore = 1
  /\ rcvSemaphore' = 0
  /\ emacPc' = "alloc"
  /\ UNCHANGED <<drv, rcv_length, network_active, descLen, stackLog, ipPc,
                 released, usb, host>>

(* Seeded fault: without a descriptor the task goes back to waiting and   *)
(* never renews reception.                                                 *)
EmacAllocSkippingRenew ==
  /\ emacPc = "alloc"
  /\ \/ /\ descLen' = rcv_length
        /\ emacPc' = "copy"
     \/ /\ DescriptorsCanRunOut
        /\ emacPc' = "take"
        /\ UNCHANGED descLen
  /\ UNCHANGED <<drv, rcvSemaphore, rcv_length, network_active, stackLog, ipPc,
                 released, usb, host>>

(* pxGetNetworkBufferWithDescriptor(rcv_length, 250 ms): a buffer of the   *)
(* length read now, or NULL when the pool stays empty, in which case the   *)
(* frame is skipped and reception renewed.                                 *)
EmacAlloc ==
  /\ emacPc = "alloc"
  /\ \/ /\ descLen' = rcv_length
        /\ emacPc' = "copy"
     \/ /\ DescriptorsCanRunOut
        /\ emacPc' = "renew"
        /\ UNCHANGED descLen
  /\ UNCHANGED <<drv, rcvSemaphore, rcv_length, network_active, stackLog, ipPc,
                 released, usb, host>>

(* Cap rcv_length (read again) to the descriptor, memcpy() the frame out   *)
(* of OutboundBuffer and send it to the IP task (a failed send releases    *)
(* the copy; the frame seen by the stack is the copy either way).          *)
EmacCopy ==
  /\ emacPc = "copy"
  /\ LET len == IF rcv_length > descLen THEN descLen ELSE rcv_length
     IN  /\ rcv_length' = len
         /\ stackLog' = Append(stackLog, [len |-> len, data |-> Read(rxData, len)])
  /\ emacPc' = "renew"
  /\ UNCHANGED <<drv, rcvSemaphore, network_active, descLen, ipPc, released,
                 usb, host>>

(* ECM_RenewReceivePacket(0): unless the device is unconfigured, set the   *)
(* renewal flag (in a critical section) for SOF to act on.                 *)
ECM_RenewReceivePacket ==
  /\ emacPc = "renew"
  /\ emacPc' = "take"
  /\ OutboundTransferNeedsRenewal' = (OutboundTransferNeedsRenewal \/ registered_pdev)
  /\ UNCHANGED <<registered_pdev, OutboundTransferPosition,
                 OutboundTransferInhibited, xmitSemaphore, rcvSemaphore,
                 rcv_length, network_active, descLen, stackLog, ipPc, released,
                 usb, host>>

(* ECM_TransmitPacket(0, data, L) for frame id: return at once when       *)
(* unconfigured; otherwise start the IN transfer in a critical section     *)
(* (the HAL copies the first packet into packet memory, abandoning any     *)
(* transfer in progress) and block on xmitSemaphore.                       *)
ECM_TransmitPacket(id, L) ==
  IF registered_pdev
    THEN /\ inXfer' = [id |-> id, size |-> Chunk(L), rem |-> L - Chunk(L), pma |-> <<id, 0>>]
         /\ ipPc' = "wait"
    ELSE UNCHANGED <<inXfer, ipPc>>

(* The IP task calls xNetworkInterfaceOutput() with a frame of L bytes;    *)
(* with bReleaseAfterSend set the frame's buffer is released as soon as    *)
(* ECM_TransmitPacket() returns.                                           *)
xNetworkInterfaceOutput ==
  /\ ipPc = "idle" /\ Len(devLen) < MaxDevFrames
  /\ \E L \in DevFrameLens :
       LET id == Len(devLen) + 1
       IN  /\ devLen' = Append(devLen, L)
           /\ ECM_TransmitPacket(id, L)
           /\ released' = IF ipPc' = "wait" THEN released ELSE released \cup {id}
  /\ UNCHANGED <<drv, rcvSemaphore, rcv_length, network_active, emacPc, descLen,
                 stackLog, outEp, rxData, overrun, hostOut, sentLen, hostIn,
                 hostGot, resets>>

(* xSemaphoreTake(xmitSemaphore, 250 ms) returns, taking the token or on   *)
(* timeout, and xNetworkInterfaceOutput() releases the frame's buffer.     *)
XmitTake ==
  /\ ipPc = "wait" /\ xmitSemaphore = 1
  /\ xmitSemaphore' = 0
  /\ ipPc' = "idle"
  /\ released' = released \cup {Len(devLen)}
  /\ UNCHANGED <<registered_pdev, OutboundTransferNeedsRenewal,
                 OutboundTransferPosition, OutboundTransferInhibited,
                 rcvSemaphore, rcv_length, network_active, emacPc, descLen,
                 stackLog, usb, host>>

XmitTimeout ==
  /\ ipPc = "wait" /\ xmitSemaphore = 0
  /\ ipPc' = "idle"
  /\ released' = released \cup {Len(devLen)}
  /\ UNCHANGED <<drv, rcvSemaphore, rcv_length, network_active, emacPc, descLen,
                 stackLog, usb, host>>

-----------------------------------------------------------------------------
Init ==
  /\ registered_pdev = FALSE
  /\ OutboundTransferNeedsRenewal = FALSE
  /\ OutboundTransferPosition = 0
  /\ OutboundTransferInhibited = FALSE
  /\ xmitSemaphore = 1
  /\ rcvSemaphore = 0
  /\ rcv_length = 0
  /\ network_active = FALSE
  /\ emacPc = "take"
  /\ descLen = 0
  /\ stackLog = <<>>
  /\ ipPc = "idle"
  /\ released = {}
  /\ outEp = NotArmed
  /\ inXfer = NULL
  /\ rxData = {}
  /\ overrun = FALSE
  /\ hostOut = NULL
  /\ sentLen = <<>>
  /\ devLen = <<>>
  /\ hostIn = [len |-> 0, data |-> <<>>]
  /\ hostGot = NULL
  /\ resets = 0

(* NetworkInterface.c's USB_IRQHandler() clears                           *)
(* USBISRhaswokenxHigherPriorityTask, calls HAL_PCD_IRQHandler(), which    *)
(* runs the class callback of one event (SET_CONFIGURATION, a reset or     *)
(* detach, a data OUT packet, a start of frame, an IN packet or the last   *)
(* one of a transfer), and yields to a task a callback woke.  The yield    *)
(* only lets the woken task run sooner, which the interleaving of the      *)
(* tasks' actions already allows.                                          *)
USB_IRQHandler ==
  \/ USBD_ECM_Init \/ USBD_ECM_DeInit \/ USBD_ECM_DataOut \/ USBD_ECM_SOF
  \/ HalInPacketSent \/ USBD_ECM_DataIn

Next ==
  \/ USB_IRQHandler
  \/ HostSendsFrame
  \/ EmacTake
  \/ EmacAlloc
  \/ EmacCopy
  \/ ECM_RenewReceivePacket
  \/ xNetworkInterfaceOutput
  \/ XmitTake
  \/ XmitTimeout

(* SOF fires every millisecond while configured; the host keeps polling IN *)
(* and keeps sending a frame it has started; the EMAC task has the highest *)
(* priority and runs whenever its semaphore is given; the 250 ms timeout   *)
(* ends every wait.                                                        *)
Fairness ==
  /\ WF_vars(USBD_ECM_SOF)
  /\ WF_vars(USBD_ECM_DataOut)
  /\ WF_vars(HalInPacketSent)
  /\ WF_vars(USBD_ECM_DataIn)
  /\ WF_vars(EmacTake)
  /\ WF_vars(EmacAlloc)
  /\ WF_vars(EmacCopy)
  /\ WF_vars(ECM_RenewReceivePacket)
  /\ WF_vars(XmitTake \/ XmitTimeout)

Spec == Init /\ [][Next]_vars /\ Fairness

-----------------------------------------------------------------------------
Datum == Nat \X Nat
FrameT == [len : Nat, data : Seq(Datum)]

TypeOK ==
  /\ registered_pdev \in BOOLEAN
  /\ OutboundTransferNeedsRenewal \in BOOLEAN
  /\ OutboundTransferPosition \in 0..MaxSegment
  /\ OutboundTransferInhibited \in BOOLEAN
  /\ xmitSemaphore \in {0, 1} /\ rcvSemaphore \in {0, 1}
  /\ rcv_length \in Nat /\ descLen \in Nat
  /\ network_active \in BOOLEAN
  /\ emacPc \in {"take", "alloc", "copy", "renew"}
  /\ stackLog \in Seq(FrameT)
  /\ ipPc \in {"idle", "wait"}
  /\ released \subseteq 1..MaxDevFrames
  /\ outEp \in (0..MaxSegment) \cup {NotArmed}
  /\ inXfer \in [id : 1..MaxDevFrames, size : 0..MaxPacket, rem : 0..MaxSegment,
                pma : Datum] \cup {NULL}
  /\ rxData \subseteq [off : Nat, len : 1..MaxPacket, datum : Datum]
  /\ overrun \in BOOLEAN
  /\ hostOut \in [id : Nat, rem : Nat] \cup {NULL}
  /\ sentLen \in Seq(HostFrameLens) /\ devLen \in Seq(DevFrameLens)
  /\ hostIn \in FrameT /\ hostGot \in FrameT \cup {NULL}
  /\ resets \in 0..MaxResets

(* A frame handed over by DataOut belongs to the EMAC task until its       *)
(* memcpy() is done: meanwhile the OUT endpoint is not armed, so the host  *)
(* cannot write into OutboundBuffer under it (neither Init, SOF nor a      *)
(* renewal re-arms reception early).                                       *)
FrameAwaitingCopy == rcvSemaphore = 1 \/ emacPc \in {"alloc", "copy"}

BufferSingleOwner == FrameAwaitingCopy => outEp = NotArmed

(* Every frame the EMAC task copies to the IP task is byte for byte a      *)
(* frame the host sent.                                                    *)
StackGetsWholeFrames ==
  \A i \in 1..Len(stackLog) : IsFrameOf(stackLog[i], sentLen)

(* The driver and the EMAC task implement the abstract receive link: the   *)
(* frames the IP task is given are whole frames the host sent, each at    *)
(* most once, in the order sent, none longer than ECM_MAX_SEGMENT_SIZE.    *)
Link == INSTANCE EcmLink WITH sent <- sentLen, handed <- stackLog

LinkRefined == Link!LinkSpec

(* No chunk is written past the end of OutboundBuffer: the DISCARD check   *)
(* and the buffer's extra MaxPacket - 1 bytes keep every write inside.     *)
RxWithinBuffer == ~overrun

(* The HAL never reads a frame's buffer for the next IN packet after       *)
(* xNetworkInterfaceOutput() has released it.                              *)
TxBufferHeld ==
  (inXfer # NULL /\ inXfer.rem > 0) => inXfer.id \notin released

(* Every frame the host reads from the IN endpoint is a frame the IP task  *)
(* transmitted, chunk for chunk: nothing else is ever in the IN packet     *)
(* buffer when the host reads it.                                          *)
HostGetsWholeFrames ==
  hostGot # NULL => IsFrameOf(hostGot, devLen)

(* A frame the host has started sending is eventually taken in whole by    *)
(* the device, or abandoned by a bus reset: reception never stalls.        *)
RxProgress ==
  (hostOut # NULL) ~> (hostOut = NULL)

=============================================================================
