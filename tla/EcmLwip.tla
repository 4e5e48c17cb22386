------------------------------ MODULE EcmLwip ------------------------------
(***************************************************************************)
(* The bare-metal CDC-ECM driver of src/usbd_ecm.c together with the lwIP  *)
(* glue of src/main.c that feeds it, and the USB host at the other end of  *)
(* the bulk endpoints.                                                     *)
(*                                                                         *)
(* Two execution contexts share the driver's globals: the USB interrupt    *)
(* (DataOut, DataIn, SOF, Init, DeInit, each running to completion) and    *)
(* the main loop (service_traffic, linkoutput_fn).  The main loop's call   *)
(* of usb_ecm_recv_renew() is split in two steps because it runs with      *)
(* interrupts enabled and holds the HAL lock while inside                  *)
(* USBD_LL_PrepareReceive(): an interrupt that calls the HAL in that       *)
(* window is refused as busy.                                              *)
(*                                                                         *)
(* Data is abstracted to chunk identities: the payload of the k-th chunk   *)
(* of frame i is the pair <<i, k>>, so a frame is whole exactly when its   *)
(* data is <<i,0>>, <<i,1>>, ... and its length is the length sent.        *)
(***************************************************************************)
EXTENDS Integers, Sequences, FiniteSets, EcmChunks

CONSTANTS
  MaxSegment,     \* ECM_MAX_SEGMENT_SIZE, the size of ecm_rx_buffer
  StallLimit,     \* the literal 32 of USBD_ECM_SOF's watchdog
  HostFrameLens,  \* lengths of the frames the host sends
  DevFrameLens,   \* lengths of the frames lwIP hands to linkoutput_fn
  MaxHostFrames,  \* bound: frames the host sends
  MaxDevFrames,   \* bound: frames the device transmits
  MaxResets,      \* bound: bus resets (DeInit) of the configuration
  HostLatency,    \* bus frames the host may leave a loaded IN chunk unread
  PbufPoolCanRunOut, \* whether pbuf_alloc() in usb_ecm_recv_callback() may fail
  HostRequests,   \* class requests (bRequest) the host sends on EP0
  NotifyItf,      \* interface number of the ECM control (notification) interface
  NULL

ASSUME /\ MaxSegment \in Nat \ {0}
       /\ StallLimit \in Nat \ {0}
       /\ HostFrameLens \subseteq Nat /\ DevFrameLens \subseteq Nat
       /\ \A L \in DevFrameLens : L <= MaxSegment   \* ecm_tx_buffer size
       /\ {MaxHostFrames, MaxDevFrames, MaxResets, HostLatency} \subseteq Nat
       /\ PbufPoolCanRunOut \in BOOLEAN

VARIABLES
  \* globals of src/usbd_ecm.c
  registered_pdev,              \* TRUE iff registered_pdev # NULL
  ecm_rx_index,
  can_xmit,
  OutboundTransferNeedsRenewal,
  ecm_tx_remaining,
  ecm_tx_busy,
  \* globals and control of src/main.c
  received_frame,               \* NULL or the pbuf [len, data]
  mainPc,                       \* "loop", "input" (in ethernet_input), "renew" (in the HAL)
  renewArgs,                    \* what the main loop's usb_ecm_recv_renew() read: [pdev, offset]
  stackLog,                     \* ghost: the frames handed to ethernet_input(), in order
  xmitPc,                       \* main loop in lwIP output: "none", "ready" (linkoutput_fn saw
                                \* can_xmit), "copied" (usb_ecm_xmit_packet() past its check)
  xmitLen,                      \* length of the frame being output
  \* USB peripheral; the core delivers class callbacks exactly while registered_pdev is set
  halLocked,                    \* the main loop is inside USBD_LL_PrepareReceive()
  outEp,                        \* offset the OUT endpoint will write the next chunk at, or -1
  inEp,                         \* NULL or the chunk loaded in the IN endpoint [data, size, age]
  \* ghost state: contents of ecm_rx_buffer, as the set of extents [off, len, datum]
  \* last written by the OUT endpoint
  rxData,
  overrun,                      \* some chunk was written past the end of ecm_rx_buffer
  \* the host
  hostOut,                      \* NULL or the frame being sent [id, rem]
  sentLen,                      \* lengths of the frames the host has sent, by id
  devLen,                       \* lengths of the frames the device accepted, by id
  hostIn,                       \* bytes the host has gathered of the frame in progress [len, data]
  hostGot,                      \* NULL or the last frame the host received
  hostLog,                      \* ghost: the frames the host received, in order
  resets,
  \* the control side: the NETWORK_CONNECTION notification
  notifyEp,                     \* NULL or the notification loaded in the interrupt IN endpoint
  hostLink                      \* the host's view: "down", "requested" (filter set), "up"

drv  == <<registered_pdev, ecm_rx_index, can_xmit, OutboundTransferNeedsRenewal,
          ecm_tx_remaining, ecm_tx_busy>>
app  == <<received_frame, mainPc, renewArgs, stackLog, xmitPc, xmitLen>>
usb  == <<halLocked, outEp, inEp, rxData, overrun>>
host == <<hostOut, sentLen, devLen, hostIn, hostGot, hostLog, resets>>
ctl  == <<notifyEp, hostLink>>
vars == <<drv, app, usb, host, ctl>>

NotArmed == -1

-----------------------------------------------------------------------------
(* Seeded fault in USBD_ECM_PMAConfig(): the cursor is assigned rather     *)
(* than advanced (the `=+` of the FreeRTOS build), so every endpoint gets  *)
(* the same offset.                                                        *)
PMAConfigAssigning(base) ==
  [data_in |-> base + MaxPacket, data_out |-> base + MaxPacket,
   notify_in |-> base + MaxPacket]

(* USBD_ECM_PMAConfig(): each endpoint is given packet memory at the       *)
(* cursor *pma_address, which then advances past its buffer (the data      *)
(* endpoints' buffers are MaxPacket bytes).                                *)
PMAConfig(base) ==
  [data_in |-> base, data_out |-> base + MaxPacket, notify_in |-> base + 2 * MaxPacket]

\* The data IN and data OUT endpoints' packet buffers share bytes.
PmaShared ==
  LET pma == PMAConfig(0)
  IN  /\ pma.data_in < pma.data_out + MaxPacket
      /\ pma.data_out < pma.data_in + MaxPacket

(* The peripheral stores an OUT packet of n bytes of datum d in packet     *)
(* memory; where that overlaps the IN buffer, the chunk still waiting for  *)
(* the host now holds d.                                                   *)
PmaReceive(n, d) ==
  inEp' = IF inEp # NULL /\ inEp.size > 0 /\ n > 0 /\ PmaShared
            THEN [inEp EXCEPT !.data = <<d>>] ELSE inEp

-----------------------------------------------------------------------------
(* usb_ecm_recv_renew() called from interrupt context: the HAL refuses it  *)
(* as busy while the main loop holds the HAL lock.  epBefore is the OUT    *)
(* endpoint's state when the call is made.                                 *)
RecvRenewIsr(epBefore, offset) ==
  IF halLocked
    THEN /\ outEp' = epBefore
         /\ OutboundTransferNeedsRenewal' = TRUE
    ELSE /\ outEp' = offset
         /\ OutboundTransferNeedsRenewal' = FALSE

(* Seeded fault: the chunker ignores ecm_tx_busy.                         *)
IncomingAttemptIgnoringBusy(busy, rem, ep) ==
  IF rem = 0
    THEN /\ ecm_tx_remaining' = rem
         /\ ecm_tx_busy' = busy
         /\ inEp' = ep
    ELSE LET id   == Len(devLen)
             size == Chunk(rem)
             pos  == devLen[id] - rem
         IN  /\ inEp' = [data |-> <<<<id, pos \div MaxPacket>>>>, size |-> size, age |-> 0]
             /\ ecm_tx_remaining' = rem - size
             /\ ecm_tx_busy' = 1

(* ecm_incoming_attempt() applied to the transmit state left by the code   *)
(* before it: busy and rem are ecm_tx_busy and ecm_tx_remaining, ep the IN *)
(* endpoint.  USBD_LL_Transmit() loads the chunk whatever the endpoint     *)
(* holds; its result is not read.                                          *)
ecm_incoming_attempt(busy, rem, ep) ==
  IF rem = 0 \/ busy # 0
    THEN /\ ecm_tx_remaining' = rem
         /\ ecm_tx_busy' = busy
         /\ inEp' = ep
    ELSE LET id   == Len(devLen)
             size == Chunk(rem)
             pos  == devLen[id] - rem
         IN  /\ inEp' = [data |-> <<<<id, pos \div MaxPacket>>>>, size |-> size, age |-> 0]
             /\ ecm_tx_remaining' = rem - size
             /\ ecm_tx_busy' = 1

-----------------------------------------------------------------------------
(* main.c usb_ecm_recv_callback(), called by DataOut with the frame length *)
(* size while ecm_rx_index still holds it; buf is ecm_rx_buffer.           *)
usb_ecm_recv_callback(size, buf) ==
  \/ /\ received_frame # NULL                       \* slot full: frame dropped
     /\ outEp' = NotArmed
     /\ UNCHANGED <<received_frame, OutboundTransferNeedsRenewal>>
  \/ /\ received_frame = NULL                       \* pbuf_alloc() fails
     /\ PbufPoolCanRunOut
     /\ RecvRenewIsr(NotArmed, size)
     /\ UNCHANGED received_frame
  \/ /\ received_frame = NULL                       \* copy into a fresh pbuf
     /\ received_frame' = [len |-> size, data |-> Read(buf, size)]
     /\ outEp' = NotArmed
     /\ UNCHANGED OutboundTransferNeedsRenewal

(* Seeded faults in DataOut: ecm_rx_index is not cleared after a short    *)
(* chunk; reception is not renewed after a full one.                       *)
DataOutKeepingIndex ==
  /\ registered_pdev /\ outEp # NotArmed /\ hostOut # NULL
  /\ LET RxLength == Chunk(hostOut.rem)
         datum    == <<hostOut.id, (sentLen[hostOut.id] - hostOut.rem) \div MaxPacket>>
         buf      == Write(rxData, outEp, RxLength, datum)
         index    == ecm_rx_index + RxLength
     IN  /\ rxData' = buf
         /\ PmaReceive(RxLength, datum)
         /\ overrun' = (overrun \/ outEp + RxLength > MaxSegment)
         /\ hostOut' = IF RxLength < MaxPacket THEN NULL
                       ELSE [hostOut EXCEPT !.rem = @ - RxLength]
         /\ ecm_rx_index' = index
         /\ IF RxLength < MaxPacket
              THEN usb_ecm_recv_callback(index, buf)
              ELSE /\ RecvRenewIsr(NotArmed, index)
                   /\ UNCHANGED received_frame
  /\ UNCHANGED <<ctl, registered_pdev, can_xmit, ecm_tx_remaining, ecm_tx_busy,
                 mainPc, renewArgs, stackLog, xmitPc, xmitLen, halLocked, sentLen,
                 devLen, hostIn,
                 hostGot, hostLog, resets>>

DataOutNotRenewing ==
  /\ registered_pdev /\ outEp # NotArmed /\ hostOut # NULL
  /\ LET RxLength == Chunk(hostOut.rem)
         datum    == <<hostOut.id, (sentLen[hostOut.id] - hostOut.rem) \div MaxPacket>>
         buf      == Write(rxData, outEp, RxLength, datum)
         index    == ecm_rx_index + RxLength
     IN  /\ rxData' = buf
         /\ PmaReceive(RxLength, datum)
         /\ overrun' = (overrun \/ outEp + RxLength > MaxSegment)
         /\ hostOut' = IF RxLength < MaxPacket THEN NULL
                       ELSE [hostOut EXCEPT !.rem = @ - RxLength]
         /\ IF RxLength < MaxPacket
              THEN /\ usb_ecm_recv_callback(index, buf)
                   /\ ecm_rx_index' = 0
              ELSE /\ ecm_rx_index' = index
                   /\ outEp' = NotArmed
                   /\ UNCHANGED <<received_frame, OutboundTransferNeedsRenewal>>
  /\ UNCHANGED <<ctl, registered_pdev, can_xmit, ecm_tx_remaining, ecm_tx_busy,
                 mainPc, renewArgs, stackLog, xmitPc, xmitLen, halLocked, sentLen,
                 devLen, hostIn,
                 hostGot, hostLog, resets>>

(* The host sends the next chunk of its frame into the armed OUT endpoint  *)
(* and the transfer-complete interrupt runs USBD_ECM_DataOut().            *)
USBD_ECM_DataOut ==
  /\ registered_pdev /\ outEp # NotArmed /\ hostOut # NULL
  /\ LET RxLength == Chunk(hostOut.rem)
         datum    == <<hostOut.id, (sentLen[hostOut.id] - hostOut.rem) \div MaxPacket>>
         buf      == Write(rxData, outEp, RxLength, datum)
         index    == ecm_rx_index + RxLength
     IN  /\ rxData' = buf
         /\ PmaReceive(RxLength, datum)
         /\ overrun' = (overrun \/ outEp + RxLength > MaxSegment)
         /\ hostOut' = IF RxLength < MaxPacket THEN NULL
                       ELSE [hostOut EXCEPT !.rem = @ - RxLength]
         /\ IF RxLength < MaxPacket
              THEN /\ usb_ecm_recv_callback(index, buf)
                   /\ ecm_rx_index' = 0
              ELSE /\ ecm_rx_index' = index
                   /\ RecvRenewIsr(NotArmed, index)
                   /\ UNCHANGED received_frame
  /\ UNCHANGED <<ctl, registered_pdev, can_xmit, ecm_tx_remaining, ecm_tx_busy,
                 mainPc, renewArgs, stackLog, xmitPc, xmitLen, halLocked, sentLen,
                 devLen, hostIn,
                 hostGot, hostLog, resets>>

(* The host appends a chunk read from the IN endpoint to the frame it is   *)
(* gathering; a short chunk ends the frame.                                *)
HostTakesChunk ==
  LET got == [len |-> hostIn.len + inEp.size, data |-> hostIn.data \o inEp.data]
  IN  IF inEp.size < MaxPacket
        THEN /\ hostGot' = got
             /\ hostLog' = Append(hostLog, got)
             /\ hostIn' = [len |-> 0, data |-> <<>>]
        ELSE /\ hostIn' = got
             /\ UNCHANGED <<hostGot, hostLog>>

(* The host reads the loaded IN chunk and the interrupt runs               *)
(* USBD_ECM_DataIn().                                                      *)
USBD_ECM_DataIn ==
  /\ registered_pdev /\ inEp # NULL
  /\ HostTakesChunk
  /\ can_xmit' = (can_xmit \/ ecm_tx_remaining = 0)
  /\ ecm_incoming_attempt(0, ecm_tx_remaining, NULL)
  /\ UNCHANGED <<ctl, registered_pdev, ecm_rx_index, OutboundTransferNeedsRenewal,
                 app, halLocked, outEp, rxData, overrun, hostOut, sentLen,
                 devLen, resets>>

(* The host reads the loaded IN chunk but the stack never delivers the     *)
(* DataIn callback (the case USBD_ECM_SOF's watchdog exists for).          *)
DataInLost ==
  /\ registered_pdev /\ inEp # NULL
  /\ HostTakesChunk
  /\ inEp' = NULL
  /\ UNCHANGED <<ctl, drv, app, halLocked, outEp, rxData, overrun, hostOut, sentLen,
                 devLen, resets>>

(* Seeded faults in SOF: the watchdog never clears ecm_tx_busy; the        *)
(* watchdog clears it but does not set can_xmit.                           *)
SOFNeverClearingBusy ==
  /\ registered_pdev
  /\ IF inEp = NULL THEN TRUE ELSE inEp.age < HostLatency
  /\ IF OutboundTransferNeedsRenewal
       THEN RecvRenewIsr(outEp, ecm_rx_index)
       ELSE UNCHANGED <<outEp, OutboundTransferNeedsRenewal>>
  /\ LET fired == ecm_tx_busy # 0 /\ ecm_tx_busy + 1 > StallLimit
         busy  == IF ecm_tx_busy = 0 THEN 0 ELSE ecm_tx_busy + 1
         aged  == IF inEp = NULL THEN NULL ELSE [inEp EXCEPT !.age = @ + 1]
     IN  /\ can_xmit' = (can_xmit \/ (fired /\ ecm_tx_remaining = 0))
         /\ ecm_incoming_attempt(busy, ecm_tx_remaining, aged)
  /\ UNCHANGED <<ctl, registered_pdev, ecm_rx_index, app, halLocked, rxData, overrun,
                 host>>

SOFNotFreeingXmit ==
  /\ registered_pdev
  /\ IF inEp = NULL THEN TRUE ELSE inEp.age < HostLatency
  /\ IF OutboundTransferNeedsRenewal
       THEN RecvRenewIsr(outEp, ecm_rx_index)
       ELSE UNCHANGED <<outEp, OutboundTransferNeedsRenewal>>
  /\ LET fired == ecm_tx_busy # 0 /\ ecm_tx_busy + 1 > StallLimit
         busy  == IF ecm_tx_busy = 0 \/ fired THEN 0 ELSE ecm_tx_busy + 1
         aged  == IF inEp = NULL THEN NULL ELSE [inEp EXCEPT !.age = @ + 1]
     IN  /\ UNCHANGED can_xmit
         /\ ecm_incoming_attempt(busy, ecm_tx_remaining, aged)
  /\ UNCHANGED <<ctl, registered_pdev, ecm_rx_index, app, halLocked, rxData, overrun,
                 host>>

(* Seeded fault: when the watchdog fires it resends the stalled frame     *)
(* from its start instead of dropping the lost DataIn.                     *)
SOFRetryingFrame ==
  /\ registered_pdev
  /\ IF inEp = NULL THEN TRUE ELSE inEp.age < HostLatency
  /\ IF OutboundTransferNeedsRenewal
       THEN RecvRenewIsr(outEp, ecm_rx_index)
       ELSE UNCHANGED <<outEp, OutboundTransferNeedsRenewal>>
  /\ LET fired == ecm_tx_busy # 0 /\ ecm_tx_busy + 1 > StallLimit
         busy  == IF ecm_tx_busy = 0 \/ fired THEN 0 ELSE ecm_tx_busy + 1
         rem   == IF fired /\ devLen # <<>> THEN devLen[Len(devLen)] ELSE ecm_tx_remaining
         aged  == IF inEp = NULL THEN NULL ELSE [inEp EXCEPT !.age = @ + 1]
     IN  /\ UNCHANGED can_xmit
         /\ ecm_incoming_attempt(busy, rem, aged)
  /\ UNCHANGED <<ctl, registered_pdev, ecm_rx_index, app, halLocked, rxData, overrun,
                 host>>

(* Start-of-frame interrupt, once per bus frame: retry a refused renewal,  *)
(* run the transmit watchdog, then try to send the next chunk.  The host   *)
(* reads a loaded IN chunk within HostLatency bus frames.                  *)
USBD_ECM_SOF ==
  /\ registered_pdev
  /\ IF inEp = NULL THEN TRUE ELSE inEp.age < HostLatency
  /\ IF OutboundTransferNeedsRenewal
       THEN RecvRenewIsr(outEp, ecm_rx_index)
       ELSE UNCHANGED <<outEp, OutboundTransferNeedsRenewal>>
  /\ LET fired == ecm_tx_busy # 0 /\ ecm_tx_busy + 1 > StallLimit
         busy  == IF ecm_tx_busy = 0 \/ fired THEN 0 ELSE ecm_tx_busy + 1
         aged  == IF inEp = NULL THEN NULL ELSE [inEp EXCEPT !.age = @ + 1]
     IN  /\ can_xmit' = (can_xmit \/ (fired /\ ecm_tx_remaining = 0))
         /\ ecm_incoming_attempt(busy, ecm_tx_remaining, aged)
  /\ UNCHANGED <<ctl, registered_pdev, ecm_rx_index, app, halLocked, rxData, overrun,
                 host>>

(* SET_CONFIGURATION: USBD_ECM_Init() opens the endpoints and renews       *)
(* reception at ecm_rx_index, then clears OutboundTransferNeedsRenewal     *)
(* whatever the renewal's outcome.                                         *)
USBD_ECM_Init ==
  /\ ~registered_pdev
  /\ registered_pdev' = TRUE
  /\ outEp' = IF halLocked THEN NotArmed ELSE ecm_rx_index
  /\ OutboundTransferNeedsRenewal' = FALSE
  /\ can_xmit' = TRUE
  /\ ecm_tx_busy' = 0
  /\ ecm_tx_remaining' = 0
  /\ UNCHANGED <<ctl, ecm_rx_index, app, halLocked, inEp, rxData, overrun, host>>

(* Bus reset of a configured device: USBD_ECM_DeInit() closes the         *)
(* endpoints; the host abandons the transfers it had in progress.          *)
USBD_ECM_DeInit ==
  /\ registered_pdev /\ resets < MaxResets
  /\ registered_pdev' = FALSE
  /\ can_xmit' = FALSE
  /\ outEp' = NotArmed
  /\ inEp' = NULL
  /\ hostOut' = NULL
  /\ hostIn' = [len |-> 0, data |-> <<>>]
  /\ resets' = resets + 1
  /\ notifyEp' = NULL
  /\ hostLink' = "down"
  /\ UNCHANGED <<ecm_rx_index, OutboundTransferNeedsRenewal, ecm_tx_remaining,
                 ecm_tx_busy, app, halLocked, rxData, overrun, sentLen, devLen,
                 hostGot, hostLog>>

(* The host starts sending a frame.                                        *)
HostSendsFrame ==
  /\ registered_pdev /\ hostOut = NULL /\ Len(sentLen) < MaxHostFrames
  /\ \E L \in HostFrameLens :
       /\ sentLen' = Append(sentLen, L)
       /\ hostOut' = [id |-> Len(sentLen) + 1, rem |-> L]
  /\ UNCHANGED <<ctl, drv, app, usb, devLen, hostIn, hostGot, hostLog, resets>>

-----------------------------------------------------------------------------
(* Main loop.  service_traffic(): take received_frame with interrupts      *)
(* masked and hand it to ethernet_input().  The seeded fault before it     *)
(* leaves received_frame set.                                              *)
ServiceTrafficKeepingFrame ==
  /\ mainPc = "loop" /\ xmitPc = "none" /\ received_frame # NULL
  /\ stackLog' = Append(stackLog, received_frame)
  /\ mainPc' = "input"
  /\ UNCHANGED <<ctl, drv, received_frame, renewArgs, xmitPc, xmitLen, usb, host>>

service_traffic ==
  /\ mainPc = "loop" /\ xmitPc = "none" /\ received_frame # NULL
  /\ received_frame' = NULL
  /\ stackLog' = Append(stackLog, received_frame)
  /\ mainPc' = "input"
  /\ UNCHANGED <<ctl, drv, renewArgs, xmitPc, xmitLen, usb, host>>

(* After pbuf_free(), usb_ecm_recv_renew() reads registered_pdev and       *)
(* ecm_rx_index and enters USBD_LL_PrepareReceive(), taking the HAL lock.  *)
RenewEnter ==
  /\ mainPc = "input" /\ xmitPc = "none"
  /\ mainPc' = "renew"
  /\ halLocked' = TRUE
  /\ renewArgs' = [pdev |-> registered_pdev, offset |-> ecm_rx_index]
  /\ UNCHANGED <<ctl, drv, received_frame, stackLog, xmitPc, xmitLen, outEp, inEp, rxData,
                 overrun, host>>

(* Seeded fault: the HAL lock is not released on return.                  *)
RenewLeaveKeepingLock ==
  /\ mainPc = "renew"
  /\ mainPc' = "loop"
  /\ UNCHANGED halLocked
  /\ IF renewArgs.pdev
       THEN /\ outEp' = IF registered_pdev THEN renewArgs.offset ELSE outEp
            /\ OutboundTransferNeedsRenewal' = FALSE
       ELSE /\ UNCHANGED outEp
            /\ OutboundTransferNeedsRenewal' \in BOOLEAN
  /\ UNCHANGED <<ctl, registered_pdev, ecm_rx_index, can_xmit, ecm_tx_remaining,
                 ecm_tx_busy, received_frame, renewArgs, stackLog, xmitPc, xmitLen, inEp,
                 rxData, overrun, host>>

(* USBD_LL_PrepareReceive() arms the endpoint, releases the lock and       *)
(* returns; OutboundTransferNeedsRenewal is set from its outcome.  Called  *)
(* with a NULL handle the HAL's behaviour is undefined.                    *)
RenewLeave ==
  /\ mainPc = "renew"
  /\ mainPc' = "loop"
  /\ halLocked' = FALSE
  /\ IF renewArgs.pdev
       THEN /\ outEp' = IF registered_pdev THEN renewArgs.offset ELSE outEp
            /\ OutboundTransferNeedsRenewal' = FALSE
       ELSE /\ UNCHANGED outEp
            /\ OutboundTransferNeedsRenewal' \in BOOLEAN
  /\ UNCHANGED <<ctl, registered_pdev, ecm_rx_index, can_xmit, ecm_tx_remaining,
                 ecm_tx_busy, received_frame, renewArgs, stackLog, xmitPc, xmitLen, inEp,
                 rxData, overrun, host>>

(* usb_ecm_can_xmit() reads can_xmit with interrupts masked.              *)
usb_ecm_can_xmit == can_xmit

(* usb_ecm_xmit_packet(), first half: with interrupts enabled, return at  *)
(* once (the frame is lost, linkoutput_fn() still returns ERR_OK) unless   *)
(* the device is configured and can_xmit; else memcpy() the pbuf chain     *)
(* into ecm_tx_buffer.                                                     *)
usb_ecm_xmit_packet ==
  /\ xmitPc = "ready"
  /\ xmitPc' = IF registered_pdev /\ can_xmit THEN "copied" ELSE "none"
  /\ UNCHANGED <<ctl, drv, received_frame, mainPc, renewArgs, stackLog, xmitLen, usb, host>>

(* usb_ecm_xmit_packet(), second half: with interrupts masked, clear       *)
(* can_xmit and hand the copied frame to the SOF/DataIn chunking, whatever *)
(* a bus reset did since the check.                                        *)
XmitCommit ==
  /\ xmitPc = "copied"
  /\ devLen' = Append(devLen, xmitLen)
  /\ ecm_tx_remaining' = xmitLen
  /\ can_xmit' = FALSE
  /\ xmitPc' = "none"
  /\ UNCHANGED <<ctl, registered_pdev, ecm_rx_index, OutboundTransferNeedsRenewal,
                 ecm_tx_busy, received_frame, mainPc, renewArgs, stackLog, xmitLen, usb,
                 hostOut, sentLen, hostIn, hostGot, hostLog, resets>>

SET_ETHERNET_PACKET_FILTER == 67   \* 0x43
NETWORK_CONNECTION == 0

\* The static notification: class request to the interface, Connected.
notify == [bmRequest |-> 33, bRequest |-> NETWORK_CONNECTION, wValue |-> 1, wIndex |-> 0,
           wLength |-> 0]

(* USBD_ECM_Setup(): SET_ETHERNET_PACKET_FILTER is answered by loading the *)
(* NETWORK_CONNECTION (Connected) notification, addressed to the request's *)
(* interface, into the interrupt IN endpoint; USBD_LL_Transmit() copies it *)
(* to packet memory at once.  Every other class request is ignored.        *)
USBD_ECM_Setup(req) ==
  notifyEp' = IF req.bRequest = SET_ETHERNET_PACKET_FILTER
                THEN [notify EXCEPT !.wIndex = req.wIndex]
                ELSE notifyEp

(* The host sends a class request to the ECM control interface of the      *)
(* configured device; the core runs USBD_ECM_Setup() in the USB interrupt. *)
HostSetup ==
  /\ registered_pdev /\ hostLink = "down"
  /\ \E bRequest \in HostRequests :
       /\ USBD_ECM_Setup([bRequest |-> bRequest, wIndex |-> NotifyItf])
       /\ hostLink' = IF bRequest = SET_ETHERNET_PACKET_FILTER THEN "requested" ELSE hostLink
  /\ UNCHANGED <<drv, app, usb, host>>

\* A notification the host reads as "the ECM link is connected".
Connected(n) ==
  /\ n.bmRequest = 33 /\ n.bRequest = NETWORK_CONNECTION
  /\ n.wValue = 1 /\ n.wIndex = NotifyItf

(* The host polls the interrupt endpoint and takes the notification.       *)
HostReadsNotification ==
  /\ registered_pdev /\ notifyEp # NULL
  /\ notifyEp' = NULL
  /\ hostLink' = IF Connected(notifyEp) THEN "up" ELSE hostLink
  /\ UNCHANGED <<drv, app, usb, host>>

(* lwIP outputs a frame of L bytes through linkoutput_fn(), from           *)
(* ethernet_input() or from a timer in the main loop: it polls             *)
(* usb_ecm_can_xmit() and calls usb_ecm_xmit_packet() once it holds.  When *)
(* it gives up after 200 ms with ERR_USE the frame is dropped and no       *)
(* driver state changes (a stutter step).                                  *)
linkoutput_fn ==
  /\ mainPc \in {"loop", "input"} /\ xmitPc = "none"
  /\ usb_ecm_can_xmit
  /\ Len(devLen) < MaxDevFrames
  /\ \E L \in DevFrameLens : xmitLen' = L
  /\ xmitPc' = "ready"
  /\ UNCHANGED <<ctl, drv, received_frame, mainPc, renewArgs, stackLog, usb, host>>

-----------------------------------------------------------------------------
Init ==
  /\ registered_pdev = FALSE
  /\ ecm_rx_index = 0
  /\ can_xmit = FALSE
  /\ OutboundTransferNeedsRenewal = FALSE
  /\ ecm_tx_remaining = 0
  /\ ecm_tx_busy = 0
  /\ received_frame = NULL
  /\ mainPc = "loop"
  /\ renewArgs = [pdev |-> FALSE, offset |-> 0]
  /\ stackLog = <<>>
  /\ xmitPc = "none"
  /\ xmitLen = CHOOSE L \in DevFrameLens : TRUE
  /\ halLocked = FALSE
  /\ outEp = NotArmed
  /\ inEp = NULL
  /\ rxData = {}
  /\ overrun = FALSE
  /\ hostOut = NULL
  /\ sentLen = <<>>
  /\ devLen = <<>>
  /\ hostIn = [len |-> 0, data |-> <<>>]
  /\ hostGot = NULL
  /\ hostLog = <<>>
  /\ resets = 0
  /\ notifyEp = NULL
  /\ hostLink = "down"

(* USB_IRQHandler() (stm32f0xx_it.c) calls HAL_PCD_IRQHandler(), which    *)
(* runs the device core and through it the class callback of one event: a *)
(* data OUT or IN completion (or an IN completion the stack drops), a      *)
(* start of frame, SET_CONFIGURATION, a reset or detach, a class request.  *)
USB_IRQHandler ==
  \/ USBD_ECM_DataOut \/ USBD_ECM_DataIn \/ DataInLost \/ USBD_ECM_SOF
  \/ USBD_ECM_Init \/ USBD_ECM_DeInit \/ HostSetup

Next ==
  \/ USB_IRQHandler
  \/ HostSendsFrame
  \/ service_traffic
  \/ RenewEnter
  \/ RenewLeave
  \/ linkoutput_fn
  \/ usb_ecm_xmit_packet
  \/ XmitCommit
  \/ HostReadsNotification

(* SOF is a hardware tick while configured; the host keeps polling the IN  *)
(* endpoint and keeps sending a frame it has started; the main loop spins. *)
Fairness ==
  /\ WF_vars(USBD_ECM_SOF)
  /\ WF_vars(USBD_ECM_DataIn \/ DataInLost)
  /\ WF_vars(USBD_ECM_DataOut)
  /\ WF_vars(service_traffic)
  /\ WF_vars(RenewEnter)
  /\ WF_vars(RenewLeave)
  /\ WF_vars(usb_ecm_xmit_packet)
  /\ WF_vars(XmitCommit)
  /\ WF_vars(HostReadsNotification)

Spec == Init /\ [][Next]_vars /\ Fairness

-----------------------------------------------------------------------------
Datum == Nat \X Nat
FrameT == [len : Nat, data : Seq(Datum)]

TypeOK ==
  /\ registered_pdev \in BOOLEAN
  /\ ecm_rx_index \in Nat
  /\ can_xmit \in BOOLEAN
  /\ OutboundTransferNeedsRenewal \in BOOLEAN
  /\ ecm_tx_remaining \in 0..MaxSegment
  /\ ecm_tx_busy \in 0..StallLimit
  /\ received_frame \in FrameT \cup {NULL}
  /\ mainPc \in {"loop", "input", "renew"}
  /\ renewArgs \in [pdev : BOOLEAN, offset : Nat]
  /\ stackLog \in Seq(FrameT)
  /\ xmitPc \in {"none", "ready", "copied"} /\ xmitLen \in DevFrameLens
  /\ halLocked = (mainPc = "renew")
  /\ outEp \in Nat \cup {NotArmed}
  /\ inEp \in [data : Seq(Datum), size : 0..MaxPacket, age : 0..HostLatency] \cup {NULL}
  /\ rxData \subseteq [off : Nat, len : 1..MaxPacket, datum : Datum]
  /\ overrun \in BOOLEAN
  /\ hostOut \in [id : Nat, rem : Nat] \cup {NULL}
  /\ sentLen \in Seq(HostFrameLens) /\ devLen \in Seq(DevFrameLens)
  /\ hostIn \in FrameT
  /\ hostGot \in FrameT \cup {NULL}
  /\ hostLog \in Seq(FrameT)
  /\ resets \in 0..MaxResets
  /\ notifyEp \in [bmRequest : Nat, bRequest : Nat, wValue : Nat, wIndex : Nat, wLength : Nat]
                \cup {NULL}
  /\ hostLink \in {"down", "requested", "up"}

(* Every frame usb_ecm_recv_callback() copies into received_frame, and so  *)
(* hands to ethernet_input(), is byte for byte a frame the host sent: the  *)
(* chunking of DataOut never merges, splits or misplaces frames.           *)
StackGetsWholeFrames ==
  received_frame # NULL => IsFrameOf(received_frame, sentLen)

(* The driver and the main loop implement the abstract receive link: the  *)
(* frames ethernet_input() is handed are whole frames the host sent, each  *)
(* at most once, in the order sent, none longer than ECM_MAX_SEGMENT_SIZE. *)
Link == INSTANCE EcmLink WITH sent <- sentLen, handed <- stackLog

LinkRefined == Link!LinkSpec

(* The driver implements the abstract link in the transmit direction too: *)
(* the frames the host reads off the IN endpoint are whole frames          *)
(* low_level_output() handed to usb_ecm_xmit_packet(), each at most once,  *)
(* in the order handed, none longer than ECM_MAX_SEGMENT_SIZE.             *)
TxLink == INSTANCE EcmLink WITH sent <- devLen, handed <- hostLog,
            HostFrameLens <- DevFrameLens, MaxHostFrames <- MaxDevFrames

TxLinkRefined == TxLink!LinkSpec

(* No chunk the OUT endpoint receives is written past the end of           *)
(* ecm_rx_buffer, wherever DataOut, the callback, SOF, Init or the main    *)
(* loop armed it.                                                          *)
RxWithinBuffer == ~overrun


(* The main loop never calls usb_ecm_recv_renew() after DeInit has         *)
(* cleared registered_pdev.                                                *)
NoRenewWithoutDevice ==
  mainPc = "renew" => renewArgs.pdev

(* Once the driver accepts a frame, can_xmit becomes true again (by DataIn *)
(* or by the SOF watchdog) unless the configuration is torn down.          *)
TxCompletes ==
  (registered_pdev /\ ~can_xmit) ~> (can_xmit \/ ~registered_pdev)

(* A frame the host has started sending is eventually taken in whole by    *)
(* the device, or abandoned by a bus reset: reception never stalls.        *)
RxProgress ==
  (hostOut # NULL) ~> (hostOut = NULL)

=============================================================================
