# TLA+ models of the stm32ecm CDC-ECM drivers

This directory holds TLA+ models of the USB CDC-ECM (Ethernet over USB)
device firmware in `src/`, and the TLC configurations that check them.
`PROJECT.json` lists the components, the runs, the seeded faults (mutants)
that every property of a passing run must catch, the map from each
definition to the source lines it translates, the findings and the hazards.

## The system

A USB host and the STM32 device exchange Ethernet frames of up to 1514 bytes
(`ECM_MAX_SEGMENT_SIZE`). They travel over two bulk endpoints whose packets
hold at most 64 bytes. A frame therefore travels as a run of 64-byte chunks,
and the first chunk shorter than 64 bytes ends it. Nothing on the wire carries
the frame's length. An interrupt endpoint carries notifications, and the
host takes its own MAC address from a string descriptor.

The repository has two builds.

* **Bare-metal lwIP build** (`src/usbd_ecm.c`, `src/main.c`, `src/time.c`).
  * Interrupt context runs the ST USB stack's class callbacks:
    * `USBD_ECM_Init` and `USBD_ECM_DeInit` on configuration and bus reset;
    * `USBD_ECM_Setup` on a class request;
    * `USBD_ECM_DataOut` when an OUT chunk arrives;
    * `USBD_ECM_DataIn` when an IN chunk has been read;
    * `USBD_ECM_SOF` once per 1 ms bus frame.
  * DataOut appends chunks to `ecm_rx_buffer` at `ecm_rx_index`. On a short
    chunk it calls `usb_ecm_recv_callback()`, which copies the frame into a
    pbuf in the single slot `received_frame`.
  * The main loop's `service_traffic()` takes the slot, runs
    `ethernet_input()`, and calls `usb_ecm_recv_renew()` to re-arm reception.
    A renewal refused because the HAL is locked sets
    `OutboundTransferNeedsRenewal`, and SOF retries it.
  * Transmission goes through lwIP's `linkoutput_fn()`: it polls
    `usb_ecm_can_xmit()`, `usb_ecm_xmit_packet()` copies the frame into
    `ecm_tx_buffer`, and `ecm_incoming_attempt()` (from SOF and DataIn) loads
    one chunk at a time while `ecm_tx_busy` is clear. SOF also runs a
    watchdog that clears `ecm_tx_busy` after 32 frames without a DataIn.
  * Setup answers `SET_ETHERNET_PACKET_FILTER` with the NETWORK_CONNECTION
    notification.
  * The main loop also runs `stmr()`, the software timer list of `time.c`
    driven by the SysTick millisecond counter; `linkoutput_fn()` waits with
    `msleep(1)`.
* **FreeRTOS+TCP build** (`src/src/`).
  * `main()` copies DEVICE_ID3 into the MAC, starts USB, builds the MAC from
    DEVICE_ID2 and starts the IP task and the scheduler. The serial-number
    string, which the ECM descriptor names as `iMACAddress`, is DEVICE_ID2
    in hex, so the host's MAC differs from the device's.
  * The IP task's `xNetworkInterfaceInitialise()` creates the EMAC task and
    reports the network up once `USBD_ECM_Init` has run.
  * The driver callbacks work on a per-interface context. DataOut discards
    a frame that grows past 1514 bytes. Reception is handed to the EMAC task
    through `rcvSemaphore`; the task copies the frame out and calls
    `ECM_RenewReceivePacket()`, which only sets the renew flag for SOF.
  * `ECM_TransmitPacket()` submits the whole frame, then blocks on
    `xmitSemaphore` for up to 250 ms. DataIn gives that semaphore.

## Modules

| module | models |
|---|---|
| `EcmChunks` | the chunk arithmetic both drivers share, and the abstract frame data |
| `EcmLink` | the abstract receive link: what any driver promises the stack above it |
| `EcmLwip` | bare-metal driver and lwIP glue (`usbd_ecm.c`, `main.c`), USB peripheral and host |
| `EcmRtos` | FreeRTOS driver (`src/src/usbd_ecm.c`), its EMAC task and output path (`NetworkInterface.c`), USB peripheral and host |
| `SoftTimer` | `time.c`'s SysTick counter, `mtime`, `msleep` and timer list, under the bare-metal main loop |
| `RtosStartup` | start-up of the FreeRTOS build from `Reset_Handler()` and the vector table, the device and configuration descriptors as bytes and the host's parse of them, enumeration up to the host's MAC, the serial string |
| `MCEcmLwip`, `MCEcmRtos`, `MCSoftTimer`, `MCRtosStartup` | model values and definitions for TLC |

### EcmChunks

Chunk k of frame i carries the datum `<<i, k>>`. A buffer is modelled as the
set of extents `[off, len, datum]` that the peripheral has written into it:
`Write` overwrites whatever the new extent overlaps, and `Read` returns the
frame a copy of the first `len` bytes yields. So a merged, split or shifted
frame is visible, and no byte is modelled. `Chunk` is the 64-byte
fragmentation of `ecm_incoming_attempt` and of the host's OUT transfers.

### EcmLink and the refinement

`EcmLink` has two variables: `sent`, the lengths of the frames the host has
sent, and `handed`, the frames handed to the network stack. Its `Hand`
action appends a whole frame sent after the last one handed, and at most
`MaxSegment` long; frames in between are lost (a full slot, no buffer, a
discard, a reset). `EcmLwip` and `EcmRtos` each instantiate it with
`sent <- sentLen, handed <- stackLog` and check `LinkRefined == Link!LinkSpec`
as a PROPERTY: every step of the driver either leaves the abstract state
alone or is a `Send` or a `Hand`.

`EcmLwip` also checks the transmit direction against the same module:
`TxLink` maps `sent` to `devLen` (the frames `linkoutput_fn()` committed)
and `handed` to the ghost `hostLog` (every frame the host finished reading
off the IN endpoint, in order), with the device's frame lengths and bound.
`TxLinkRefined` says more than that the last frame the host read is whole:
a watchdog that resent a stalled frame from its start would hand the host
a frame twice, and the refinement refuses that.

### EcmLwip

**Driver state.** The variables keep the source's names:
`registered_pdev` (as a boolean), `ecm_rx_index`, `can_xmit`,
`OutboundTransferNeedsRenewal`, `ecm_tx_remaining`, `ecm_tx_busy`, and
`received_frame` (NULL or a record of the frame's length and data).

**Environment.**
* `mainPc` is where the main loop is: idle, inside `ethernet_input()`, or
  inside `USBD_LL_PrepareReceive()` holding the HAL lock (`halLocked`);
  `renewArgs` holds what the main loop's renewal read.
* `outEp` is the offset the OUT endpoint is armed at, or `NotArmed`; `inEp`
  is the chunk loaded in the IN endpoint, with its age in bus frames.
* `PMAConfig` is the packet-memory layout of `USBD_ECM_PMAConfig()`. The
  bare-metal build advances the cursor, so the IN and OUT buffers do not
  share bytes (`PmaShared` is false) and `PmaReceive` leaves `inEp` alone;
  the mutant that assigns the cursor instead makes an OUT packet replace the
  IN chunk, and `TxLinkRefined` catches it.
* `notifyEp` is the notification loaded in the interrupt endpoint and
  `hostLink` the host's view of the link.
* The host's progress on the frames it sends (`hostOut`, `sentLen`) and
  receives (`hostIn`, `hostGot`), and the count of bus resets.

**Actions.** Each callback is one action, atomic because interrupts run to
completion; `USB_IRQHandler` (of `stm32f0xx_it.c`) is their disjunction, as
one `HAL_PCD_IRQHandler()` dispatch runs one of them. `USBD_ECM_DataOut` calls `usb_ecm_recv_callback` or the renewal
inside itself, in the code's order; `USBD_ECM_SOF` runs the retry, the
watchdog and `ecm_incoming_attempt` in one step. The main loop's renewal is
two steps, `RenewEnter` and `RenewLeave`, because the HAL lock it holds
between them is what makes an interrupt's renewal fail. lwIP's
`linkoutput_fn()` is three steps (`xmitPc`): it picks a frame length
(`xmitLen`) when `usb_ecm_can_xmit()` allows; `usb_ecm_xmit_packet()` then
tests `registered_pdev` and `can_xmit` and copies the frame with interrupts
enabled; `XmitCommit` is the critical section that queues it and clears
`can_xmit`. A DeInit, SOF or DataIn interrupt can run between the test and
the commit.

**Nondeterminism** stands for what the code does not control: pbuf pool
exhaustion, a DataIn callback the stack never delivers (`DataInLost`), bus
resets, and which class requests the host sends.

**Fairness.** Weak fairness only: SOF is a hardware tick while configured;
the host keeps polling IN and the interrupt endpoint and keeps sending a
frame it has started; the main loop spins. Nothing is assumed about frames
the host or lwIP start, about requests, or about resets.

### EcmRtos

**Driver state.** The fields of `context[0]` are variables with the source's
names: `OutboundTransferPosition`, `OutboundTransferInhibited` (set by
DISCARD), `OutboundTransferNeedsRenewal`, plus `registered_pdev` and the two
semaphores. `OutboundBuffer` is `OutboundBufferSize` =
((1514 + 63) / 4) * 4 = 1576 bytes, as `usbd_ecm.h` computes it.

**Tasks.**
* The EMAC task (`emacPc`) takes `rcvSemaphore` (`EmacTake`), allocates a
  network buffer (`EmacAlloc`, which may fail when `DescriptorsCanRunOut`),
  copies `rcv_length` bytes capped to the descriptor (`EmacCopy`), and calls
  `ECM_RenewReceivePacket()`. Each step is the task's code between two
  blocking points.
* The IP task calls `xNetworkInterfaceOutput()`, which calls
  `ECM_TransmitPacket()`: submit the whole frame, then block on
  `xmitSemaphore` (`XmitTake`) or give up after 250 ms (`XmitTimeout`).
  `released` records the frames whose buffer has been given back.

**Packet memory.** `PMAConfig` is the layout the RTOS `USBD_ECM_PMAConfig()`
computes with its `*pma_address =+ SIZE`. Where the IN and OUT data buffers
overlap (`PmaShared`), an OUT packet replaces the datum of the IN packet
still waiting for the host (`PmaReceive`, part of DataOut).

**Interrupts.** `USB_IRQHandler` (of `NetworkInterface.c`) is the
disjunction of the callbacks one `HAL_PCD_IRQHandler()` dispatch can run.
Its `portYIELD_FROM_ISR()` only lets a woken task run sooner, which the
interleaving of the tasks' actions already allows.

Task-side HAL calls run inside critical sections, so no renewal fails
because of the HAL lock. The model starts with the EMAC task's first
`ECM_RenewReceivePacket()` done; the start-up before it is `RtosStartup`'s.

**Fairness.** Weak fairness for SOF, DataOut, DataIn, the IN packet
completion, the EMAC task's steps and the IP task's wake-up. The EMAC task
is created at `configMAX_PRIORITIES - 1`, the highest priority, and blocks
only on `rcvSemaphore`; the IP task blocks in `ECM_TransmitPacket()` only on
`xmitSemaphore` with a 250 ms timeout. Neither can be kept from running for
ever once it is ready.

`ECM_ReceivePacket()` gives `rcvSemaphore` with the task-level
`xSemaphoreGive()` from inside the USB interrupt; the model takes the give
as one atomic step and lets the EMAC task run at any later step, and the
kernel's behaviour under that misuse is FreeRTOS's (a hazard in
`PROJECT.json`).

### SoftTimer

The state is `time.c`'s: `msAddition`, the timer list `stmrs` and each
timer's `event` stamp, with `mainPc` for where the main loop is (start-up,
`service_traffic()`, inside `msleep()`, or one of `stmr()`'s steps: begin,
scan, run the timer, re-stamp it). `SysTick_Handler` may fire between any
two steps. Subtraction and addition are modulo `2^TimeWidth`, as the code's
`uint32_t` arithmetic is modulo 2^32. Ghost counters `sinceEvent` and
`sinceSleep` hold the real time since each stamp, saturated at the counter's
range, so an elapsed time computed with wrap-around can be compared with the
time that really passed.

**Bounds.** `TimeWidth = 3` (an 8 ms counter) lets the counter wrap many
times within short behaviours; what the code's wrap-around handling
depends on is a period and a sleep shorter than the counter's range, as with
32 bits. `LoopBound = 2`
limits SysTicks between two main-loop steps outside `msleep()`, which keeps
the state space finite; inside `msleep()` ticks are limited only by the
sleep's own length. One timer (`tcp_timer`, period 3) and `msleep(1)` are
what the program uses.

**Fairness.** Weak fairness for every action: SysTick is a hardware
interrupt, and the main loop never blocks outside `msleep()`.

**Timer list.** `stmrs` is the order of the list. The pointer operations of
`stmr_init()`, `stmr_add()` and `stmr_free()` are operators over a record of
a head and a `next` function on `ListNodes` (with `NULL`):
`StmrAddLinks` pushes at the head, `StmrFree` handles the empty list and the
head and then walks the list with `StmrFreeWalk` (RECURSIVE), unlinking the
timer and clearing its `next`. `StmrListOpsCorrect` checks them, for every
list of up to three distinct timers and every timer, against the sequence
they stand for: freeing removes exactly that timer and keeps the others'
order, and adding a timer not yet in the list puts it first.

### RtosStartup

**State.** `main()`'s progress (`mainPc`), the IP task (`ipPc`: first
initialisation, retries, up), the EMAC task (`emacPc`), the semaphores
(`NoSem` while a handle is still NULL), `network_active`, the MAC arrays
(`ucMACAddress` and the IP stack's copy `ipMac`), the host (`hostPc`, the
string it read `strDesc`, the MAC it derived `hostMac`) and time since
attach (`sinceAttach`).

**Data.** The DEVICE_ID2 bytes range over `MCIdBytes = {0, 9, 10, 159,
255}`, which hit both sides of the 9/A digit boundary and both nibbles'
extremes; 625 parts in all. A `uint32_t` is held as its eight nibbles, most
significant first, because TLC's integers stop at 2^31: `IntToUnicode`'s
`value >> 28` is the head and `value << 4` the tail with a zero appended.

**Reset.** `Reset_Handler` runs first: RAM at power-on, or after a reset,
holds arbitrary values, so `Init` lets `registered_pdev`, `network_active`,
`xEMACTaskHandle` (`emacPc = "stale"`) and `rcvSemaphore` (`JunkSem`) start
with any value; the bss loop zeroes those that `BssOrder` places in `.bss`.
The USB interrupt reaches the driver only through `vectors[16 + USB_IRQn]`
(`UsbIrqServiced`), which guards every interrupt-side action.

**Descriptors.** The device and configuration descriptors are byte
sequences. `Descriptor` builds one struct of `usbhelper.h`: its members are
all `uint8_t`-derived, so there is no padding and `sizeof()` (the bLength)
is the count of the bytes. `ECM_DESCRIPTOR` lays out `struct ecm_interface`,
`USBD_ECM_CfgFSDesc` puts `NUM_OF_ECM` of them after the configuration
descriptor, with `wTotalLength` = `sizeof()` of the whole. The host
(`HostEcmFunctions`, a host parser and not code of this repository) splits
the bytes by bLength, checks `wTotalLength`, `bNumInterfaces` and every
`bNumEndpoints`, and finds each ECM function: its notification endpoint, the
data interface its union descriptor names with that interface's bulk
endpoints, and its Ethernet descriptor's `iMACAddress` and `wMaxSegmentSize`.
It rejects the device when any of this fails. Otherwise it asks for the
`iMACAddress` string. `StringDescriptor` is the core's dispatch through
`VCP_Desc` to the manufacturer, product or serial string (`USBD_GetString`
of the ST core turns ASCII into a UNICODE descriptor). `parameters` is the
driver's endpoint table; `USBD_ECM_DataOut` takes the host's frames only on
an endpoint it dispatches on (`DataOutDispatched`). `USBD_MAX_NUM_INTERFACES`
(2) and `USBD_MAX_NUM_CONFIGURATION` (1) come from `usbd_conf.h`, which is
not in the repository, so they are constants of the configuration.

**Timing.** The host needs `EnumMs` after attach before it can read
descriptors (100 ms debounce and a reset in USB), while the device's own
start-up steps are CPU-bound and finish within `StartMs`; `EnumMs = 2`,
`StartMs = 1` keep that order. `Tick` is disabled while a start-up step is
pending and the deadline has passed.

**Fairness.** Weak fairness for every device step (`Reset_Handler`
included), the host's descriptor read and time.

## Runs

| run | properties | states | what it shows |
|---|---|---|---|
| `lwip_core` | `TypeOK`, `TxCompletes`, `TxLinkRefined` | 231,731 | with one bus reset, lost DataIn callbacks and pbuf exhaustion, transmission always becomes possible again, and the transmit path refines `EcmLink`: the host reads whole frames the stack sent, at most once, in order |
| `lwip_rx_clean` | `RxWithinBuffer`, `RxProgress`, `LinkRefined` | 54,541 | frames of 10, 64 and 1514 bytes stay inside `ecm_rx_buffer`, reception keeps being re-armed, and the receive path refines `EcmLink` |
| `rtos_rx_clean` | `TypeOK`, `BufferSingleOwner`, `LinkRefined`, `RxWithinBuffer` | 330,874 | without resets `OutboundBuffer` has one owner at a time, DISCARD and the 62 spare bytes keep a 1600-byte stream inside it, and the path refines `EcmLink` for frames of 10, 64 and 1514 bytes and a dropped 1600-byte one; frames of 1515 to 1535 bytes, which it would deliver, are not sent |
| `rtos_core` | `RxProgress` | 219,684 | with a reset, transmission and descriptor exhaustion, reception always resumes |
| `soft_timer` | `TypeOK`, `TimerNotEarly`, `StmrListOpsCorrect`, `SleepNotShort`, `TimersKeepRunning` | 7,502 | across many wraps of `msAddition`, `stmr()` never runs `tcp_timer` early and keeps running it, `msleep(1)` never returns early, and the list operations do to the links what they do to the sequence |
| `rtos_startup` | `TypeOK`, `SerialIsMacString`, `MacsDistinct`, `NoGiveBeforeCreate`, `NetworkUpOnlyConfigured`, `HostAgreesWithDriver`, `NetworkComesUp`, `HostGetsMac` | 172,500 | from power-on with arbitrary RAM, for 625 parts: the host reads a 12-hex-digit MAC string, the two MACs are distinct locally administered addresses, no frame gives `rcvSemaphore` before it exists, the IP task sees the network up only once configured, the endpoints and sizes the host parses from the descriptor bytes are those the driver serves, and the network comes up and the host gets its MAC (through the USB vector) |

`rtos_startup` sets `CHECK_DEADLOCK FALSE`: the model stops once the host has
sent its frames, where `EcmRtos` takes over.

Violation runs. Each checks one property and shows a defect of the code:

| run | property | what TLC finds |
|---|---|---|
| `lwip_rx_pbuf_overrun` | `RxWithinBuffer` | a failed `pbuf_alloc()` renews at the old `ecm_rx_index` (main.c:85 before usbd_ecm.c:206), and the next frame runs off the buffer |
| `lwip_rx_reset_stale_index` | `StackGetsWholeFrames` | a reset mid-frame: Init re-arms at the stale index, and the stack gets a merged frame |
| `rtos_rx_discard_stall` | `RxProgress` | after a DISCARDed stream ends, the flag and inhibit logic never re-arms the endpoint |
| `rtos_reset_torn_copy` | `StackGetsWholeFrames` | a reset while the EMAC task copies: Init re-arms `OutboundBuffer`, and the copy picks up the next frame's first chunk |
| `rtos_pma_overlap` | `HostGetsWholeFrames` | `*pma_address =+ 64` gives every endpoint offset 64; an OUT packet replaces the IN packet waiting for the host |
| `rtos_tx_release` | `TxBufferHeld` | `xmitSemaphore` starts given, so `ECM_TransmitPacket()` returns before DataIn and the buffer is released while the peripheral still reads it |

**Bounds.** Chunks are 64 bytes and frames at most 1514, as in the code, so
a 1514-byte frame is 24 chunks and the buffer bounds are exact. The
watchdog limit of 32 frames is scaled to `StallLimit = 4`, with the host's
read latency `HostLatency = 2` below it; only their order matters. One to
three frames each way and one reset suffice: each hazard involves one frame,
the frame after it, and a reset between.

## Defects recorded as hazards

These were found while modelling; the twelve runs are all in use, so they
are listed in `PROJECT.json` as hazards with a note rather than given runs.
* A bus reset while `ethernet_input()` runs makes the bare-metal main loop
  renew with a NULL handle after DeInit (`NoRenewWithoutDevice` in
  `EcmLwip`). It can stall reception for good: in `lwip_core`'s
  configuration TLC violates `RxProgress` in ten steps. A frame is handed
  to `ethernet_input()`, DeInit runs, the main loop's renewal reads the
  NULL handle and takes the HAL lock, Init's own renewal is refused because
  of the lock, and `USBD_ECM_Init()` then clears
  `OutboundTransferNeedsRenewal` (`usbd_ecm.c:123`). SOF never retries,
  and the OUT endpoint stays unarmed while the host waits to send.
* The bare-metal DataOut has no DISCARD: a stream longer than 1514 bytes
  overruns `ecm_rx_buffer`.
* The bare-metal IN side sends no zero-length packet after a frame that is
  a multiple of 64 bytes.
* The RTOS DISCARD test is `> ECM_MAX_SEGMENT_SIZE` on the position before
  the chunk is counted, so frames of 1515 to 1535 bytes are delivered.
* The RTOS `ECM_TransmitPacket()` tests `registered_pdev` outside its
  critical section and uses it inside; a DeInit in between transmits through
  NULL.
* `service_traffic()` calls `pbuf_free()` on a frame `ethernet_input()` has
  already taken over: a double free.
* `vSemaphoreCreateBinary()` creates `rcvSemaphore` given, so the EMAC task's
  first take hands a frame of `rcv_length` 0 to the IP task.
* The RTOS `USBD_ECM_Setup()` sends no NETWORK_CONNECTION notification, which
  the specification has sent once per relevant Setup event.

## Not modelled

* `stmr_stop` and `stmr_run` of `time.c`: they use `STMR_ACTIVE` and the
  timer struct of `time.h`, which is not in the repository, and the program
  never calls them. (`stmr_init` and `stmr_free` are modelled as list
  operators though the program never calls them either.)
* The LangID, configuration and interface strings: constant answers the
  host does not act on. `src/ecmhelper.h`: no file of the repository
  instantiates it (the bare-metal build's `usbd_desc.c` is not included).
* `parameters[1].notify_itf` is 0x01 while the second `ECM_DESCRIPTOR()`
  gives its notify interface number 0x02. The field is never read, and
  `NUM_OF_ECM` is 1, so nothing goes wrong today. `HostAgreesWithDriver`
  compares only the fields the driver uses.
* `SystemInit()` and the `.data` copy of `Reset_Handler` (none of the
  modelled globals has an initialiser); the other handlers of
  `stm32f0xx_it.c` (NMI, SVC and PendSV are empty, HardFault spins, its
  SysTick is compiled out), clock and HAL set-up.
* lwIP, FreeRTOS+TCP and the DHCP, DNS and HTTP servers with their CGI and
  SSI handlers: external collaborators (`ctl_cgi_handler()` dereferences
  `values[i]`, which lwIP's httpd passes as NULL for a parameter without
  `=`); the drivers' models stop at
  `ethernet_input()` and the network buffer descriptors.
* `USBD_ECM_EP0_RxReady`, `GetFSCfgDesc` and `RegisterInterface` of the
  bare-metal build return without changing state.
