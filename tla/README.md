# STM32F407-control: TLA+ models and proofs

The firmware runs without an operating system on an STM32F407.  One main loop
serves requests, drives the ADC and runs the TCP/IP stack; interrupts serve two
USB device ports (virtual COM ports), a button and a millisecond clock.  Users
send one-letter commands over USB or TCP; answers and echoes go out over USB
and TCP.

This directory holds TLA+ modules of the parts of it that have state of their
own, TLC configurations that check them, and proofs that TLAPS checks.

The build modelled is the one of the Makefile: `USE_ETH`, `USEAD7794`, `USBPA`,
`USBPB`, `SEPARATE_USB_BUF`, `EBUG`, `-Os`; `USE_DHCP` is undefined, the USB cores
run in slave mode and `VBUS_SENSING_ENABLED` is set.  With `SEPARATE_USB_BUF` the
handle of each USB port has its own receive buffer, output ring with indices and
`USB_Tx_State`, and `CmdBuff` (`usb_core.h:272-299`, `432-440`); the globals of
these names in `usbd_cdc_core.c:163-191` are not compiled.  What the two ports
still share are `cdcCmd` and `cdcLen`, `linecoding`, `FrameCount`, `USB_active`
and `outp_active`.

## 1. Inventory

| Component | State | Operations | Talks to |
|---|---|---|---|
| main loop (`main.c`) | `FLAG`, `eth_on`, `ad7794_on` | one pass: tests and serves the requests, runs lwIP, LED | all the others, by calls; the USB interrupt through `FLAG` |
| command parser (`user_protocol.c`) | none of its own | `parce_incoming_buf`: sets bits of `FLAG`, changes `LED_delay`, resets the chip, echoes | called in the USB interrupt (`VCP_DataRx`) and in the main loop (`tcp_echoserver_send`) |
| LED delay | `LED_delay` | two commands, button interrupt | three contexts of three priorities |
| USB ports (`usbd_core.c`, `usbd_req.c`, `usbd_cdc_vcp.c`) | `device_status`, `device_config`, `USB_active`, `outp_active` | bus reset, suspend, resume, session end, SET_ADDRESS, SET_CONFIGURATION, SET_CONTROL_LINE_STATE | host; the output path reads `USB_active` |
| USB output (`usbd_cdc_vcp.c`, `usbd_cdc_core.c`, `usb_dcd_int.c`) | per port ring `APP_Rx_*`, `USB_Tx_State`, IN endpoint; `FrameCount` of both | `USB_Send_Data`, SOF, FIFO empty, DataIn | callers in the main loop and in the interrupt; host |
| ADC driver (`AD7794.c`) | `data_error`, `ADC_gain` | set-up, read, reset, gain | main loop; SPI |
| SPI (`hw_config.c`, `interrupts.c`) | `SPI_EOT_FLAG`, buffers | `write_SPI`, `read_SPI`, DMA interrupt | ADC driver; `LocalTime` |
| USB endpoint 0 (`usbd_req.c`, `usbd_ioreq.c`, `usbd_core.c`, `usbd_cdc_core.c`) | `cdcCmd`, `linecoding`; per port `CmdBuff` and the lengths of the data stage | SETUP, data and status stages; class requests, GET_DESCRIPTOR | host; both ports share the command and the coding |
| USB input (`usbd_cdc_core.c`, `usb_dcd_int.c`) | per port `USB_Rx_Buffer`, the OUT endpoint | packet copied, DataOut | host; command parser |
| Ethernet driver (`ethernetif.c`, `stm32f4x7_eth.c`) | two descriptor rings | `low_level_input`, `low_level_output`, `ETH_CheckFrameReceived`, `ETH_Prepare_Transmit_Descriptors` | the DMA of the MAC; lwIP |
| Ethernet bring-up (`hw_config.c`, `netconf.c`) | `EthInitStatus`, netif, MAC | `ETH_BSP_Config`, `LwIP_Init` | main loop, wake-up interrupt |
| TCP echo server (`tcp_echoserver.c`) | per connection: state, pbuf queue | accept, recv, sent, poll, error, close | lwIP callbacks; command parser |
| clock (`interrupts.c`) | `LocalTime` | SysTick | LED, `Delay`, `write_SPI`, lwIP timers |
| DHCP hook (`netconf.c`) | `DHCP_state` | not compiled | lwIP |

Not modelled, and why: lwIP beyond the counts of pbufs and the callbacks, the
register access of the ST library and CMSIS (third-party); stalls, features and
status requests of endpoint 0 (no state the rest reads) and the register level
of the OTG core (its effect is the environment of the USB modules); pins, clocks
and other set-up that is written once; `Delay()`, which nothing calls; the DHCP
hook, which is not compiled; the terminal program for the PC, a single loop of
its own; the schematics.

What is hard here is that nothing is locked.  The priorities are: main loop, then
the USB and SysTick interrupts (which do not interrupt each other), then the button
and the wake-up interrupt.  Every `x |= b`, `x ^= b`, `x -= 50` and `buf[i++] = c`
of a lower context is a load and a store with room for a higher context in between.
Further: a DMA that runs beside the main loop, buffers that are filled in one
interrupt and read in a later one, a few statics shared by the two USB ports
(above), busy waits without a bound, a clock that wraps, bus events in unusual
orders, reference counts of received frames that several callbacks hand on, and one
step of several failing.  `PROJECT.json` lists each hazard at its line.

## 2. The modules

A load and a store of a shared variable are separate actions in the context
that can be interrupted, and one action in the context that cannot.

**MainLoop** (`MainLoopMC`, `MainLoopProofs`) - `main()`, `ETH_LWIP_init`,
`ADC_init`, and both ways in which `parce_incoming_buf` sets bits of `FLAG`. `stage`
and `cur` are the program counter: `check` is `if(FLAG & X)`, `load` and `store` are
the two halves of `FLAG ^= X`, `serve` is the body, `net` is the TCP stack, whose
`FLAG |= X` is `orLoad`, `orStore`.  `Interrupt` may happen between any two of them.
What a hardware call does is one of `ok`, `fail`, `hang` (a busy wait that never
ends); `Hung` is the state after the last.  `asked`, `netifs`, `macRunning` and
`chipReady` are history: what was requested, how often `netif_add` ran, whether the
MAC was started after its last reset, whether the ADC holds a set-up; so is `due`,
the requests that were in `FLAG` when the pass began.  `ETH_LWIP_init` succeeds or
reports no PHY; it has no failure after `netif_add`, for which the comment on it
gives the reason.  A wake-up whose MAC reset hangs stops everything at once and is
left out.

**LedDelay** (`Commands`, `CommandsProofs`) - the three writers of `LED_delay`, with
their priorities. `deepest` is history: how many contexts have been nested.

**UsbInput** (`Commands`, `CommandsProofs`) - commands over USB.  A packet is
copied into the `USB_Rx_Buffer` of its port in one pass of the interrupt handler
(`RxStored`) and parsed in a later one (`DataOut`), which also arms the endpoint
again, if the port is configured.  A shorter packet leaves the rest of a longer one
in the buffer.  `missed` is history: whether the parsing fell into a suspend.

**UsbPorts** (`UsbDevice`, `UsbDeviceProofs`) - one action per bus event or request; `host`
and `dtr` are the hosts' side.  `HostMay` adds bus resets of configured ports,
suspending, and the wake-up interrupt, which initialises both cores afresh.  A
host sends no request to a port that is suspended.  `plain` is history: whether
anything beyond plugging, configuring and unplugging has happened.

**ControlPipe** (`UsbDevice`, `UsbDeviceProofs`) - the class requests with data,
over the one `cdcCmd` and `linecoding` of both ports and the `CmdBuff` of each.  A request is a
SETUP packet, the data, and the end of the stage, each in a pass of its own;
`Begins` lets a host drop a request by the next SETUP, `Left` by leaving, and
neither clears anything, as in the code.  SET_COMM_FEATURE stands for the
requests whose data `VCP_Ctrl` ignores.  `alone` is history: since this
port's SETUP no other port has begun or ended a request with data from its host.

**DataStage** (`UsbDevice`) - GET_DESCRIPTOR: the device with its counters, the
core with one packet at a time, and a host that knows `wLength` and the length
of each packet.  `Described` is the cut of the device descriptor to 8 bytes for a
host in the default state or one that asks for 64; `offered` is history: what there
was for the host.

**FramePacing** (`UsbDevice`) - which port's frame finds the shared `FrameCount`
full, so that its ring is served.

**CdcRing** (`CdcRingMC`, `CdcRingProofs`) - the ring of one port and its endpoint.
`MainLoad`, `MainPut`, `MainStore` are one `USB_Send_Data` of the main loop as
the build compiles it; `IsrSend` is one of the interrupt.  `SOF` includes
`Handle_USBAsynchXfer`.  In slave mode the endpoint reads the window only when
the FIFO-empty interrupt comes, hence `WriteEmptyTxFifo`.  `OtherSOF` is a frame of
the other port: it takes part in the count and looks at its own ring.  The port is
attached to a running bus; whether its host polls it is left open (nothing
forces `DataIn`) except under `FairSpec`.

**ByteStream** - what `CdcRing` promises: a bounded FIFO of bytes that leaves in
packets.  The refinement mapping computes the queue from the code's own
variables: the window that is armed and not yet in the FIFO, then the ring from
`ptr_out` to `ptr_in`.

**Echo** - what the TCP server promises a client: every byte back once, in
order, then the close.  It does not promise a close that TCP refuses: the server
removes its callbacks first and never tries again (`left`).

**EchoServer** (`EchoServerProofs`) - the lwIP callbacks of one connection after
the other.  lwIP runs in the main loop and makes one callback at a time, so each
is one action; the loop of `tcp_echoserver_send` takes a step per pbuf, and
`sending` keeps other callbacks out until it ends.  `p` is the chain `es->p` with
the payload and the reference count of each pbuf; `AddRef`, `Free` and `Chained`
are `pbuf_ref`, `pbuf_free` and `pbuf_chain` of the lwIP in the tree, and
`leaked` counts the pbufs that nothing points to any more.  Window, send buffer
and segments are counted in pbufs, so a pbuf fits into the send buffer or the
buffer is full.  The send queue running out before the buffer is one of the
failures of `tcp_write`.  `spoiled` is history: whether a segment was chained
behind another one or a connection was reset with data queued.  Branches that
lwIP 1.3.2 never takes are left out: data with an error, data after the peer's
close, a poll without an es; so is the accept that finds no memory, after which
lwIP aborts the connection.  What a command does is `MainLoop`'s part.

**EchoParser** - extends `EchoServer`'s steps by how often each pbuf of the
chain has been parsed (`times`).  `stood` and `clean` are history: the place of
a pbuf when it arrived, and whether a write has failed.

**EthRx**, **EthTx** (`EthRings`, `EthProofs`) - the two rings of Ethernet DMA
descriptors.  The driver's functions are cut where the DMA can come in between:
per segment taken by `ETH_CheckFrameReceived`, per descriptor released, between
the copy into a transmit buffer (before anybody looks at `OWN`), the hand-over
and the poll demand.  What the DMA does is the environment (external in the map).
`RxReset`, `TxReset` are the reset of the MAC by `ETH_RESET` or the wake-up,
after which `ETH_Start` is not called again.  In the build a buffer takes a whole
frame; `Pieces` lets frames take several, so that the driver's code for segments
runs.

**FrameQueue** - what both rings promise: frames leave in the order in which
they came.  Reception may drop the oldest frame for want of memory, and may tear
one of several buffers; a frame that finds the transmit ring full takes the
place of the oldest or spoils it, although lwIP is told it was sent.

**Ad7794** (`Commands`, `Ad7794Proofs`) - the driver's sequences of transfers and its error
convention, over what `write_SPI` and `read_SPI` are documented to answer.
`SendMode` is the one write of `setup_AD7794` without a `check_err`: after a failed
one the loop is entered with `data_error` set, makes one more transfer and ends by
the stale error (`PollStale`), which the check behind the loop reports.

**SpiDma** (also in `Timers`) - `write_SPI` as it is written, with the flag, the deadline and the
clock.  Its result (no write is ever accepted) instantiates `WriteMay` of
`Ad7794` with `{FALSE}`, hence `AdcResults` of `MainLoop` with `{"fail"}`: in
this build the ADC cannot be switched on.  `Ad7794` and `MainLoop` are checked
for every answer, as they would run over an SPI that works.

**Timers** (`TimersMC`, `TimersProofs`) - the passes of the main loop against
`LocalTime`: the LED test, `LwIP_Periodic_Handle`, and the calls of `write_SPI`
with the DMA interrupt, all over the one clock of `SpiDma` that wraps.  `MaxPass`
is the length of a pass in ticks, a pass that hangs aside.  `ledAge`, `ledDelay`,
`over`, `frozen`, `netAge` and `set` are history: the true times, which do not
wrap, and on which side of a wrap the LED waits.

**UsbDevice**, **Commands**, **EthRings** only put parts that share no state side
by side for TLC: the initial states choose which part is `watched`, so that the
state spaces add up instead of multiplying.  The proofs are about the parts.

## 3. What the runs check

| Run | Question | Bounds |
|---|---|---|
| `mainloop` | can a request be served that nobody made, the ADC be read without set-up, the netif be added twice, the MAC come back; is what is in `FLAG` at the top of a pass served before that pass ends; does the loop go on, unless a call hangs | every outcome of the calls; 1 command per pass of the TCP stack |
| `commands` | how far does the delay leave its range, by depth of nesting; are the commands of a packet its own, does a port stop listening; are errors of the ADC reported by the call that had them, does each call return | step 3, top 9, 4-bit counter; 3 does not divide 16, as 50 does not divide 2^16; two ports, packets of 0 to 2 characters; any transfer fails or not, four conversions, with both lowest bits and 0 |
| `ring_safety` | do the windows stay in the buffer, does `USB_Tx_State` agree with the endpoint, what does a lost transfer leave | ring of 5, packets of 2, frames of another port, both writers, no pacing |
| `ring_stream` | is the path a FIFO that delivers | ring of 4, packets of 2, two byte values, one port, one writer, paced |
| `ring_two_writers` | the same with the interrupt writing: violated | as above |
| `ports_any_bus` | is slot 0 the first one under any bus event; under plain plugging, do list and terminal flags match what the hosts did; does a class request do what it says, is a descriptor sent whole to an end both sides see, whom do frames serve | two ports (all there are); two codings; packets of 3, descriptors of 1 to 7, `wLength` of 1 to 8, a device descriptor of 2 that is cut to 1 for a `wLength` of 3; interval 5 as built |
| `ports_bus_reset` | is an unplugged port off the list: violated | two ports |
| `timers` | are the LED and the lwIP timers on time across the wrap | timeout 3, 4-bit clock, so that deadlines wrap; delays 3 and 5, interval 4, passes of up to 2 ticks |
| `spi_documented` | does `write_SPI` answer what its comment says: violated | timeout 3, 4-bit clock |
| `eth_rings` | do frames pass the rings in order and whole, what does a full ring spoil, does a suspended DMA go on | 4 receive descriptors, frames of 1 and 3 buffers; 3 transmit descriptors, two frames |
| `echo_server` | does every byte come back once and in order, and then the close; are the counts, the window and the pool right; how often is a command carried out | pool of 4, window of 3, segments of 1 or 2, send buffer of 2, two byte values |
| `echo_freed` | is every pbuf freed that was sent: violated | the same |

The bounds are enough because the modules compare, they do not count: the ring is
larger than a packet and no multiple of it, so that a window is cut at the end of
the buffer and rest packets occur; two ports are all the hardware has; one TCP
command per pass suffices to interleave with the bits that the interrupt sets at any
time; the narrow counters wrap within a run.  A send buffer smaller than the window
lets the chain of the echo server grow behind a full buffer by a second segment, and
a pool one larger than the window lets it run dry by what was lost, while
connections come and go without bound.  A frame of three buffers in a ring of four
begins at every descriptor, wraps and is cut off; descriptors of every length around
one and two packets meet a `wLength` below, at and above them.  One port's ring is
enough because the other port's reaches it only by the frame count.  (`lwipopts.h`
has a pool of 30 pbufs of 500 bytes, segments of 1460 and a window and a send buffer
of 2920.)

The type invariants of `EchoServer`, `MainLoop`, `CdcRing`, `Ad7794`, `SpiDma`,
`Timers`, `LedDelay`, `UsbInput`, `EthRx` and `EthTx` are in no run: they are proved
for every value of the constants (section 4; that of `UsbInput` as part of `InputInv`).
`DeviceTypeOK` is checked and
proved.  `RegisterBehind` and
`NothingStranded` are parts of the inductive invariants and proved as well.

What is *not* true and therefore not stated: that every request is served.  A
bit that the interrupt sets between the load and the store of the main loop is
overwritten.  `FlagWasAsked` and `NoSpuriousService` say that
this is the only thing that goes wrong: bits get lost, none is invented, and
`PassServes` that a bit which is there when a pass starts has been served when that
pass ends (those of the ADC if it is on).

### Findings

1. `ring_two_writers`: the echo of the USB interrupt and a write of the main
   loop lose bytes for which `USB_Send_Data` returned `USBD_OK`; the index may
   even fall behind the reader.
2. `ports_bus_reset`: a configured port that is reset and configured again is
   listed twice and stays listed after it was unplugged.
3. `spi_documented`: `write_SPI` tests its flag the wrong way round: it returns 0, the
   error, when the previous transmission has ended, and goes on when the wait for it
   timed out, contrary to the comment on it.  The flag is 1 from the start and is
   cleared only behind that test, so every write is refused (`WritesAreRefused`) and
   the ADC stays off in this build.
4. `echo_freed`: a segment that `pbuf_chain` appends keeps a reference that nobody
   gives back.  Each time it happens the pool of 30 pbufs that all reception uses
   loses some, and once it is empty the board hears nothing more.

Behaviour of the code that the properties bound, without calling it right:

- Every entry of the loop of `tcp_echoserver_send` parses the whole chain from its
  head, so a command in a later pbuf is carried out as often as its pbuf stood
  back in the chain (`CommandsRepeat`), and more often after a failed write.
- With frames of two USB ports that alternate, only one of them has its ring served
  until the frames slip by one (`SameServed`); what is written to the other one waits
  in its ring and is overwritten there.
- A transfer lost to a bus reset or a DeInit silences its port for good
  (`LostXferIsForever`); the other port goes on.
- Requests with data of two USB ports that overlap on endpoint 0 lose a setting, or
  take the data of another command of the same port for one (`CodingIsShared`); a
  suspend between copying and parsing leaves a port deaf, and nothing else does
  (`NotDeaf`).
- `setup_AD7794` does not check its write of the mode: if it fails the driver polls a
  chip that was told nothing, once (`CallReturns`, `ZeroIsError`).
- The LED stands still for 49.7 days if the clock wraps behind the time it waits
  for, and flickers in every pass while that time lies behind a wrap to come.
- A frame that finds the transmit ring full destroys the oldest waiting one
  (`OthersIntact`).

Known limits that no property states.  `tcp_echoserver_error` frees the es and
loses its chain (`PoolIntact` excludes this).  A standard request to an interface
answers with a stall and a status, some requests in the addressed state get no
answer, and a GET_DESCRIPTOR with a `wLength` of 0 none either: `DataStage`
has no such requests.  What `prnt` and `printInt` format is not modelled.

### Fairness

`MainLoop!FairSpec`: weak fairness of the main loop's steps, since the processor
returns to it after every interrupt; the liveness properties end with `Hung`, as
nothing bounds the waits in its calls.
`CdcRing!FairSpec`: a running bus has a frame per millisecond, the FIFO-empty
interrupt stays pending until served, a host with the port open polls.
`Commands!CommandsSpec`: for the ADC, the driver goes on, and a chip polled again
and again gets ready or errs some time (weak: the answer stays possible as long as
the loop polls); the code does not bound that loop.
`EchoServer!FairSpec`: the loop of a callback ends and lwIP's timer polls (weak);
a peer that is connected acknowledges, and its acknowledgement is processed
between two callbacks even if other callbacks come in between (strong: lwIP
handles each frame when it comes); `tcp_write` does not fail for ever (strong:
its memory comes back with acknowledgements).  A connection that ends needs none
of these.
`UsbDevice!DeviceSpec`: for the data stage, the host polls and the core
interrupts (weak).
`EthRings!FairSpec`: the main loop goes on (`RxPoll`, `Transmit`), and the
transmit DMA with a connected cable (`TxDma`); no frame has to arrive, so that
`RxResumes` cannot rest on one.
The other modules have safety properties only.

## 4. What is proved

For every value of the constants, from the named assumptions in the modules:

* `MainLoopProofs` - `TypeCorrect`, `FlagIsSound`, `RegisterStaysBehind`, `NetifAddedOnce`,
  `ReadsAreOfConfiguredChip`, `ServiceWasAsked`, `PassServesAll`.  `FlagWasAsked` alone is not
  inductive: the store of a stale register could set a bit that was served.
  The invariant `IInv` adds that the register is a subset of `FLAG` while it is
  held (`RegisterBehind`: only the main loop clears bits, and it is the one that
  holds the register), and that a pending read keeps `ad7794_on` and with it the
  set-up of the chip (`AdcInv`).  `ResetMacStaysDown` (`ResetEthStaysDown`)
  needs no invariant: of all steps only `ETH_LWIP_init` starts the MAC, and it does
  nothing with `eth_on` set.  `PassServesAll` (`PassServes`) by `DueInv`: what is left of the
  requests of this pass is still in `FLAG` and in a register that is about to be stored,
  and its turn is still to come.
* `CdcRingProofs` - `RingTypeCorrect`, `WindowsAreSafe`, `TxStateAgrees`, `LostIsForever`, for
  every ring and packet size, unpaced writers, lost transfers, with another port or without.
  The invariant adds the ranges of the indices; `ContiguousFits` and
  `GiveKeepsWindows` carry the arithmetic: a piece that lies in the buffer is
  cut into a packet and a rest that do.  `NoByteIsLost` (`LosesNoByte`: every step is
  one of `ByteStream` or a stutter) is the other side of the run `ring_two_writers`,
  with three hypotheses: the writers wait for room (`Paced`), the bus loses no
  transfer (`~LosesXfers`), and main loop and interrupts do not both write.  The
  first and third are what the code leaves to its callers, the second to its host;
  the run shows that the third cannot be dropped.  The invariant `StreamInv` says
  that `ptr_in` has not come round to what waits or is being sent (`Unlapped`), that the
  FIFO is filled from the one transfer (`FifoIsLoaded`), and that a write past its
  wait still has its index and room for its byte (`WriteHasRoom`: an interrupt in
  between only makes more room, unless it writes too).  What `ByteStream` calls
  pending is then read off the ring from the first byte not delivered on (`Pended`).
* `UsbDeviceProofs` - `FirstSlotFirst`, by two lemmas on the list operations;
  `PortsTypeCorrect`, `ListIsRight` and `TerminalIsRight` by `PortsInv`, which adds
  that under plain plugging the status of a port tells how far its host is:
  without it SET_CONFIGURATION could find a port configured that its host had
  not configured, and register it twice or not at all.  `CodingIsRight` (`SettingIsApplied`
  and `AnswerIsRight`) by `CtlInv`: while a request is not overlapped (`Undisturbed`), the
  pending command is its own; once its data have come, the `CmdBuff` of a
  port holds what its host sent in any case, so that even an overlapped request applies
  no data of another port.
  `AnswerIsWhole` (`WholeAnswer`) for every packet size and any lengths of descriptors, the device
  descriptor cut or not: `StageInv`
  has the lengths of the control transfer, the transfer of endpoint 0 and what the
  host has got agree in each of three situations: a packet is offered (`Sending`),
  taken and not yet answered by `DataIn` (`Sent`), or the stage is over (`Done`); the
  last packet is short or empty exactly where the answer ends.  `DeviceTypeCorrect` (`DeviceTypeOK`)
  puts the type invariants of the parts together by `DeviceIsItsParts`: a step of
  the device is a step of each part or leaves it alone.  `SamePortServed`
  (`SameServed`) by `FrameInv`: `FrameCount` is even
  exactly when the port served last is the one whose frame came last, as long as
  the frames alternate.  `FrameAssumption` has it that there are two ports and that the
  interval is odd, as in the firmware; of an even one the statement is false.
* `CommandsProofs` - `DelayTypeCorrect` and `DelayRange`.  `DelayInv` tells two kinds
  of contexts apart: one on top of another, or alone so far, still has the value
  that it tested (`Uninterrupted`); one below may find another value, but one that
  a whole command left in the range (`Interrupted`), which a further step takes out
  of it by one step at most.  The arithmetic of multiples of the step is proved from
  `\div` and `%` (`MultiplesApart`).  `CommandsAreOwn` and `PortsAreNotDeaf` for any
  number of ports: a packet that waits is at the front of its buffer with the
  endpoint not armed (`Kept`), and a port that is not configured has neither (`Closed`).
* `Ad7794Proofs` - `DriverTypeCorrect`, `ErrorsAreCleared`, `ZeroMeansError`:
  `data_error` agrees with the failures of the call at every place of the driver, the
  places behind the unchecked write of the mode included.
* `TimersProofs` - `WritesAreRefused` (not a property of a run: it says that the finding of
  `spi_documented` is no single case), `SpiTypeCorrect`, `TimersTypeCorrect`,
  `LedIsOnTime` (`LedIsNotLate`, `LedIsNotEarly`), `NetTimersArePunctual`, for every width of the
  clock, every delay, interval and length of a pass.  The invariants tie the
  wrapping clock to the true times: `LedInv` on each side of a wrap, `NetInv` that
  the age of a timer is the difference modulo the width as long as it is below it.
* `EthProofs` - for rings of every size: `TxTypeCorrect`, `TxRingIsAWindow`,
  `TxOthersStayIntact`, `TxNothingIsStranded`, `RxTypeCorrect`, `RxRingIsAWindow`, the last
  for frames of any number of buffers.  `TxInv` adds where the ring can differ from
  what was handed over, by the place of `low_level_output`; `RxInv` what a segment
  looks like (`Shape`), that what is held is as long as the counters say (`Span`) and
  that a frame has its last segment before the DMA (`Ended`).
  `TxRingIsAQueue` (`TxIsQueue`, the refinement of `FrameQueue`) by `TxQueueInv`, which
  adds that a length in a descriptor of the DMA is that of a frame, and that what it
  is sending is what is in the buffer unless a frame that found the ring full was
  copied over it.  `TxQueued` says that as many frames wait as the indices are apart
  and which buffer each one is in.
  `RxRingIsAQueue` (`RxIsQueue`, with frames of any number of buffers) by `RxData`: the
  unread segments are numbered on from those that were read, from 1 after the end of
  a frame, so that the length of a frame is the number of its last segment and no
  frame is longer than the ring.  `RxCounted` says that the indices and the OWN bit
  determine the unread segments of `RxInv`, `EachMoves` that a step leaves them,
  adds one or takes the first; the frames that wait are numbered by counting the last
  segments (`NthGrows`, `NthShifts`, `NthDrops`), as induction over a sequence that is
  filtered could not be proved.  `CopiedIs`: what the one copy of `low_level_input` yields.
* `EchoServerProofs` - `TypeCorrect`, `ChainIsAlive`, `WindowIsKept`,
  `PoolIsIntact` and `EchoesSafely` (the refinement of `Echo` without its
  fairness), for every pool, window, send buffer and segment size.  The invariant adds that there is
  no pbuf before the first segment and none without an es: without it a segment
  could overwrite a chain, or an accept open a full window over one.
  `FreedFirst` says where `pbuf_free` stops, `SendKeepsRest` that freeing the
  head leaves every other pbuf alive, leaked heads included, and `ChainedAlive`
  that `pbuf_chain` does.  `PInv` adds for the pool that every count of an
  unspoiled chain is 1 between two steps, so that freeing the head takes its
  count to 0 (`SendFreesHead`).  For the refinement `SendRepliesHead` and
  `RecvQueues` say what sending and receiving do to the payload of the chain:
  no change of a count touches a byte.
  `CommandsAreRepeated` (`CommandsRepeat`) by `CommandInv`: no pbuf was parsed more often
  than one before it (`NoneAhead`), and without failing writes each one once for every
  place that it moved up (`OncePerPlace`).

Only model-checked: the liveness properties (`LoopGoesOn`, `CallReturns`, `TransferEnds`,
`RxResumes`, `TxDrains`, and the halves of `IsByteStream` and `IsEcho` that
rest on fairness), which are out of the prover's reach.  Every other
property of the passing runs is proved: the invariants, the action properties and
the safety parts of the four refinements, that of `ByteStream` under the hypotheses
of `NoByteIsLost`, which the run `ring_stream` fulfils.

## 5. What is left

Done, in this order: request word and main loop, USB output, USB ports, ADC and
SPI, LED delay, TCP echo server, timers, endpoint 0, USB input, parsing over TCP,
Ethernet rings.  What would come next:

1. `Console`: composition of `UsbPorts` and `CdcRing` (transfers lost by what the
   ports do, slot 0 as the target), and of `SpiDma` with `Ad7794`.
2. `Mailbox`: an abstract request box that `MainLoop` implements, stating which
   requests may be lost.
3. Several TCP connections over one pool of pbufs.
4. The DHCP hook, in case the option is compiled.
