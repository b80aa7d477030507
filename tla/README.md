# Direct Test Mode: specifications, model checking and proofs

TLA+ modules for the Direct Test Mode firmware of this repository: the DTM
library `src/src/dtm.c`, the two-octet command decoder
`src/src/transport/dtm_cmd_core.c` with the clients that feed it
(`dtm_shell_commands.c`, `main.c`), the two-wire transports that frame its
commands, and the HCI transport from the UART to the library.  TLC checks them on
small instances; TLAPS proves every invariant of the passing runs, the action
properties and the safety of both refinements for every value of the constants,
under the hypotheses section 4 names.

## 1. The system

A tester (another radio, driven by the same two-octet protocol or HCI) asks the
device to receive on a channel and count valid test packets, or to transmit
packets, or a carrier, without end.

| Component | State | Operations | Talks to |
|---|---|---|---|
| DTM library, `dtm.c` | `dtm_inst`: state, PHY, count, two packet buffers, CTE, TX power, FEM | `dtm_init`, `dtm_setup_*`, `dtm_test_receive/transmit/end`; ISRs `radio_handler`, `anomaly_timer_handler` | RADIO, one (D)PPI channel, DTM timer, errata-172 timer, FEM |
| Hardware | RADIO state, shorts, events, interrupt mask; channel; timers | tasks and events | library |
| Command decoder, `dtm_cmd_core.c` | `upper_len` | `dtm_cmd_put(cmd)` | library |
| Shell commands | none | `dtm reset`, `rx_test`, `tx_carrier`, `tx_test`, `tx_power`, `end`, `raw` | decoder, from the shell thread |
| `main.c` | none | reset and receive on channel 3 at start | decoder, from the main thread |
| RTT transport | framing state | `dtm_tr_init/get/process` | decoder |
| UART transport, `dtm_uart_twowire.c`, `dtm_uart_wait.c` | framing state, poll timer and semaphore, `upper_len`, antenna pattern | the same, and its own decoder | UART, library |
| HCI transport, `dtm_hci.c` | rx queue, antenna pattern | HCI commands, events, IQ reports | library, HCI UART |
| HCI UART, `hci_uart.c` | H4 parser, two pools, tx queue | `h4_read` (UART callback), tx thread | UART, HCI |
| Remote HCI, `hci_uart_remote.c`, `remote_hci/` | pool, queue | four RPC handlers | both cores |
| Hardware tables, `dtm_hw.c` | none | look-ups | library |

`main` calls `dtm_tr_init` and nothing else of a transport: `dtm_tr_get` and
`dtm_tr_process` have no caller in this repository.  What drives the library
here are `main`'s two commands and the shell; HCI and the two-wire transports
are the interface the library offers to the projects built around it, and the
models take their call sequences from those files.

What is hard in this code:

* The radio interrupt preempts every API call between any two register
  accesses; starting and stopping a test take a dozen of them each.
* Hardware goes on by itself: shorts disable the radio after each packet, a
  timer starts it through a PPI channel, DMA writes the buffer that PACKETPTR
  named at START, not the one it names now.
* Two families of clients use the API differently: HCI and UART prepare
  (`dtm_setup_prepare`) before every setup, the core decoder never does.
* Endpoint registers behave differently on PPI (one endpoint) and DPPI
  (subscriptions accumulate).
* Field layouts, status values and packet formats must agree between code that
  was copied and then changed.
* An HCI command changes the library in up to seven calls, each of which may
  refuse after others have stored their part.
* The UART, its interrupt, three queues, three pools and up to five threads on
  two cores carry one packet; nobody checks whether a pool is empty.
* On two wires only time separates one command from the next.

For each component, what makes it correct: the library stops what it started,
counts exactly what it heard in the test that runs, and keeps sending until it
is told to end; the decoder carries out what its clients mean and a refused
command changes nothing of a running test; packets fit their interval and are
recognised by a device with the same settings and by no other content; the
transports deliver each command whole and once, and answer it once and truly.

## 2. Modules

| Module | What it is |
|---|---|
| `DtmHw` | RADIO, channel, timers (external hardware): tasks, events, shorts |
| `Dtm` | the library: API calls in steps, interrupt handlers, everything interleaved |
| `DtmProperties` | its invariants, its liveness properties, the refinement mapping to `DtmSession`, how HCI uses the library (`PreparesFirst`, `NoCarrier`, `HciSequences`) |
| `DtmSession` | abstract specification: one test at a time, atomic start, count and stop |
| `MCDtm` | call sequences for TLC |
| `DtmProofs` | theorems of `Dtm` for every client |
| `DtmTestProofs` | theorems of `Dtm` for transports that prepare first |
| `CmdCore`, `MCCmdCore`, `CmdCoreProofs` | decoder and its clients; instance; theorems |
| `DtmPacket`, `MCDtmPacket`, `DtmPacketProofs` | settings, packet, interval, `check_pdu`; instance; theorems |
| `DtmHci`, `MCDtmHci`, `DtmHciProofs` | HCI commands as sequences of library calls; instance; theorems |
| `HciUart`, `MCHciUart`, `HciUartProofs` | the way of a packet: UART, parser, pools, queues, threads, RPC; instance; theorems |
| `HciLink` | abstract specification: each command gets one answer, its own |
| `TwoWire`, `MCTwoWire`, `TwoWireProofs` | framing of two octets by time, UART and RTT; instance; theorems |

`Dtm` EXTENDS `DtmHw`: its actions set tasks and endpoints through `Channel`,
`RadioStart` and `DisableTask`, and the hardware actions run alone.
`DtmSession` is instantiated with a refinement mapping in `DtmProperties`.
`HciLink` is instantiated in `HciUart`.  `CmdCore`, `DtmPacket` and `DtmHci` look
at the same library from three other sides, with its calls atomic.  `HciUart` and
`TwoWire` end where `DtmHci` and `CmdCore` begin: there a command is an identity
that is answered.

### Dtm and DtmHw

`pc` is where the thread is in its API call, `isr` where `radio_handler` is.
Each action is a stretch of code between two places where an interrupt or the
hardware makes a difference; the map in `PROJECT.json` names its lines.  An API
call is started by `NewCommand` or, within a command of several calls, by
`NextCall`; a failing call ends the command, as the transports do.

* `dtm_test_receive`: `RxSetup`, `RxPrepare`, `RxStart`, `RxState`.  The radio
  is started in `RxStart`, the state stored in `RxState`.
* `dtm_test_transmit`: `TxBusy`, `TxBadChannel`, `TxCheck`, `TxPrepare`,
  `TxPower`, `TxGainRefused`, `TxPpi`, `TxStart` (under `irq_lock`, hence one
  action), `TxState`; the carrier: `CarrierGainRefused`, `CarrierStart`,
  `CarrierState`.
* `dtm_test_end` and `dtm_setup_prepare`: `EndRead`, then `dtm_test_done` as
  `DoneTimer`, `DonePpi`, `DoneAnomaly`, the steps of `radio_reset`
  (`ResetDisable`, `ResetWait`, `ResetIrqOff`), `DoneState`.
* `dtm_setup_reset`, `dtm_setup_set_phy`: `SetupReset`, `SetupPhy`, the errata
  handling, `ErrataOn`, or `ErrataOff` (strict mode), `ErrataTimer` and
  `ErrataFlag`, statement by statement, and the steps of `radio_reset`.
* `radio_handler`: `HandlerNoEnd`, or `HandlerEnd`, `HandlerCheck` and
  `HandlerClear`; then `HandlerReady`.  `anomaly_timer_handler` is
  `AnomalyTimerExpires` and `AnomalyTimerHandler`.
* The busy waits for an RSSI sample in both handlers (`dtm.c:2251`, 2300, 1144)
  are the states `isr = "rssi"` and `isr = "timer"`.  They end when the radio has
  measured, and nothing says that it will: the receiver was started just before,
  and the errata timer may expire with the radio off.

Abstractions: the content of a buffer is one of four values; channel, power,
packet format and direction-finding registers are left out; the settings a
vendor command makes are "accepted or refused"; `heard` is a history variable
that counts valid packets on air.  The tests are those without CTE: with it
`radio_prepare` gives the radio `PHYEND_DISABLE` for `END_DISABLE`
(`dtm.c:1347-1354`), so that `END` no longer stops it.  The wait at 2300 is
compiled where `EMC_TEST_MODE` is not defined; the model allows it always.

`IrqLatency`: with `FALSE` the thread takes no step while an unmasked interrupt
is pending, which is what the NVIC does.  `TRUE` lets the thread run on for a
while, as if the interrupt were delivered late.  It is the more general model
and used for liveness, where the interrupt must not be needed for progress.  The
two differ for one safety property: with late interrupts an END may be handled
between `radio_reset`'s wait and the masking of the interrupt, which restarts a
radio that was just stopped, and `RadioOffWhenIdle` fails.  On the device the END
is handled before the wait ends.

### CmdCore

A command is a number below 2^16, split by division and remainder where the
code shifts and masks.  `wish` is a history variable: what the client asked for
in its own words.  `Counting` stands for any number of runs of the interrupt
handler.  The three clients interleave; whole commands are atomic.  The build
is nRF52840 with coded PHY; without direction finding in `cmd_channel`, with it
in `cmd`.

### DtmPacket

One module plays the tester and the device: `Transmit` composes a packet under
the present settings, `Setup` may change them, `Damage` changes an octet of the
payload on air, `Hear` is `check_pdu` on it.  `own` and `intact` are history:
were the settings kept, is the packet unharmed.  Only `Octets` octets of the
payload are kept; lengths go up to 255 and enter the interval in full.  The CTE
slot and the number of IQ samples are one Boolean, `sampled`.

### DtmHci

`at` is the library call `hci_rx_test` or `hci_tx_test` makes next; each call is
an action (`SetPayload`, `SetPhy`, `SetModulation`, `SetCte`, `SetAntenna`,
`SetSlot`, `SetPower`, `TestReceive`, `TestTransmit`) that stores what the code
stores and goes on or answers. `Begin` is `hci_cmd` with `dtm_setup_prepare`;
`TestEnd`, `Reset`, `Inform` and `Unknown` are the other commands. `OnRadioEnd`
is the interrupt: a packet counted or not, with IQ report or not. `asked`,
`heard` and `iq` are history. A command's parameters are those of its version;
`Given` fills in the defaults of the others. `halted` is the assertion of
`radio_frequency_get`. `rx_pkt_count` comes round at `CountMod`, 2^16 in the
code; `heard` does not. `CommandsAssumption`: a test command's parameters are
octets, the power a signed one, whatever their values. The build has direction
finding and coded PHYs and no front-end module.

### HciUart

`SendCommand` and `SendOther` are the tester.  `RxReady` hands any number of the
octets on the wire to the interrupt, `H4Type`, `H4Header` and `H4Payload` are the
turns of the loop in `h4_read`.  In the build `"local"` the packet goes into
`rx_queue`; in `"remote"` it goes through `put_queue`, the put thread, an RPC
event and a second pool.  `ServeGet`, `ServeCommand`, `ServeUnref` and
`ServeOther` are `dtm_tr_get` and `dtm_tr_process` called in a loop.
`IqReportEvt` is the event the radio interrupt writes.  `TxThread` and `TxDone`
send.  An interrupt that holds octets (`dma`) keeps the threads of its core from
running.  A packet's content is its octets; what a command does is one event.

`Tailroom` is what a buffer of `QueueSize` octets has left: `buf_read` asserts that
the rest fits (`H4Overflow`).  Both cores have the same `QUEUE_SIZE` by default, and
every event fits into it.

On the network core the packet's type is kept where there is no room for it:
`tx_buf` has user data of size 0 (`hci_uart_remote.c:22`), and line 58 writes the
type into the first word of the element behind, its link in a queue or in the list
of free elements, from where `dtm_hci.c:758` reads it back.  That works while the
element behind has never been used.  `NextInUse` is when that is no longer sure (a
second packet on that core, or the last element taken, behind which something else
begins), and `astray` remembers that it happened.  From then on the model lets a
command be read as a packet that is none (`ServeOther`) and the pool or the queue
follow a broken link, which counts as a halt (`BrokenLink`).  It takes the first
such write for harmful, though mostly it takes a second one; what memory looks
like afterwards is not modelled, and no property claims anything of the network
core then.

`TesterAssumption` is what else the tester sends: ACL and ISO packets as long as
their headers say, and octets that are no type.  A packet cut short would take
the next command for its payload, which nothing in the driver could tell.

### TwoWire

The tester sends two octets and, without an answer after `Pause`, sends them
again.  `Lose` takes an octet off the line: an overrun, or the shell, which reads
the same RTT channel.  `Tick` is a millisecond.  `DtmUartWait`,
`WaitTimerHandler` and `SemTake` are the poll wait, `UartRead` and `RttRead` a
turn of each `dtm_tr_get`, `DtmTrProcess` the answer.  The device is assumed to
read at least every `Gap`; the tester to send the second octet within `Spread`,
`Spread + Gap <= Delay`, and to pause for more than `Delay + 2 * Gap`.

## 3. What is checked

Passing runs:

| Run | Instance | Properties and what they show |
|---|---|---|
| `hci` | no FEM, errata 172, HCI call sequences, up to 3 valid packets, counter modulo 3; 1 101 027 states | `LoopStoppedWhenIdle`, `RadioOffWhenIdle`: the handler cannot undo a stop. `UncodedIsPlain`: neither the errata timer nor its flag outlives the coded test. `CountIsSound`: never more counted than heard. `BufferOwned`: the restarted receiver fills the other buffer. `TransmitterArmed`: the loop has all its parts. `ImplementsSession`: refinement of `DtmSession`. |
| `hci_fem` | FEM and DPPI (nRF53) | the same hazards where the radio starts through the channel; `ReceiverIsSilent` |
| `core` | FEM on PPI, whose driver may refuse a gain; core decoder's calls, no preparation, counter modulo 2 (it wraps) | what holds even when tests are started over tests |
| `live` | late interrupts, fairness | `CallsReturn`: every call returns, unless a handler waits for an RSSI sample for ever. `KeepsTransmitting` |
| `cmd` | boundary words of every command, shell and main | `RefusalIsHarmless`, `ReportsAreReports`, `CountOnlyInReceiver` |
| `packet` | one packet type of each kind and one no PHY of 1 and 2 Mbit accepts; lengths 0, 1, 3, 4, 47, 255; CTE times at their bounds | `CountsItsOwn`, `DamagedIsIgnored`, `PacketFits` |
| `hci_cmd` | 31 commands: every version, every refusal, CTE at its bounds, powers below, in and above the table; table of 6 uneven steps; patterns up to 2; 3 packets, counter modulo 2 (it wraps); 947 943 states | `RunsAsAsked`: nothing an earlier command left half done reaches a test. `AnsweredOnce`, `StatusIsTrue`: one answer, and it says whether a test runs. `CteIsComplete`: the assertions of `report_iq` hold. `IqReportIsOfTheTest`, `CountIsOfTheTest`: reports are of the test that runs, counts modulo the counter's width. `NearestPower`. |
| `hci_link` | one core and two, pools of 3 buffers of 5 octets, up to 2 things that are no command, among them a packet that does not fit; 3 IQ reports, any chopping of the stream; 1 684 303 states | `PacketsIntact`: the parser never tears a packet, nor does RPC, up to the network core. `NeverOutOfBuffers`: nothing halts while two buffers are left, packets fit and no type is astray. `EventsKept`: without IQ reports no event is dropped. `ImplementsLink`: refinement of `HciLink`, liveness included. |
| `twowire` | UART and RTT, delay 5 ms, reads every 2 ms, octets 3 ms apart, pause 10 ms, 3 octets lost; 31 212 states | `WholeCommands`: never two halves of different commands. `EachWaitIsOneCycle`. `Answered`: both sides find together again. |

Runs that show a divergence between the code and what it says of itself:

| Run | Shows |
|---|---|
| `rx_start` | the radio is started (`dtm.c:1948`) before `STATE_RECEIVER_TEST` is stored (1950); a packet that ends in between is dropped by the handler and the receiver is never started again |
| `cmd_channel` | shell and `main` put the channel in bits 7-2, the decoder reads 13-8: always channel 0 |
| `hci_antenna` | `switch_pattern_set` gives the radio the octet after the pattern, too, and the pattern of a second CTE test is appended to that of the first (`dtm.c:542`, 558) |

Seen while modelling, without a run of their own.

*Library.* With FEM an END between `nrfx_timer_disable` and `radio_ppi_clear`
starts the DTM timer again, which goes on counting in `STATE_IDLE` (1290); the
errata-172 timer likewise (1301), also by a READY. `errata_172_handle(false)`
then leaves strict mode (1191) before it stops that timer (1192): an expiry in
between may set strict mode again, which "Enable or disable strict mode to
workaround Errata 172" (387) ties to the workaround, and the uncoded test that
follows runs in it, although neither timer nor flag are left (`UncodedIsPlain`).
It takes a thread held up for half a millisecond, and a handler that gets its
RSSI sample with the radio off: otherwise it never returns. `dtm_test_receive`
checks no state: over a transmitter test the loop goes on transmitting, over
another receiver test the old test's last packet is counted (1923); after a
carrier test on DPPI with FEM the TXEN subscription stays and the next receiver
test may transmit (1241); `dtm_setup_reset` stops the radio and keeps the state,
so that a transmitter test is then refused as busy (1642), and erases the IQ
callback `dtm_init` registered (1652); the overhead of 1 Mbit is never added,
because 1554 tests a mode no PHY selects, and some lengths get the next shorter
interval; with CTE on, a packet of a repeated pattern is compared from the
CTEInfo octet on and that octet with the bare mode (1091, 1118), so that no
non-empty one of the device's own is counted or its samples reported, and a
pseudo-random one is counted and its samples never reported (1055, 1066).

*Decoder and clients.*  The shell's `tx_carrier` starts a PRBS9 test and
`tx_power` is refused; a vendor carrier accepts channels 40 to 63 against the
assertion at 781; the core decoder's status values are the UART decoder's
exchanged; a count of 32768 or more loses its top bit in the report; `main` calls
the answer to its receiver command unexpected unless it has bit 15 (`main.c:60-62`,
in the debug build), which only the report of a test end has (`ReportsAreReports`),
so that it warns every time.

*HCI.*  `rx_pkt_count` is a `uint16_t`: after 65536 packets Test End counts from 0
again, and its event does not say so (`dtm.c:2245`); the slot duration 1 (1 us)
selects 2 us and 2 is refused (`dtm_hci.c:521`); a transmitter test on channel 40
or above halts in the assertion at `dtm.c:781` before it is refused
(`dtm_hci.c:637`); CTE is refused on the uncoded
PHYs and accepted on the coded ones (508, 625), where Bluetooth has none; the
second answer of a failed reset (404) is dead code, as `OneAnswer` proves.

*HCI UART.* A packet that is no command keeps its buffer (`dtm_hci.c:768`); an
octet of no known type is skipped and the parser looks for a type in what
follows (`hci_uart.c:140`); a stopped receiver is never enabled again (233); an
event that meets a busy UART is dropped with its buffer (253); on two cores an
IQ report waits for an RPC answer in the radio interrupt
(`hci_uart_remote.c:120`), and the packet type is written outside its buffer
(22, 58; section 2); an ACL or ISO packet longer than a buffer halts the device
(`hci_uart.c:106`).

*Two wires.*  RTT forgets an old first octet only when a read finds nothing
(`dtm_rtt_twowire.c:123`), UART whenever the second is late: a tester must pause
for more than `Delay + 2 * Gap` on RTT, `Delay + Gap` on UART, and TLC finds torn
commands with less.  The UART transport's own decoder does not build beside
`dtm_cmd_core.h`: its `upper_len` is static there and extern here.

Bounds. One uncoded and one coded PHY suffice for `Dtm`, which distinguishes no
others. Two packets fill both buffers, the third reuses the first; the counter
modulo 2 or 3 wraps within that. `MaxHeard` bounds valid packets per test only;
invalid ones are unbounded. Commands follow each other without bound. In `cmd`
the word set takes every command code, control code and both ends of every
parameter range; the channels are 0, those at the limit and the configured one.
In `packet` the lengths include 0, the kept octets and 255. In `hci_cmd` a
pattern of two fills `cur_pattern` and a switch pattern of five takes the second
test's entries in part; three packets take the counter round. In `hci_link`
three buffers are the least that two lost ones leave working, and on the network
core they hold two packets at once; a command fills a buffer, and one packet is
an octet longer; three IQ reports fill the transmit pool. In `twowire` an odd
number of lost octets leaves the sides apart, three do so twice over; the delays
are the code's 5 ms and the smallest that the assumption allows.

Fairness (`FairSpec`).  The thread is strongly fair: during a test the handler
interrupts it again and again, but it has the CPU between two interrupts.  The
handler is weakly fair, but for its wait for an RSSI sample: an enabled interrupt
is taken, and the handler returns if the radio measures.  `CallsReturn` therefore
allows one other end, a handler that waits for ever.
Ramp-up, the end of a transmission, ramp-down and COMPARE0 happen when they are
due (weak fairness).  Nothing is assumed of the air, of the errata timer or of
the transport: packets and commands may never come.

Fairness of `HciUart`: interrupts, RPC and every thread are weakly fair; each
thread but the lowest sleeps when it has nothing to do.  The tester is not: it
need not send, and neither a line error nor an IQ report need come.  In `HciLink`
only the answer is fair, and only while nothing disturbs the link.  Fairness of
`TwoWire`: time, timer and thread go on, and the tester repeats an unanswered
command; without that a lost octet would leave both sides waiting for ever.  The
configuration of `hci_link` switches the deadlock check off because a tester whose
answer was lost stops sending, those of `DtmHci` because the device halts.

Every passing property has a mutant in `PROJECT.json`, a plausible slip in the
code that makes TLC find the property violated.  Mutants stand next to the
definition they replace.

## 4. What is proved

A theorem holds for every value of the constants that the named assumptions
allow: every build, counter width, set of call sequences or commands, pool size,
delay, length.  `Prepared`, `OneTask` and `Prompt` are hypotheses of the
theorems themselves, explained below.

| Theorem | Statement | Assumptions |
|---|---|---|
| `DtmProofs!TypeCorrect` | `Spec => []TypeOK` | `ClientAssumption`: the constants' types |
| `DtmProofs!LoopStopped` | `Spec => []LoopStoppedWhenIdle` | the same |
| `DtmProofs!BuffersApart` | `Spec => []BufferOwned` | the same, and not both FEM and DPPI |
| `DtmProofs!RadioIsOff` | `Spec => []RadioOffWhenIdle` | the same, and `Prompt` |
| `DtmTestProofs!UncodedStaysPlain` | `Spec => []UncodedIsPlain` | `Prepared` |
| `DtmTestProofs!KeepsSession` | `Spec => ImplementsSession` | `Prepared` |
| `DtmTestProofs!TransmitterStaysArmed` | `Spec => []TransmitterArmed` | `Prepared` |
| `DtmTestProofs!ReceiverStaysSilent` | `Spec => []ReceiverIsSilent` | `Prepared`, `OneTask`, `Prompt` |
| `DtmTestProofs!EveryCountIsHeard` | `Spec => []CountIsSound` | the same three |
| `DtmTestProofs!BuffersApartOnDppi` | `Spec => []BufferOwned` | the same three |
| `DtmTestProofs!HciTestsAreSafe` | all of these at once, for tests without CTE | `Commands \subseteq HciSequences`, `Prompt` |
| `CmdCoreProofs!TypeCorrect` | `Spec => []TypeOK` | `CmdAssumption` |
| `CmdCoreProofs!CountIsReceivers` | `Spec => []CountOnlyInReceiver` | the same |
| `CmdCoreProofs!RefusalsAreHarmless` | `Spec => RefusalIsHarmless` | the same |
| `CmdCoreProofs!ReportsAreTold` | `Spec => []ReportsAreReports` | the same |
| `DtmPacketProofs!TypeCorrect` | `Spec => []TypeOK` | `PacketAssumption` |
| `DtmPacketProofs!PacketsFit` | `Spec => []PacketFits`, every length, PHY and CTE time | the same |
| `DtmPacketProofs!OwnPacketsCount` | `Spec => []CountsItsOwn` | the same |
| `DtmPacketProofs!DamageIsSeen` | `Spec => []DamagedIsIgnored` | the same |
| `DtmHciProofs!TypeCorrect` | `Spec => []TypeOK` | `HciAssumption`: an ascending table of at least two powers that has 0; `CommandsAssumption` |
| `DtmHciProofs!OneAnswer` | `Spec => []AnsweredOnce` | the same |
| `DtmHciProofs!StatusesAreTrue` | `Spec => []StatusIsTrue` | the same |
| `DtmHciProofs!PowerIsNearest` | `Spec => []NearestPower` | the same |
| `DtmHciProofs!CountsAreOfTheTest` | `Spec => CountIsOfTheTest` | the same |
| `DtmHciProofs!TestsRunAsAsked` | `Spec => []RunsAsAsked` | the same |
| `DtmHciProofs!CtesAreComplete` | `Spec => []CteIsComplete` | the same |
| `DtmHciProofs!IqReportsAreOfTheTest` | `Spec => []IqReportIsOfTheTest` | the same |
| `HciUartProofs!PacketsArriveIntact` | `Spec => []PacketsIntact` | `UartAssumption`, `TesterAssumption` |
| `HciUartProofs!BuffersLast` | `Spec => []NeverOutOfBuffers` | the same |
| `HciUartProofs!NoEventIsLost` | `Spec => []EventsKept` | the same |
| `HciUartProofs!LinkIsSafe` | `Spec => Link!LinkInit /\ [][Link!LinkNext]_(Link!linkVars)` | the same |
| `TwoWireProofs!CommandsAreWhole` | `Spec => []WholeCommands` | `TwoWireAssumption`: the times above |
| `TwoWireProofs!WaitsAreCycles` | `Spec => []EachWaitIsOneCycle` | the same |

### The library, whatever its clients call (`DtmProofs`)

*LoopStopped.*  The invariant says nothing of the middle of a call.  `LoopInv`
adds what holds there: from the step after the timer is stopped, and after the
channel is disabled, they stay so until the call that sets them up again; and a
transmitter test can only be entered from IDLE.  Without FEM the handler touches
neither timer nor channel; with FEM it may fire the channel, which is why only
the channel is claimed.

*BuffersApart.*  `BufferInv` relates `PACKETPTR`, `current_pdu`, the latched
`dma` and the handler's `received_pdu`: while the handler checks, `PACKETPTR` is
`current_pdu` and `received_pdu` is the other buffer, and a running receiver has
latched `PACKETPTR`.  The assumption is needed: with FEM on DPPI and a client
that starts a receiver test over a transmitter test, TXEN and RXEN share the
channel and the loop can restart the radio before the handler has swapped.

*RadioIsOff.*  `RadioInv` covers `radio_reset` and what follows it up to the
step that stores `STATE_IDLE` (`Disabling`): the radio is off or on its way, and
no END is left for a handler that could start it by RXEN.  With FEM the handler
only triggers the channel, which is off by then, so that nothing is needed of
the interrupt.  Without FEM the END must have been served when the reset begins.
`Prompt` is `Fem \/ ~IrqLatency`: the interrupt is not delayed past the thread's
next step, as on the NVIC; with `IrqLatency` the property fails (section 2).

### The library under a transport that prepares first (`DtmTestProofs`)

`Prepared` is what `dtm_hci.c` does: each command begins with
`dtm_setup_prepare` or `dtm_test_end`, sets up next and starts a test last, if it
gets that far.  HCI Reset, which sets up without preparing, and the core decoder
do not; for them `DtmProofs` is what holds.  `OrderInv` carries the discipline
over the steps of the calls: which call runs which step, what is left of the
command (`script`), and that a setup or a start finds the library idle.

*UncodedStaysPlain.*  `errata_172_handle(false)` stops the timer before it clears
the flag (`UncodedInv`, step by step); that no handler starts the timer in between
is because a setup finds no test.  Strict mode itself may have been set just before
the timer stopped (section 3), and stays as it is from then on.

*KeepsSession.*  `CountInv`: outside a receiver test the count is zero, and the
handler only checks a packet in one.  Every step of the thread begins a test,
begins, continues or ends a stop, or is nothing to a session (`Begins`, `Stops`,
`Ends`, `Same`); of the others only the handler's count is a step of
`DtmSession`.  While the session is `"STOPPING"` the handler may still count what
no one will read.

*TransmitterStaysArmed.*  `ArmedInv` follows the channel from `dtm_test_done`
through the five steps of the start: no RXEN of a receiver test and no one-shot
timer is left when it is set up.

*ReceiverStaysSilent, EveryCountIsHeard, BuffersApartOnDppi.*  `ReceiverInv` is
one invariant for the three: no TXEN on an enabled channel, the buffer that
`PACKETPTR` names is the current one, and
`rx_pkt_count + Checked + Waiting <= heard`, where `Waiting` is a valid packet
whose END is to be served and `Checked` one the handler is looking at.  It needs
`ChannelInv`, that no TXEN is left when nothing sends, and that is where
`OneTask` enters: not both FEM and DPPI, or no carriers.  On DPPI
`dtm_test_done` leaves the TXEN subscription of a carrier test that was started
through the channel (section 3).  An HCI command starts no carrier.

*HciTestsAreSafe.* `HciSequences` are the calls of `hci_rx_test`, `hci_tx_test`
and `hci_test_end` for all PHYs, complete or cut short by a refusal, without
those that only store a setting, and for tests without CTE (section 2; chips
with errata 172 have none). TLC checks that the commands of the runs are among
them (`HciTestsAreSequences`). They meet `Prepared` and `OneTask`, so that all
seven invariants and the refinement hold together.

### The decoder (`CmdCoreProofs`)

*TypeCorrect, ReportsAreTold.*  `LibTypeOK` and `WordTypeOK` bound the fields of a
word and the answers; `ReadsStayBelowReports` shows that the answers to setup and
read commands, of at most 15 bits, cannot be taken for packet reports, and
`ReportsFit` that a report stays in 16 bits whatever the count.

*CountIsReceivers.*  `CountInv` strengthens the property with the type of the
count; `TestReceive` and `TestEnd` clear it and nothing else leaves the
receiver test.

### Packets (`DtmPacketProofs`)

*PacketsFit.*  `PacingInv` says that the interval is the one computed for the
length in the packet's header whenever the settings have not changed since.
`RoundsUp` is the arithmetic of the loop, `RampUpFits` compares the computed
length with the time on air PHY by PHY: the missing 80 bits of 1 Mbit are more
than covered by the 249 us of slack.

*OwnPacketsCount.*  `OwnIsComposed`: a packet of the settings that hold is
`Composed` of its own header, octet by octet; `check_pdu` recomputes just that
(`OwnPasses`).

*DamageIsSeen.*  The receiver may have other settings than the sender had and
take the header for one octet longer or shorter.  `DamageShows` therefore speaks
of both headers: a wrong octet at its place, and, for the receiver that is one
octet off, a CTEInfo octet (128 to 223) where a pattern begins, or a sequence
that does not begin with its first octet.  `DamagedFails` goes through the kinds
of payload.

### HCI commands (`DtmHciProofs`)

*OneAnswer, StatusesAreTrue, CountsAreOfTheTest.*  `HciInv` says what holds in
the middle of a command: no answer yet, no test, state idle from `Begin` on;
afterwards one answer, and a test exactly if it says so; the count is that of the
packets heard, modulo `CountMod`.  That `Reset` never takes
the branch of two answers needs that the power is always of the table:
`PowerForIsNearest`.

*PowerIsNearest.*  The loop stops at the first entry above the power.  `Crossing`
shows that there is one whenever the power is inside the table, by the size of
the interval of indices, since the prover has no induction over data;
`NearestIsNearest` compares the two neighbours with every other entry.

*TestsRunAsAsked, CtesAreComplete, IqReportsAreOfTheTest, TypeCorrect.*
`SettingsInv` follows a command through its calls: `SetSoFar` lists for every
stage what the calls before it have stored (PHY, CTE mode and time, slot,
pattern, channel), whatever was there before, and `Running` that a test has all
of it. A transmitter test has no slot stage: with AoD its slot comes with the
CTE type, with AoA it needs none, and that is all the invariant claims there.
`SwitchPatternTyped` bounds the entries that are appended to the pattern from
one test to the next.

### The HCI link (`HciUartProofs`)

`IInv` has three parts. `Flow` says that the octets held by the parser, the DMA
and the wire together (`Stream`) can be cut into whole packets that were sent,
with the parser at the beginning of the first: `CutAppend`, `CutFirst` and
`CutTail` are how a packet is added, looked at and taken off. It also says where
the command that waits is (`Places`): it or its answer is at one place only, or
lost where its type went astray, and whatever command or answer a queue holds is
it. `LocalBuffers` and `RemoteBuffers` count: each buffer is free or holds the
command, a packet that is no command and that was sent, or the packet just read.
`Spare` is what follows when the pool is empty, `Events` the same count for the
transmit pool.

*PacketsArriveIntact* is the types of the queues, which `Flow` makes inductive;
on two cores it reaches up to the network core, and there as far as no type is
astray. *BuffersLast* is `Spare`: a halt means a pool with fewer than two
buffers to spare, a packet longer than a buffer or a type astray.
*NoEventIsLost* is `Events`. *LinkIsSafe* is the safety part of
`ImplementsLink`: only `SendCommand` and `TxDone` are steps of `HciLink`, and
the answer on the UART is the one to the command that waits because both are at
the same place.

### Two wires (`TwoWireProofs`)

*CommandsAreWhole.*  `IInv` lists how far a command can have come: sent in part or
whole, its first octet held or lost, its second alone on the line, returned.
Each phase bounds the age of the held octet by the tester's silence; in the phase
after a loss (`Broken`) the held octet grows too old before the tester goes on.
On RTT that takes one read more than on UART, which is where `2 * Gap` enters.

### Only model-checked

Liveness, which is out of the prover's reach: `CallsReturn`, `KeepsTransmitting`,
`Answered`, and the part of `ImplementsLink` that every command of an undisturbed
link is answered.  The three properties of the runs that expect a violation have
no proof because they do not hold.

## 5. Not modelled

Tests with CTE in `Dtm` (their settings are in `DtmHci`, their packets in
`DtmPacket`); the registers of channel, power, packet format and direction finding
beyond the switch pattern; memory on the network core after a type was written
where it matters; the content of IQ samples; the FEM's own driver and automatic
power control; clock and timer initialisation; the antenna pins of `dtm_hw.c`; the
UART transport's own decoder, which does not build at this commit; the start-up
of the remote HCI, CBOR encoding and RPC errors (they end in `k_oops`); the
release of buffers by `UART_TX_ABORTED`, which nothing causes; the build.  Two
commands running at the same time in the shell's and main's threads are not
modelled either: `Dtm` has one thread and `CmdCore` whole commands.

## 6. Plan

1. Two threads in the library (shell and main) as a variant of `Dtm`.
2. `Dtm` under HCI Reset: what of `DtmTestProofs` remains when the library is set
   up over a running test, as the state stays while the radio stops.
3. Theorems for the core decoder's calls, which never prepare: what a receiver
   test started over another test still guarantees.
4. Tests with CTE in `Dtm`: PHYEND and its short, and what the stop still
   guarantees when END does not stop the radio.
