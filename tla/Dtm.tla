--------------------------------- MODULE Dtm ---------------------------------
(***************************************************************************)
(* The DTM library, src/src/dtm.c: the thread that calls its API (one      *)
(* transport, one call at a time), the RADIO interrupt handler that        *)
(* preempts it, the errata-172 timer handler, and the peripherals.         *)
(*                                                                         *)
(* The thread runs an API call in steps; between two steps the peripherals *)
(* move and interrupts are taken.  A step is a stretch of code whose inner *)
(* interleavings with the interrupt handler reach the same states.         *)
(***************************************************************************)
EXTENDS DtmHw, Sequences

CONSTANTS
    Errata172,   \* nrf52_errata_172(): the chip needs the workaround
    Commands,    \* the API call sequences a transport makes, one per command
    CountMod,    \* 2^16 in the code: rx_pkt_count is a uint16_t
    IrqLatency,  \* may the thread run on while an interrupt is pending
    MaxHeard     \* bound of the model: valid packets on air in one test

Phys == {"BLE_1MBIT", "BLE_2MBIT", "BLE_LR125KBIT", "BLE_LR500KBIT"}
Coded == {"BLE_LR125KBIT", "BLE_LR500KBIT"}

\* The pkt argument of dtm_test_transmit: a packet type, FF_OR_VENDOR with
\* the length of a carrier test or of a settings command; a channel above 39.
PacketArgs == {"packet", "carrier", "vendor_option", "bad_channel"}

Calls == [fn: {"dtm_setup_prepare", "dtm_setup_reset", "dtm_test_end"}, arg: {"none"}]
    \cup [fn: {"dtm_setup_set_phy"}, arg: Phys]
    \cup [fn: {"dtm_test_receive"}, arg: {"channel", "bad_channel"}]
    \cup [fn: {"dtm_test_transmit"}, arg: PacketArgs]
    \cup [fn: {"dtm_init"}, arg: {"none"}]

ASSUME ClientAssumption ==
    /\ Errata172 \in BOOLEAN /\ IrqLatency \in BOOLEAN
    /\ Commands \subseteq Seq(Calls) \ {<<>>}
    /\ CountMod \in Nat \ {0} /\ MaxHeard \in Nat

VARIABLES
    state,         \* dtm_inst.state
    radio_mode,    \* dtm_inst.radio_mode
    rx_pkt_count,  \* dtm_inst.rx_pkt_count
    current_pdu,   \* dtm_inst.current_pdu, an index into pdu
    wa_enabled,    \* dtm_inst.anomaly_172_wa_enabled
    strict_mode,   \* dtm_inst.strict_mode
    pc,            \* where the thread is; "idle" between two calls
    call,          \* the call it is in
    script,        \* the calls of its command that are still to come
    ret,           \* what the last call returned
    pack_cnt,      \* the count dtm_test_end handed out
    isr,           \* the interrupt handler that runs, and where it is; "none"
    received_pdu,  \* on_radio_end_event's received_pdu
    crc_ok,        \* on_radio_end_event's crc_ok
    heard          \* history: valid packets on air since the test began

dtmVars    == <<state, radio_mode, rx_pkt_count, current_pdu>>
errataVars == <<wa_enabled, strict_mode>>
threadVars == <<pc, call, script, ret, pack_cnt>>
isrVars    == <<isr, received_pdu, crc_ok>>
vars == <<hwVars, dtmVars, errataVars, threadVars, isrVars, heard>>

Handlers == {"none", "check", "rssi", "clear", "ready", "timer"}

States == {"UNINITIALIZED", "IDLE", "TRANSMITTER_TEST", "CARRIER_TEST", "RECEIVER_TEST"}

Steps == {"idle", "rx_setup", "rx_prepare", "rx_start", "rx_state",
          "tx_check", "tx_prepare", "tx_power", "tx_ppi", "tx_start", "tx_state",
          "carrier_start", "carrier_state", "end_read",
          "done_timer", "done_ppi", "done_anomaly", "done_state",
          "setup_reset", "setup_phy", "errata_off", "errata_timer", "errata_flag", "errata_on",
          "reset_disable", "reset_wait", "reset_irq_off"}

TypeOK ==
    /\ HwTypeOK
    /\ state \in States
    /\ radio_mode \in Phys
    /\ rx_pkt_count \in 0..(CountMod - 1)
    /\ current_pdu \in Buffers
    /\ wa_enabled \in BOOLEAN /\ strict_mode \in BOOLEAN
    /\ pc \in Steps
    /\ call \in Calls
    /\ script \in Seq(Calls)
    /\ ret \in {"0", "EINVAL", "EBUSY"}
    /\ pack_cnt \in 0..(CountMod - 1)
    /\ isr \in Handlers
    /\ received_pdu \in Buffers
    /\ crc_ok \in BOOLEAN
    /\ heard \in Nat

\* Power-on: main calls dtm_tr_init, which is inside dtm_init's radio_init.
Init ==
    /\ HwInit
    /\ state = "UNINITIALIZED"
    /\ radio_mode = "BLE_1MBIT"
    /\ rx_pkt_count = 0
    /\ current_pdu = 0
    /\ wa_enabled = FALSE /\ strict_mode = FALSE
    /\ pc = "reset_disable"
    /\ call = [fn |-> "dtm_init", arg |-> "none"]
    /\ script = <<>>
    /\ ret = "0"
    /\ pack_cnt = 0
    /\ isr = "none" /\ received_pdu = 0 /\ crc_ok = FALSE
    /\ heard = 0

-----------------------------------------------------------------------------
(***************************************************************************)
(* The thread.                                                             *)
(***************************************************************************)
\* The handlers have priority over the thread.
At(step) == pc = step /\ isr = "none" /\ (IrqLatency \/ ~IrqPending)

Goto(step) == pc' = step /\ UNCHANGED <<call, script, ret, pack_cnt>>

\* The call returns; a transport gives up its command on an error.
Return(err) ==
    /\ pc' = "idle"
    /\ ret' = err
    /\ script' = IF err = "0" THEN script ELSE <<>>
    /\ UNCHANGED <<call, pack_cnt>>

Entry(fn) ==
    CASE fn = "dtm_setup_prepare" -> "done_timer"
      [] fn = "dtm_setup_reset"   -> "setup_reset"
      [] fn = "dtm_setup_set_phy" -> "setup_phy"
      [] fn = "dtm_test_receive"  -> "rx_setup"
      [] fn = "dtm_test_transmit" -> "tx_check"
      [] fn = "dtm_test_end"      -> "end_read"
      [] OTHER                    -> "idle"

\* The next call: of the command in hand, or the first of a new command.
Invoke(calls) ==
    /\ At("idle")
    /\ call' = Head(calls)
    /\ script' = Tail(calls)
    /\ pc' = Entry(Head(calls).fn)
    /\ UNCHANGED <<ret, pack_cnt, hwVars, dtmVars, errataVars, isrVars, heard>>

NewCommand == script = <<>> /\ \E cmd \in Commands : Invoke(cmd)
NextCall   == script # <<>> /\ Invoke(script)

-----------------------------------------------------------------------------
(***************************************************************************)
(* dtm_test_receive: no check of the state.                                *)
(***************************************************************************)
RxSetup ==
    /\ At("rx_setup")
    /\ IF call.arg = "bad_channel"
       THEN Return("EINVAL") /\ UNCHANGED <<current_pdu, rx_pkt_count, pdu, heard>>
       ELSE /\ Goto("rx_prepare")
            /\ current_pdu' = 0
            /\ rx_pkt_count' = 0
            /\ pdu' = [b \in Buffers |-> "zero"]
            /\ heard' = 0
    /\ UNCHANGED <<state, radio_mode, radio, shorts, events, irqOn, packetptr, dma,
                   crcStatus, loopVars, anomaly, errataVars, isrVars>>

\* radio_prepare, the part common to both directions, for the step `next`.
Prepare(next) ==
    /\ Goto(next)
    /\ packetptr' = current_pdu
    /\ events' = events \ {"READY"}
    /\ shorts' = {"READY_START", "END_DISABLE"}
    /\ irqOn' = TRUE
    /\ UNCHANGED <<radio, dma, crcStatus, pdu, loopVars, anomaly,
                   dtmVars, errataVars, isrVars, heard>>

RxPrepare == At("rx_prepare") /\ Prepare("rx_start")

\* What radio_ppi_configure leaves in the channel.
PpiConfigured(task) ==
    [enabled |-> TRUE, event |-> EndpointSetup(ppi.event, "EGU"),
     task |-> EndpointSetup(ppi.task, task), fork |-> TRUE]

\* radio_start without force_egu: by channel p in a build with FEM, directly
\* otherwise.
RadioStart(task, p) ==
    IF Fem THEN Channel(p, "EGU")
    ELSE radio' \in RadioAfter({task}) /\ UNCHANGED timer

\* radio_prepare(RX_MODE), the rest: strict mode, END cleared, radio started.
RxStart ==
    /\ At("rx_start")
    /\ Goto("rx_state")
    /\ strict_mode' = (wa_enabled \/ strict_mode)
    /\ events' = events \ {"END"}
    /\ ppi' = IF Fem THEN PpiConfigured("RXEN") ELSE ppi
    /\ timerStop' = (Fem \/ timerStop)
    /\ RadioStart("RXEN", ppi')
    /\ UNCHANGED <<shorts, irqOn, packetptr, dma, crcStatus, pdu, anomaly,
                   dtmVars, wa_enabled, isrVars, heard>>

RxState ==
    /\ At("rx_state")
    /\ Return("0")
    /\ state' = "RECEIVER_TEST"
    /\ UNCHANGED <<hwVars, radio_mode, rx_pkt_count, current_pdu, errataVars, isrVars, heard>>

-----------------------------------------------------------------------------
(***************************************************************************)
(* dtm_test_transmit and dtm_vendor_specific_pkt.                          *)
(***************************************************************************)
\* FF_OR_VENDOR is a vendor packet in an uncoded mode and pattern FF otherwise.
Vendor == call.arg \in {"carrier", "vendor_option"} /\ radio_mode \notin Coded

TxBusy ==
    /\ At("tx_check")
    /\ state # "IDLE"
    /\ Return("EBUSY")
    /\ UNCHANGED <<hwVars, dtmVars, errataVars, isrVars, heard>>

\* Parameters are stored before they are looked at.
TxBadChannel ==
    /\ At("tx_check")
    /\ state = "IDLE" /\ call.arg = "bad_channel"
    /\ Return("EINVAL")
    /\ current_pdu' = 0
    /\ UNCHANGED <<hwVars, state, radio_mode, rx_pkt_count, errataVars, isrVars, heard>>

\* The packet is composed in the first buffer, or the settings command is
\* carried out (it may be refused) and the call returns.
TxCheck ==
    /\ At("tx_check")
    /\ state = "IDLE" /\ call.arg # "bad_channel"
    /\ current_pdu' = 0
    /\ rx_pkt_count' = 0
    /\ pdu' = [pdu EXCEPT ![0] = "tx"]
    /\ IF Vendor /\ call.arg = "vendor_option"
       THEN \E err \in {"0", "EINVAL"} : Return(err)
       ELSE Goto("tx_prepare")
    /\ UNCHANGED <<state, radio_mode, radio, shorts, events, irqOn, packetptr, dma,
                   crcStatus, loopVars, anomaly, errataVars, isrVars, heard>>

TxPrepare == At("tx_prepare") /\ Prepare("tx_power")

\* radio_prepare(TX_MODE), the rest: the errata-172 timer is stopped.
TxPower ==
    /\ At("tx_power")
    /\ Goto(IF Vendor THEN "carrier_start" ELSE "tx_ppi")
    /\ anomaly' = (anomaly /\ ~wa_enabled)
    /\ UNCHANGED <<radioVars, loopVars, dtmVars, errataVars, isrVars, heard>>

\* fem_tx_gain_set refuses the gain a vendor command stored: nothing is undone.
TxGainRefused ==
    /\ Fem
    /\ At("tx_ppi")
    /\ Return("EINVAL")
    /\ UNCHANGED <<hwVars, dtmVars, errataVars, isrVars, heard>>

TxPpi ==
    /\ At("tx_ppi")
    /\ Goto("tx_start")
    /\ ppi' = PpiConfigured("TXEN")
    /\ UNCHANGED <<radioVars, timer, timerStop, anomaly, dtmVars, errataVars, isrVars, heard>>

\* radio_tx_ppi_reconfigure: from now on COMPARE0 starts the radio.
PpiReconfiguredWithoutEvent ==      \* mutant: the event endpoint is not set up
    [enabled |-> TRUE, event |-> EndpointClear(ppi.event, "EGU"),
     task |-> EndpointSetup(ppi.task, "TXEN"), fork |-> FALSE]
PpiReconfigured ==
    [enabled |-> TRUE,
     event |-> EndpointSetup(EndpointClear(ppi.event, "EGU"), "COMPARE0"),
     task |-> EndpointSetup(ppi.task, "TXEN"), fork |-> FALSE]

\* Under irq_lock: the first packet and the timer start, then the channel is
\* handed to the timer.
TxStart ==
    /\ At("tx_start")
    /\ Goto("tx_state")
    /\ Channel(ppi, "EGU")
    /\ ppi' = PpiReconfigured
    /\ UNCHANGED <<shorts, events, irqOn, packetptr, dma, crcStatus, pdu, timerStop,
                   anomaly, dtmVars, errataVars, isrVars, heard>>

TxState ==
    /\ At("tx_state")
    /\ Return("0")
    /\ state' = "TRANSMITTER_TEST"
    /\ UNCHANGED <<hwVars, radio_mode, rx_pkt_count, current_pdu, errataVars, isrVars, heard>>

CarrierGainRefused ==
    /\ Fem
    /\ At("carrier_start")
    /\ Return("EINVAL")
    /\ shorts' = {"READY_START"}
    /\ UNCHANGED <<radio, events, irqOn, packetptr, dma, crcStatus, pdu, loopVars,
                   anomaly, dtmVars, errataVars, isrVars, heard>>

CarrierStart ==
    /\ At("carrier_start")
    /\ Goto("carrier_state")
    /\ shorts' = {"READY_START"}
    /\ ppi' = IF Fem THEN PpiConfigured("TXEN") ELSE ppi
    /\ timerStop' = (Fem \/ timerStop)
    /\ RadioStart("TXEN", ppi')
    /\ UNCHANGED <<events, irqOn, packetptr, dma, crcStatus, pdu, anomaly,
                   dtmVars, errataVars, isrVars, heard>>

CarrierState ==
    /\ At("carrier_state")
    /\ Return("0")
    /\ state' = "CARRIER_TEST"
    /\ UNCHANGED <<hwVars, radio_mode, rx_pkt_count, current_pdu, errataVars, isrVars, heard>>

-----------------------------------------------------------------------------
(***************************************************************************)
(* dtm_test_end, dtm_setup_prepare: dtm_test_done.                         *)
(***************************************************************************)
EndRead ==
    /\ At("end_read")
    /\ pc' = "done_timer"
    /\ pack_cnt' = rx_pkt_count
    /\ UNCHANGED <<call, script, ret, hwVars, dtmVars, errataVars, isrVars, heard>>

DoneTimer ==
    /\ At("done_timer")
    /\ Goto("done_ppi")
    /\ timer' = FALSE
    /\ UNCHANGED <<radioVars, ppi, timerStop, anomaly, dtmVars, errataVars, isrVars, heard>>

\* radio_ppi_clear: the task endpoint it clears is the one of the test the
\* state names; then the shorts of the timer.
PpiClearedStillEnabled ==           \* mutant: the channel is not disabled
    [enabled |-> ppi.enabled, event |-> {}, task |-> {}, fork |-> FALSE]
PpiClearedWithoutTask ==            \* mutant: the task endpoint stays
    [enabled |-> FALSE, event |-> {}, task |-> ppi.task, fork |-> FALSE]
PpiCleared ==
    [enabled |-> FALSE,
     event |-> EndpointClear(EndpointClear(ppi.event, "COMPARE0"), "EGU"),
     task |-> CASE state = "TRANSMITTER_TEST" -> EndpointClear(ppi.task, "TXEN")
                [] state = "RECEIVER_TEST" -> EndpointClear(ppi.task, "RXEN")
                [] OTHER -> ppi.task,
     fork |-> FALSE]

DonePpi ==
    /\ At("done_ppi")
    /\ Goto("done_anomaly")
    /\ ppi' = PpiCleared
    /\ timerStop' = FALSE
    /\ UNCHANGED <<radioVars, timer, anomaly, dtmVars, errataVars, isrVars, heard>>

DoneAnomaly ==
    /\ At("done_anomaly")
    /\ Goto("reset_disable")
    /\ anomaly' = FALSE
    /\ UNCHANGED <<radioVars, loopVars, dtmVars, errataVars, isrVars, heard>>

\* The last assignment of dtm_test_done, and of dtm_init.
DoneState ==
    /\ At("done_state")
    /\ Return("0")
    /\ state' = "IDLE"
    /\ UNCHANGED <<hwVars, radio_mode, rx_pkt_count, current_pdu, errataVars, isrVars, heard>>

-----------------------------------------------------------------------------
(***************************************************************************)
(* radio_reset: the radio is stopped, then its interrupt.                  *)
(***************************************************************************)
ResetDisableClearsLate ==           \* mutant: DISABLED cleared after the task
    /\ At("reset_disable")
    /\ Goto("reset_wait")
    /\ shorts' = {}
    /\ radio' = DisableTask(radio)
    /\ events' = events \ {"DISABLED"}
    /\ UNCHANGED <<irqOn, packetptr, dma, crcStatus, pdu, loopVars, anomaly,
                   dtmVars, errataVars, isrVars, heard>>
ResetDisable ==
    /\ At("reset_disable")
    /\ Goto("reset_wait")
    /\ shorts' = {}
    /\ radio' = DisableTask(radio)
    /\ events' = IF radio' = "DISABLED" THEN events \cup {"DISABLED"}
                 ELSE events \ {"DISABLED"}
    /\ UNCHANGED <<irqOn, packetptr, dma, crcStatus, pdu, loopVars, anomaly,
                   dtmVars, errataVars, isrVars, heard>>

ResetDoesNotWait ==                 \* mutant: no wait for DISABLED
    /\ At("reset_wait")
    /\ Goto("reset_irq_off")
    /\ UNCHANGED <<hwVars, dtmVars, errataVars, isrVars, heard>>
ResetWait ==
    /\ At("reset_wait")
    /\ "DISABLED" \in events
    /\ Goto("reset_irq_off")
    /\ events' = events \ {"DISABLED"}
    /\ UNCHANGED <<radio, shorts, irqOn, packetptr, dma, crcStatus, pdu, loopVars, anomaly,
                   dtmVars, errataVars, isrVars, heard>>

\* Setup calls return from radio_init; the others go on to the state.
ResetKeepsCount ==                  \* mutant: the count is not cleared
    /\ At("reset_irq_off")
    /\ irqOn' = FALSE
    /\ IF call.fn \in {"dtm_setup_reset", "dtm_setup_set_phy"}
       THEN Return("0") ELSE Goto("done_state")
    /\ UNCHANGED <<radio, shorts, events, packetptr, dma, crcStatus, pdu, loopVars, anomaly,
                   dtmVars, errataVars, isrVars, heard>>
ResetIrqOff ==
    /\ At("reset_irq_off")
    /\ irqOn' = FALSE
    /\ rx_pkt_count' = 0
    /\ IF call.fn \in {"dtm_setup_reset", "dtm_setup_set_phy"}
       THEN Return("0") ELSE Goto("done_state")
    /\ UNCHANGED <<radio, shorts, events, packetptr, dma, crcStatus, pdu, loopVars, anomaly,
                   state, radio_mode, current_pdu, errataVars, isrVars, heard>>

-----------------------------------------------------------------------------
(***************************************************************************)
(* dtm_setup_reset and dtm_setup_set_phy with errata_172_handle.           *)
(***************************************************************************)
SetupReset ==
    /\ At("setup_reset")
    /\ Goto(IF Errata172 THEN "errata_off" ELSE "reset_disable")
    /\ radio_mode' = "BLE_1MBIT"
    /\ UNCHANGED <<hwVars, state, rx_pkt_count, current_pdu, errataVars, isrVars, heard>>

SetupPhy ==
    /\ At("setup_phy")
    /\ Goto(IF ~Errata172 THEN "reset_disable"
            ELSE IF call.arg \in Coded THEN "errata_on" ELSE "errata_off")
    /\ radio_mode' = call.arg
    /\ UNCHANGED <<hwVars, state, rx_pkt_count, current_pdu, errataVars, isrVars, heard>>

\* errata_172_handle(true): the chip's register says whether to work around.
ErrataOn ==
    /\ At("errata_on")
    /\ Goto("reset_disable")
    /\ wa_enabled' \in {wa_enabled, TRUE}
    /\ UNCHANGED <<hwVars, dtmVars, strict_mode, isrVars, heard>>

\* errata_172_handle(false): strict mode, the timer, the flag.  A READY or END
\* that is handled after dtm_test_done stopped the timer has started it again; it
\* may expire before any of the three.
ErrataOff ==
    /\ At("errata_off")
    /\ Goto("errata_timer")
    /\ strict_mode' = FALSE
    /\ UNCHANGED <<hwVars, dtmVars, wa_enabled, isrVars, heard>>

ErrataTimerRuns ==                  \* mutant: the timer is not disabled
    /\ At("errata_timer")
    /\ Goto("errata_flag")
    /\ UNCHANGED <<hwVars, dtmVars, errataVars, isrVars, heard>>
ErrataTimer ==
    /\ At("errata_timer")
    /\ Goto("errata_flag")
    /\ anomaly' = FALSE
    /\ UNCHANGED <<radioVars, loopVars, dtmVars, errataVars, isrVars, heard>>

ErrataFlag ==
    /\ At("errata_flag")
    /\ Goto("reset_disable")
    /\ wa_enabled' = FALSE
    /\ UNCHANGED <<hwVars, dtmVars, strict_mode, isrVars, heard>>

Receive  == RxSetup \/ RxPrepare \/ RxStart \/ RxState
Transmit == TxBusy \/ TxBadChannel \/ TxCheck \/ TxPrepare \/ TxPower \/ TxGainRefused
            \/ TxPpi \/ TxStart \/ TxState
Carrier  == CarrierGainRefused \/ CarrierStart \/ CarrierState
Done     == EndRead \/ DoneTimer \/ DonePpi \/ DoneAnomaly \/ DoneState
Reset    == ResetDisable \/ ResetWait \/ ResetIrqOff
Setup    == SetupReset \/ SetupPhy \/ ErrataOn \/ ErrataOff \/ ErrataTimer \/ ErrataFlag

ThreadStep == NextCall \/ Receive \/ Transmit \/ Carrier \/ Done \/ Reset \/ Setup

-----------------------------------------------------------------------------
(***************************************************************************)
(* radio_handler: ADDRESS and the first half of END; check_pdu and the     *)
(* count; the busy wait for an RSSI sample; memset; READY.                 *)
(***************************************************************************)
Receiving == state = "RECEIVER_TEST"

\* No END, or END in a state other than RECEIVER_TEST.
HandlerNoEnd ==
    /\ isr = "none" /\ IrqPending
    /\ ~("END" \in events /\ Receiving)
    /\ events' = events \ {"ADDRESS", "END"}
    /\ anomaly' = (anomaly /\ ~("ADDRESS" \in events /\ Receiving /\ wa_enabled))
    /\ isr' = "ready"
    /\ UNCHANGED <<radio, shorts, irqOn, packetptr, dma, crcStatus, pdu, loopVars,
                   dtmVars, errataVars, threadVars, received_pdu, crc_ok, heard>>

\* radio_buffer_swap: the index of the buffer that is not current_pdu.
BufferKept == current_pdu           \* mutant: no swap
BufferNext == current_pdu + 1       \* mutant: the index runs on
BufferSwap == 1 - current_pdu

\* radio_buffer_swap, radio_start, errata-172 timer, CRC status.
HandlerEnd ==
    /\ isr = "none" /\ IrqPending
    /\ "END" \in events /\ Receiving
    /\ events' = events \ {"ADDRESS", "END"}
    /\ received_pdu' = current_pdu
    /\ current_pdu' = BufferSwap
    /\ packetptr' = BufferSwap
    /\ RadioStart("RXEN", ppi)
    /\ anomaly' = (anomaly \/ wa_enabled)
    /\ crc_ok' = crcStatus
    /\ isr' = "check"
    /\ UNCHANGED <<shorts, irqOn, dma, crcStatus, pdu, ppi, timerStop, state, radio_mode,
                   rx_pkt_count, errataVars, threadVars, heard>>

\* check_pdu: an all-zero buffer is an empty PRBS9 packet.
AnyPdu(content) == TRUE             \* mutant: the content is not looked at
CheckPdu(content) == content # "other"

\* rx_pkt_count++ of a uint16_t.
CountWide == rx_pkt_count + 1       \* mutant: the counter does not wrap
CountUp == (rx_pkt_count + 1) % CountMod

\* RSSI is sampled for a counted packet and, where EMC_TEST_MODE is not defined,
\* for one of the first packets with a wrong CRC; CRCSTATUS is read once more for
\* that, with the receiver on.
AfterCheck(counted) ==
    IF counted THEN {"rssi"} ELSE IF crcStatus THEN {"clear"} ELSE {"rssi", "clear"}

HandlerCheck ==
    /\ isr = "check"
    /\ LET counted == crc_ok /\ CheckPdu(pdu[received_pdu]) IN
          /\ rx_pkt_count' = IF counted THEN CountUp ELSE rx_pkt_count
          /\ isr' \in AfterCheck(counted)
    /\ UNCHANGED <<hwVars, state, radio_mode, current_pdu, errataVars, threadVars,
                   received_pdu, crc_ok, heard>>

\* In "rssi" this is the end of the wait: RSSIEND has come.
HandlerClear ==
    /\ isr \in {"rssi", "clear"}
    /\ pdu' = [pdu EXCEPT ![received_pdu] = "zero"]
    /\ isr' = "ready"
    /\ UNCHANGED <<radio, shorts, events, irqOn, packetptr, dma, crcStatus, loopVars, anomaly,
                   dtmVars, errataVars, threadVars, received_pdu, crc_ok, heard>>

HandlerReady ==
    /\ isr = "ready"
    /\ events' = events \ {"READY"}
    /\ anomaly' = (anomaly \/ ("READY" \in events /\ Receiving /\ wa_enabled))
    /\ isr' = "none"
    /\ UNCHANGED <<radio, shorts, irqOn, packetptr, dma, crcStatus, pdu, loopVars,
                   dtmVars, errataVars, threadVars, received_pdu, crc_ok, heard>>

RadioHandler == HandlerNoEnd \/ HandlerEnd \/ HandlerCheck \/ HandlerClear \/ HandlerReady

\* anomaly_timer_handler, of the same priority, waits for an RSSI sample and sets
\* strict mode by it; the timer goes on.
AnomalyTimerExpires ==
    /\ isr = "none" /\ anomaly
    /\ isr' = "timer"
    /\ UNCHANGED <<hwVars, dtmVars, errataVars, threadVars, received_pdu, crc_ok, heard>>

AnomalyTimerHandler ==
    /\ isr = "timer"
    /\ strict_mode' \in BOOLEAN
    /\ anomaly' = TRUE
    /\ isr' = "none"
    /\ UNCHANGED <<radioVars, loopVars, dtmVars, wa_enabled, threadVars,
                   received_pdu, crc_ok, heard>>

AnomalyTimer == AnomalyTimerExpires \/ AnomalyTimerHandler

-----------------------------------------------------------------------------
(***************************************************************************)
(* The peripherals, and the whole.                                         *)
(***************************************************************************)
Alone(hw) == hw /\ UNCHANGED <<dtmVars, errataVars, threadVars, isrVars, heard>>
Peripherals == Alone(HwQuiet)

PacketEnds(pkt) ==
    /\ HwRxEnd(pkt)
    /\ heard' = IF pkt = "valid" THEN heard + 1 ELSE heard
    /\ UNCHANGED <<dtmVars, errataVars, threadVars, isrVars>>

\* MaxHeard bounds the model only.
Heard == \E pkt \in Packets : (pkt = "valid" => heard < MaxHeard) /\ PacketEnds(pkt)

Next == NewCommand \/ ThreadStep \/ RadioHandler \/ AnomalyTimer \/ Peripherals \/ Heard

Spec == Init /\ [][Next]_vars

(***************************************************************************)
(* Fairness.  The handlers go on, and the peripherals finish what they     *)
(* started; the errata-172 timer and the air may do anything.  Nothing is  *)
(* assumed of an RSSI measurement: a handler may wait for one for ever.    *)
(* The thread is interrupted again and again during a test, but gets the   *)
(* CPU between two interrupts: strong fairness.                            *)
(***************************************************************************)
Fairness ==
    /\ SF_vars(ThreadStep)
    /\ WF_vars(RadioHandler /\ isr # "rssi")
    /\ WF_vars(Alone(HwReady)) /\ WF_vars(Alone(HwTxEnd))
    /\ WF_vars(Alone(HwDisabled)) /\ WF_vars(Alone(HwCompare0))

FairSpec == Spec /\ Fairness
=============================================================================
