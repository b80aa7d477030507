---------------------------- MODULE DtmProperties ----------------------------
(***************************************************************************)
(* What the DTM library should guarantee, stated of the states between two *)
(* API calls and of what the interrupt handler does with the buffers.      *)
(***************************************************************************)
EXTENDS Dtm

(***************************************************************************)
(* How dtm_hci.c uses the library: a command first ends the test that runs *)
(* (hci_test_end, or dtm_setup_prepare in hci_rx_test and hci_tx_test),    *)
(* then sets up, and starts a test last.  HCI Reset, which sets up and     *)
(* leaves a test running, is the exception.                                *)
(***************************************************************************)
StopCalls  == {"dtm_setup_prepare", "dtm_test_end"}
SetupCalls == {"dtm_setup_reset", "dtm_setup_set_phy"}
StartCalls == {"dtm_test_receive", "dtm_test_transmit"}

PreparesFirst(cmd) ==
    /\ cmd[1].fn \in StopCalls
    /\ \A i \in 2..Len(cmd) :
          cmd[i].fn \in SetupCalls \cup (IF i = Len(cmd) THEN StartCalls ELSE {})

\* An HCI transmitter test sends packets; carriers are vendor commands.
NoCarrier(cmd) == \A i \in 1..Len(cmd) : cmd[i].arg # "carrier"

\* hci_rx_test and hci_tx_test, which a refused step cuts short; hci_test_end.
\* Only the calls that do something here: the CTE and power calls store settings
\* that Dtm leaves out.  A test with CTE is not among these: radio_prepare gives
\* it other shorts (dtm.c:1347-1354).
PrepareCall == [fn |-> "dtm_setup_prepare", arg |-> "none"]
EndCall     == [fn |-> "dtm_test_end", arg |-> "none"]
PhyOfTest   == [fn: {"dtm_setup_set_phy"}, arg: Phys]
StartOfTest == [fn: {"dtm_test_receive"}, arg: {"channel", "bad_channel"}]
               \cup [fn: {"dtm_test_transmit"}, arg: {"packet", "bad_channel"}]

HciSequences ==
    {<<PrepareCall>>, <<EndCall>>}
    \cup {<<PrepareCall, phy>> : phy \in PhyOfTest}
    \cup {<<PrepareCall, phy, start>> : phy \in PhyOfTest, start \in StartOfTest}

\* No call in progress, no interrupt being handled or waiting.
Settled == pc = "idle" /\ isr = "none" /\ ~IrqPending

\* When no call runs and the state is IDLE ("current test has completed",
\* dtm.c enum dtm_state), the channel that starts the radio is off and, where
\* the handler cannot start it behind the thread's back (no FEM), the timer
\* is stopped: whatever order end, prepare, resets and failed starts came in.
LoopStoppedWhenIdle ==
    pc = "idle" /\ state = "IDLE" => ~ppi.enabled /\ (~Fem => ~timer)

\* Between calls an idle library has a radio that is off: the handler cannot
\* restart it during dtm_test_done, nor does a refused start leave it on.
RadioOffWhenIdle == pc = "idle" /\ state = "IDLE" => radio = "DISABLED"

\* No errata-172 workaround outlives the switch to an uncoded PHY: neither the
\* timer, which a READY or END handled during dtm_test_done may have started
\* again, nor the flag by which the handler would.  Strict mode cannot change in
\* the test.  It may be on, though: the timer can expire after errata_172_handle
\* left strict mode (dtm.c:1191) and before it stops the timer (1192).
UncodedIsPlain ==
    pc = "idle" /\ state \in {"RECEIVER_TEST", "TRANSMITTER_TEST"}
        /\ radio_mode \notin Coded => ~anomaly /\ ~wa_enabled

\* rx_pkt_count never counts a packet that was not a valid test packet on air.
CountIsSound ==
    state = "RECEIVER_TEST" /\ rx_pkt_count > 0 => rx_pkt_count <= heard

\* While on_radio_end_event checks and clears a buffer, the receiver it has
\* already restarted fills the other one.
Handling == isr \in {"check", "rssi", "clear"}
BufferOwned ==
    Handling /\ radio \in {"RX", "RXPACKET"} => dma # received_pdu

\* In STATE_RECEIVER_TEST the receiver is armed whenever nothing is pending.
ReceiverArmed ==
    Settled /\ state = "RECEIVER_TEST" =>
        /\ radio \in {"RXRU", "RX", "RXPACKET"}
        /\ irqOn /\ shorts = {"READY_START", "END_DISABLE"}

\* A receiver test never turns the transmitter on.
ReceiverIsSilent ==
    state = "RECEIVER_TEST" /\ pc = "idle" => radio \notin Transmitting

\* In STATE_TRANSMITTER_TEST the next packet is scheduled: the timer runs, its
\* COMPARE0 reaches TXEN and nothing else, the shorts send and stop a packet.
TransmitterArmed ==
    state = "TRANSMITTER_TEST" /\ pc = "idle" =>
        /\ timer /\ ppi.enabled
        /\ "COMPARE0" \in ppi.event /\ ppi.task = {"TXEN"}
        /\ shorts = {"READY_START", "END_DISABLE"}

-----------------------------------------------------------------------------
\* dtm_test_done or dtm_init runs.
Stopping ==
    \/ pc \in {"done_timer", "done_ppi", "done_anomaly", "done_state"}
    \/ pc \in {"reset_disable", "reset_wait", "reset_irq_off"} /\ call.fn \notin SetupCalls

Session == INSTANCE DtmSession WITH
    test    <- IF Stopping THEN "STOPPING" ELSE state,
    counted <- IF state = "RECEIVER_TEST" /\ ~Stopping THEN rx_pkt_count ELSE 0,
    report  <- pack_cnt

\* The library keeps the promise of DtmSession to a transport that prepares
\* first: the asynchronous handler, the stop in many steps and the counter that
\* is cleared in three places look like one session with atomic starts, counts
\* and stops.
ImplementsSession == Session!SessionSpec

\* Every API call returns, radio_reset's wait for DISABLED included, unless an
\* interrupt handler waits for ever for an RSSI measurement that never ends.
CallsReturn == (pc # "idle" ~> pc = "idle") \/ <>[](isr \in {"rssi", "timer"})

\* The transmitter test goes on sending until the next call.
KeepsTransmitting ==
    (state = "TRANSMITTER_TEST" /\ pc = "idle") ~> (radio = "TX" \/ pc # "idle")
=============================================================================
