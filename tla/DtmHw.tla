-------------------------------- MODULE DtmHw --------------------------------
(***************************************************************************)
(* The peripherals the DTM library drives: the RADIO, the (D)PPI channel   *)
(* that starts it, the DTM timer and the errata-172 timer.  None of them   *)
(* is code of the repository; they are modelled by what src/src/dtm.c does *)
(* with them and relies on, at the level of tasks, events and shorts.      *)
(* Channel, power, packet format and direction-finding registers are left  *)
(* out: no property of this level depends on them.                         *)
(***************************************************************************)
EXTENDS Integers

CONSTANTS
    Fem,        \* CONFIG_FEM: radio started through EGU and (D)PPI
    Dppi        \* nRF53 DPPI (many publishers and subscribers) or nRF52 PPI

ASSUME BuildAssumption == Fem \in BOOLEAN /\ Dppi \in BOOLEAN

VARIABLES
    radio,      \* RADIO.STATE
    shorts,     \* RADIO.SHORTS
    events,     \* RADIO events that are set
    irqOn,      \* RADIO interrupt: NVIC line and INTEN mask
    packetptr,  \* RADIO.PACKETPTR, an index into pdu
    dma,        \* the buffer START latched from PACKETPTR
    crcStatus,  \* RADIO.CRCSTATUS: was the CRC of the last packet right
    pdu,        \* what the two packet buffers hold
    ppi,        \* the channel ppi_radio_start
    timer,      \* the DTM timer is counting
    timerStop,  \* short COMPARE1 -> STOP of the DTM timer
    anomaly     \* the errata-172 timer is enabled

radioVars == <<radio, shorts, events, irqOn, packetptr, dma, crcStatus, pdu>>
loopVars  == <<ppi, timer, timerStop>>
hwVars    == <<radioVars, loopVars, anomaly>>

Buffers == {0, 1}
RadioStates == {"DISABLED", "RXRU", "RXIDLE", "RX", "RXPACKET",
                "TXRU", "TXIDLE", "TX", "TXDISABLE"}
Transmitting == {"TXRU", "TXIDLE", "TX"}
Shorts == {"READY_START", "END_DISABLE"}
Events == {"READY", "ADDRESS", "END", "DISABLED"}
\* The events INTEN forwards to the CPU.
IntMask == {"READY", "ADDRESS", "END"}

(***************************************************************************)
(* Content of a packet buffer: all zero, a valid DTM packet heard on air,  *)
(* anything else heard on air, or the packet dtm_test_transmit composed.   *)
(***************************************************************************)
Contents == {"zero", "valid", "other", "tx"}

\* What can end on air: a valid test packet, a packet with a right CRC that
\* is no test packet, a packet with a wrong CRC.
Packets == {"valid", "other", "corrupt"}
StoredAs(pkt) == IF pkt = "valid" THEN "valid" ELSE "other"

HwTypeOK ==
    /\ radio \in RadioStates
    /\ shorts \in SUBSET Shorts
    /\ events \in SUBSET Events
    /\ irqOn \in BOOLEAN
    /\ packetptr \in Buffers
    /\ dma \in Buffers
    /\ crcStatus \in BOOLEAN
    /\ pdu \in [Buffers -> Contents]
    /\ ppi \in [enabled: BOOLEAN, event: SUBSET {"EGU", "COMPARE0"},
                task: SUBSET {"TXEN", "RXEN"}, fork: BOOLEAN]
    /\ timer \in BOOLEAN
    /\ timerStop \in BOOLEAN
    /\ anomaly \in BOOLEAN

HwInit ==
    /\ radio = "DISABLED"
    /\ shorts = {}
    /\ events = {}
    /\ irqOn = FALSE
    /\ packetptr = 0
    /\ dma = 0
    /\ crcStatus = FALSE
    /\ pdu = [b \in Buffers |-> "zero"]
    /\ ppi = [enabled |-> FALSE, event |-> {}, task |-> {}, fork |-> FALSE]
    /\ timer = FALSE
    /\ timerStop = FALSE
    /\ anomaly = FALSE

IrqPending == irqOn /\ events \cap IntMask # {}

-----------------------------------------------------------------------------
(***************************************************************************)
(* Tasks.  TXEN and RXEN act on a disabled radio only.  With both tasks on *)
(* one DPPI channel either may win.                                        *)
(***************************************************************************)
RadioAfter(tasks) ==
    IF radio # "DISABLED" \/ tasks = {} THEN {radio}
    ELSE {IF t = "TXEN" THEN "TXRU" ELSE "RXRU" : t \in tasks}

\* What DISABLE leaves: the receiver stops at once, the transmitter ramps down.
DisableTask(r) == IF r \in Transmitting \cup {"TXDISABLE"}
                  THEN "TXDISABLE" ELSE "DISABLED"

\* Endpoints of the channel.  PPI holds one event and one task; on DPPI an
\* endpoint that is set up joins those that were not cleared.
EndpointSetup(old, new) == IF Dppi THEN old \cup {new} ELSE {new}
EndpointClear(old, gone) == IF Dppi THEN old \ {gone} ELSE {}

\* Channel p receives `event`: its tasks and its fork (TIMER START) fire.
Fires(p, event) == p.enabled /\ event \in p.event
Channel(p, event) ==
    /\ radio' \in RadioAfter(IF Fires(p, event) THEN p.task ELSE {})
    /\ timer' = (timer \/ (Fires(p, event) /\ p.fork))

-----------------------------------------------------------------------------
(***************************************************************************)
(* What the peripherals do on their own.                                   *)
(***************************************************************************)
\* Ramp-up ends: READY, and through READY_START the packet starts, which
\* latches PACKETPTR.
HwReady ==
    /\ radio \in {"RXRU", "TXRU"}
    /\ events' = events \cup {"READY"}
    /\ IF "READY_START" \in shorts
       THEN /\ radio' = IF radio = "RXRU" THEN "RX" ELSE "TX"
            /\ dma' = packetptr
       ELSE /\ radio' = IF radio = "RXRU" THEN "RXIDLE" ELSE "TXIDLE"
            /\ UNCHANGED dma
    /\ UNCHANGED <<shorts, irqOn, packetptr, crcStatus, pdu, loopVars, anomaly>>

\* The receiver sees the access address of a packet.
HwAddress ==
    /\ radio = "RX"
    /\ radio' = "RXPACKET"
    /\ events' = events \cup {"ADDRESS"}
    /\ UNCHANGED <<shorts, irqOn, packetptr, dma, crcStatus, pdu, loopVars, anomaly>>

\* END of a reception: the packet is in the latched buffer.
HwRxEnd(pkt) ==
    /\ radio = "RXPACKET"
    /\ pdu' = [pdu EXCEPT ![dma] = StoredAs(pkt)]
    /\ crcStatus' = (pkt # "corrupt")
    /\ IF "END_DISABLE" \in shorts
       THEN radio' = "DISABLED" /\ events' = events \cup {"END", "DISABLED"}
       ELSE radio' = "RXIDLE" /\ events' = events \cup {"END"}
    /\ UNCHANGED <<shorts, irqOn, packetptr, dma, loopVars, anomaly>>

\* END of a transmission.
HwTxEnd ==
    /\ radio = "TX"
    /\ events' = events \cup {"END"}
    /\ radio' = IF "END_DISABLE" \in shorts THEN "TXDISABLE" ELSE "TXIDLE"
    /\ UNCHANGED <<shorts, irqOn, packetptr, dma, crcStatus, pdu, loopVars, anomaly>>

\* The transmitter has ramped down.
HwDisabled ==
    /\ radio = "TXDISABLE"
    /\ radio' = "DISABLED"
    /\ events' = events \cup {"DISABLED"}
    /\ UNCHANGED <<shorts, irqOn, packetptr, dma, crcStatus, pdu, loopVars, anomaly>>

\* COMPARE0 of the DTM timer, every packet interval, reaches the channel.
HwCompare0 ==
    /\ timer
    /\ Fires(ppi, "COMPARE0")
    /\ Channel(ppi, "COMPARE0")
    /\ UNCHANGED <<shorts, events, irqOn, packetptr, dma, crcStatus, pdu,
                   ppi, timerStop, anomaly>>

\* COMPARE1 (front-end module activation) stops a one-shot DTM timer.
HwCompare1 ==
    /\ timer /\ timerStop
    /\ timer' = FALSE
    /\ UNCHANGED <<radioVars, ppi, timerStop, anomaly>>

HwQuiet == HwReady \/ HwAddress \/ HwTxEnd \/ HwDisabled \/ HwCompare0 \/ HwCompare1
=============================================================================
