------------------------------- MODULE DtmPacket -------------------------------
(***************************************************************************)
(* Test packets, src/src/dtm.c with direction finding: the PHY and CTE     *)
(* settings, the packet dtm_test_transmit composes under them, its         *)
(* interval, and what check_pdu makes of a packet that is heard.           *)
(*                                                                         *)
(* The buffer is what a tester composed and put on air and the device      *)
(* finds in its own, zeroed, buffer; in between the settings may change and *)
(* an octet may be damaged: one module plays the tester and the device.    *)
(* The CTE slot is left out: it only says how many IQ samples to expect.   *)
(***************************************************************************)
EXTENDS Integers

CONSTANTS
    Packets,   \* the packets the transports ask for
    Lengths,   \* and their payload lengths, any uint8_t in the code
    Times,     \* CTE times asked for, any uint8_t in the code
    Octets     \* bound of the model: octets of payload kept in the buffer

PacketNames == {"PRBS9", "0F", "55", "PRBS15", "FF", "00", "F0", "AA"}

ASSUME PacketAssumption ==
    /\ Packets \subseteq PacketNames
    /\ Lengths \subseteq 0..255 /\ Times \subseteq 0..255
    /\ Octets \in 1..7

VARIABLES
    radio_mode,  \* dtm_inst.radio_mode
    cte,         \* dtm_inst.cte_info: mode, time and info
    content,     \* the packet buffer
    interval,    \* the DTM timer's period, in us
    verdict,     \* what check_pdu said of the packet; "none" before it did
    own,         \* history: composed under the settings that hold now
    intact       \* history: no octet was damaged

settings == <<radio_mode, cte>>
vars == <<settings, content, interval, verdict, own, intact>>

-----------------------------------------------------------------------------
Uncoded == {"BLE_1MBIT", "BLE_2MBIT"}
Phys == Uncoded \cup {"BLE_LR125KBIT", "BLE_LR500KBIT"}
\* The value of nrf_radio_mode_t.
ModeValue == [BLE_1MBIT |-> 3, BLE_2MBIT |-> 4, BLE_LR125KBIT |-> 5, BLE_LR500KBIT |-> 6]

CteOff == 0
CteModes == {CteOff, 2, 3}          \* AOD = 2, AOA = 3
CTE_LENGTH_MIN == 2
CTE_LENGTH_MAX == 20
NoCte == [mode |-> CteOff, time |-> 0, info |-> 0]

\* enum dtm_pdu_type, in the order of its values.
PduTypes == <<"PRBS9", "0F", "55", "PRBS15", "FF", "00", "F0", "AA">>
PduType(pkt) == (CHOOSE i \in 1..8 : PduTypes[i] = pkt) - 1

\* The octets of the payload: the heads of the two sequences, or one value.
Sequence == [PRBS9  |-> <<255, 193, 251, 232, 76, 144, 114, 139>>,
             PRBS15 |-> <<255, 127, 0, 32, 0, 24, 0, 10>>]
Repeated(type) == CASE type = 1 -> 15 [] type = 2 -> 85 [] type = 4 -> 255
                    [] type = 5 -> 0 [] type = 6 -> 240 [] type = 7 -> 170
Octet(type, k) == CASE type = 0 -> Sequence["PRBS9"][k + 1]
                    [] type = 3 -> Sequence["PRBS15"][k + 1]
                    [] OTHER -> Repeated(type)

Offsets == 0..(Octets + 2)
DTM_PKT_CP_BIT == 32
Repeats(type) == type \notin {0, 3}

TypeOK ==
    /\ radio_mode \in Phys
    /\ cte \in [mode: CteModes, time: 0..CTE_LENGTH_MAX, info: 0..255]
    /\ content \in [Offsets -> 0..255]
    /\ interval \in Nat /\ interval % 625 = 0
    /\ verdict \in {"none", "counted", "ignored"}
    /\ own \in BOOLEAN /\ intact \in BOOLEAN

\* After dtm_init.
Init ==
    /\ radio_mode = "BLE_1MBIT"
    /\ cte = NoCte
    /\ content = [o \in Offsets |-> 0]
    /\ interval = 0
    /\ verdict = "none"
    /\ own = FALSE /\ intact = TRUE

-----------------------------------------------------------------------------
(***************************************************************************)
(* Settings.                                                               *)
(***************************************************************************)
Resettled == /\ own' = (own /\ UNCHANGED <<radio_mode, cte>>)
             /\ verdict' = "none"
             /\ UNCHANGED <<content, interval, intact>>

\* dtm_setup_reset: memset of the whole of cte_info.
SetupReset ==
    /\ radio_mode' = "BLE_1MBIT"
    /\ cte' = NoCte
    /\ Resettled

SetupPhy(phy) ==
    /\ radio_mode' = phy
    /\ UNCHANGED cte
    /\ Resettled

\* dtm_setup_set_cte_mode; a time out of range is refused before anything is
\* stored.
CteInfo(mode, time) == (time % 32) + 64 * mode
CteOn(mode, time) == [mode |-> mode, time |-> time, info |-> CteInfo(mode, time)]
SetupAnyCteTime(type, time) ==      \* mutant: the time is not checked
    /\ cte' = CteOn(IF type = "AOA" THEN 3 ELSE 2, time)
    /\ UNCHANGED radio_mode
    /\ Resettled
SetupCteMode(type, time) ==
    /\ \/ type = "NONE" /\ cte' = [cte EXCEPT !.mode = CteOff]
       \/ /\ type # "NONE" /\ time \in CTE_LENGTH_MIN..CTE_LENGTH_MAX
          /\ cte' = CteOn(IF type = "AOA" THEN 3 ELSE 2, time)
    /\ UNCHANGED radio_mode
    /\ Resettled

Setup ==
    \/ SetupReset
    \/ \E phy \in Phys : SetupPhy(phy)
    \/ \E type \in {"NONE", "AOA", "AOD_1US", "AOD_2US"}, time \in Times :
          SetupCteMode(type, time)

-----------------------------------------------------------------------------
(***************************************************************************)
(* dtm_test_transmit.                                                      *)
(***************************************************************************)
HeaderLen == IF cte.mode = CteOff THEN 2 ELSE 3

\* The packet as it arrives: octets that are not sent stay zero.
Composed(type, length) ==
    [o \in Offsets |->
        IF o = 0 THEN type + (IF cte.mode = CteOff THEN 0 ELSE DTM_PKT_CP_BIT)
        ELSE IF o = 1 THEN length
        ELSE IF o < HeaderLen THEN cte.info
        ELSE IF o < HeaderLen + length THEN Octet(type, o - HeaderLen) ELSE 0]

\* Overhead bits; the case of 1 Mbit tests for NRF_RADIO_MODE_NRF_1MBIT, which
\* no PHY selects.
Overhead == [BLE_1MBIT |-> 0, BLE_2MBIT |-> 88, BLE_LR125KBIT |-> 720, BLE_LR500KBIT |-> 462]
Coding   == [BLE_1MBIT |-> 1, BLE_2MBIT |-> 1, BLE_LR125KBIT |-> 8, BLE_LR500KBIT |-> 2]

\* test_packet_length as the code has it: with a CTE it adds the number of the
\* mode (the 8 and the 4 of the conditional expression go nowhere).
TestPacketLength(length) ==
    LET bits == 8 * length * Coding[radio_mode] + Overhead[radio_mode]
        time == IF radio_mode = "BLE_2MBIT" THEN bits \div 2 ELSE bits
    IN  IF cte.mode = CteOff THEN time ELSE time + ModeValue[radio_mode] + 8 * cte.time

\* The least positive multiple of 625 us with room for 249 us more.
PacketIntervalTight(length) ==      \* mutant: without the 249 us
    625 * ((TestPacketLength(length) + 624) \div 625)
PacketInterval(length) == 625 * ((TestPacketLength(length) + 249 + 624) \div 625)

Transmit(pkt, length) ==
    /\ content' = Composed(PduType(pkt), length)
    /\ interval' = PacketInterval(length)
    /\ verdict' = "none"
    /\ own' = TRUE /\ intact' = TRUE
    /\ UNCHANGED settings

-----------------------------------------------------------------------------
(***************************************************************************)
(* The air and check_pdu.                                                  *)
(***************************************************************************)
\* A payload octet is changed, the CRC is right: somebody else's packet.
Damage ==
    /\ \E o \in Offsets :
          /\ o \in HeaderLen..(HeaderLen + content[1] - 1)
          /\ content' = [content EXCEPT ![o] = (content[o] + 1) % 256]
    /\ own
    /\ intact' = FALSE /\ own' = FALSE
    /\ verdict' = "none"
    /\ UNCHANGED <<settings, interval>>

MaxType == IF radio_mode \in Uncoded THEN 2 ELSE 4

\* Payload octets from offset `first` on are those of the type.
Filled(type, first, length) ==
    \A o \in Offsets : o \in first..(first + length - 1) => content[o] = Octet(type, o - first)

\* Two octets of header are skipped for the repeated patterns, CTE or not, and
\* the CTEInfo octet is compared with the mode; sampled says whether the radio
\* took the number of IQ samples that is expected.
CheckPduLastOctet(sampled) ==       \* mutant: the last octet is not compared
    LET type == content[0] % 16
        length == content[1]
    IN  type <= MaxType /\ Filled(type, HeaderLen, length - 1)
CheckPduAnyHeader(sampled) ==       \* mutant: CTE header skipped without a CTE
    LET type == content[0] % 16
        length == content[1]
    IN  type <= MaxType /\ Filled(type, 3, length)
CheckPdu(sampled) ==
    LET type == content[0] % 16
        length == content[1]
    IN  /\ type <= MaxType
        /\ IF Repeats(type)
           THEN /\ Filled(type, 2, length)
                /\ cte.mode # CteOff => content[2] = cte.mode /\ sampled
           ELSE Filled(type, HeaderLen, length)

Hear ==
    /\ \E sampled \in BOOLEAN : verdict' = IF CheckPdu(sampled) THEN "counted" ELSE "ignored"
    /\ UNCHANGED <<settings, content, interval, own, intact>>

Next ==
    \/ Setup
    \/ \E pkt \in Packets, length \in Lengths : Transmit(pkt, length)
    \/ Damage
    \/ Hear

Spec == Init /\ [][Next]_vars

-----------------------------------------------------------------------------
\* The reference: time on air of a packet of the settings, in us (preamble,
\* sync word, header, length, CRC, CTEInfo octet and CTE of an uncoded PHY).
AirOverhead == [BLE_1MBIT |-> 80, BLE_2MBIT |-> 44, BLE_LR125KBIT |-> 720, BLE_LR500KBIT |-> 462]
OctetTime   == [BLE_1MBIT |-> 8, BLE_2MBIT |-> 4, BLE_LR125KBIT |-> 64, BLE_LR500KBIT |-> 16]
AirTime(length) ==
    AirOverhead[radio_mode] + OctetTime[radio_mode] * length
    + (IF cte.mode = CteOff \/ radio_mode \notin Uncoded THEN 0
       ELSE OctetTime[radio_mode] + 8 * cte.time)

RampUp == 140   \* us of radio ramp-up before a packet, without fast ramp-up

\* A packet of the transmitter test is over before the timer starts the next:
\* TXEN always finds the radio disabled, for every length, PHY and CTE.
PacketFits == own => AirTime(content[1]) + RampUp <= interval

\* A receiver counts what a tester of the same settings sends: every packet
\* type its PHY allows, at every length, without a CTE.
CountsItsOwn ==
    own /\ cte.mode = CteOff /\ content[0] % 16 <= MaxType => verdict # "ignored"

\* A packet with a wrong payload octet is never counted, not even when sender
\* and receiver disagree on PHY or CTE.
DamagedIsIgnored == ~intact => verdict # "counted"
=============================================================================
