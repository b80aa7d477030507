--------------------------- MODULE DtmPacketProofs ---------------------------
(***************************************************************************)
(* Theorems about DtmPacket, for every set of packets, lengths and CTE     *)
(* times.                                                                  *)
(***************************************************************************)
EXTENDS DtmPacket, TLAPS

CteType == cte \in [mode: CteModes, time: 0..CTE_LENGTH_MAX, info: 0..255]

\* Least multiple of 625 that leaves 249 us.
LEMMA RoundsUp ==
    ASSUME NEW n \in Nat
    PROVE  /\ 625 * ((n + 249 + 624) \div 625) \in Nat
           /\ n + 249 <= 625 * ((n + 249 + 624) \div 625)
<1> DEFINE m == n + 249 + 624
           q == m \div 625
<1>1. m \in Nat /\ 625 * q + (m % 625) = m /\ m % 625 \in 0..624 /\ q \in Nat
  OBVIOUS
<1> HIDE DEF m
<1>2. 625 * q \in Nat
  BY <1>1
<1>3. m - 624 <= 625 * q
  BY <1>1
<1> QED
  BY <1>2, <1>3 DEF m

\* The code's packet length is short of the time on air by at most 88 us, which
\* leaves room for the ramp-up in the 249 us: one case per PHY.
LEMMA RampUpFits ==
    ASSUME radio_mode \in Phys, CteType, NEW length \in 0..255
    PROVE  /\ TestPacketLength(length) \in Nat /\ AirTime(length) + RampUp \in Nat
           /\ AirTime(length) + RampUp <= TestPacketLength(length) + 249
<1>1. cte.time \in 0..20
  BY DEF CteType, CTE_LENGTH_MAX
<1> USE <1>1
    DEF TestPacketLength, AirTime, AirOverhead, OctetTime, RampUp, Overhead, Coding, ModeValue
<1>2. CASE radio_mode = "BLE_1MBIT"
  BY <1>2
<1>3. CASE radio_mode = "BLE_2MBIT"
  <2>1. (8 * length * 1 + 88) \div 2 = 4 * length + 44
    OBVIOUS
  <2> QED
    BY <1>3, <2>1
<1>4. CASE radio_mode = "BLE_LR125KBIT"
  BY <1>4
<1>5. CASE radio_mode = "BLE_LR500KBIT"
  BY <1>5
<1> QED
  BY <1>2, <1>3, <1>4, <1>5 DEF Phys, Uncoded

\* A CTE that is on has a CTEInfo octet no pattern a receiver counts begins with.
CteInfos == 128..223
InfoOK == cte.mode # CteOff => cte.info \in CteInfos

\* The interval is the one of the packet in the buffer while the settings it
\* was composed under hold.
PacingInv ==
    /\ radio_mode \in Phys
    /\ CteType
    /\ InfoOK
    /\ own \in BOOLEAN
    /\ own => content[1] \in 0..255 /\ interval = PacketInterval(content[1])

LEMMA PacingInit == Init => PacingInv
<1> SUFFICES ASSUME Init PROVE PacingInv
  OBVIOUS
<1>1. radio_mode \in Phys /\ own = FALSE
  BY DEF Init, Phys, Uncoded
<1>2. CteType /\ InfoOK
  BY DEF Init, CteType, InfoOK, NoCte, CteModes, CteOff, CTE_LENGTH_MAX
<1> QED
  BY <1>1, <1>2 DEF PacingInv

LEMMA PacingFits == PacingInv => PacketFits
<1> SUFFICES ASSUME PacingInv, own PROVE AirTime(content[1]) + RampUp <= interval
  BY DEF PacketFits
<1> DEFINE length == content[1]
<1>1. length \in 0..255 /\ interval = PacketInterval(length)
  BY DEF PacingInv
<1>2. /\ TestPacketLength(length) \in Nat /\ AirTime(length) + RampUp \in Nat
      /\ AirTime(length) + RampUp <= TestPacketLength(length) + 249
  BY <1>1, RampUpFits DEF PacingInv
<1>3. interval \in Nat /\ TestPacketLength(length) + 249 <= interval
  BY <1>1, <1>2, RoundsUp DEF PacketInterval
<1> QED
  BY <1>2, <1>3

LEMMA SetupSettings ==
    ASSUME radio_mode \in Phys, CteType, InfoOK, Setup
    PROVE  radio_mode' \in Phys /\ CteType' /\ InfoOK'
<1> USE DEF CteType, CteModes, CteOff, CTE_LENGTH_MAX, CTE_LENGTH_MIN, InfoOK
<1>1. CASE SetupReset
  BY <1>1 DEF SetupReset, NoCte, Phys, Uncoded
<1>2. CASE \E phy \in Phys : SetupPhy(phy)
  BY <1>2 DEF SetupPhy
<1>3. ASSUME NEW type \in {"NONE", "AOA", "AOD_1US", "AOD_2US"}, NEW time \in Times,
             SetupCteMode(type, time)
      PROVE  radio_mode' \in Phys /\ CteType' /\ InfoOK'
  <2>1. CASE type = "NONE"
    BY <1>3, <2>1 DEF SetupCteMode
  <2>2. CASE type # "NONE"
    <3>1. time \in 2..20
      BY <1>3, <2>2 DEF SetupCteMode
    <3>2. \A mode \in {2, 3} : CteInfo(mode, time) \in 0..255 /\ CteInfo(mode, time) \in CteInfos
      BY <3>1 DEF CteInfo, CteInfos
    <3> QED
      BY <1>3, <2>2, <3>1, <3>2 DEF SetupCteMode, CteOn
  <2> QED
    BY <2>1, <2>2
<1> QED
  BY <1>1, <1>2, <1>3 DEF Setup

LEMMA SetupPacing == PacingInv /\ Setup => PacingInv'
<1> SUFFICES ASSUME PacingInv, Setup PROVE PacingInv'
  OBVIOUS
<1>1. radio_mode' \in Phys /\ CteType' /\ InfoOK'
  BY SetupSettings DEF PacingInv
<1>2. Resettled
  BY DEF Setup, SetupReset, SetupPhy, SetupCteMode
<1>3. own' \in BOOLEAN
  BY <1>2 DEF Resettled
<1>4. own' => own /\ UNCHANGED <<radio_mode, cte, content, interval>>
  BY <1>2 DEF Resettled
<1>5. own' => content'[1] \in 0..255 /\ interval' = PacketInterval(content[1])'
  <2> SUFFICES ASSUME own'
               PROVE  content'[1] \in 0..255 /\ interval' = PacketInterval(content[1])'
    OBVIOUS
  <2>1. PacketInterval(content[1])' = PacketInterval(content[1])
    BY <1>4 DEF PacketInterval, TestPacketLength
  <2> QED
    BY <1>4, <2>1 DEF PacingInv
<1> QED
  BY <1>1, <1>3, <1>5 DEF PacingInv

LEMMA TransmitPacing ==
    ASSUME PacingInv, NEW pkt, NEW length \in Lengths, Transmit(pkt, length)
    PROVE  PacingInv'
<1>1. 1 \in Offsets
  BY PacketAssumption DEF Offsets
<1>2. content'[1] = length
  BY <1>1 DEF Transmit, Composed
<1>3. length \in 0..255
  BY PacketAssumption
<1>4. interval' = PacketInterval(length) /\ own' = TRUE /\ UNCHANGED <<radio_mode, cte>>
  BY DEF Transmit, settings
<1> QED
  BY <1>2, <1>3, <1>4 DEF PacingInv, CteType, InfoOK, PacketInterval, TestPacketLength

LEMMA NextPacing == PacingInv /\ [Next]_vars => PacingInv'
<1> SUFFICES ASSUME PacingInv, [Next]_vars PROVE PacingInv'
  OBVIOUS
<1>1. CASE Damage
  BY <1>1 DEF Damage, PacingInv, CteType, InfoOK, settings
<1>2. CASE Hear \/ UNCHANGED vars
  BY <1>2 DEF Hear, vars, settings, PacingInv, CteType, InfoOK, PacketInterval, TestPacketLength
<1> QED
  BY <1>1, <1>2, SetupPacing, TransmitPacing DEF Next

\* The transmitter loop never overruns itself: whatever PHY, CTE and length were
\* set, the radio has sent a packet and is ready before the timer starts the next.
THEOREM PacketsFit == Spec => []PacketFits
BY PacingInit, NextPacing, PacingFits, PTL DEF Spec

-----------------------------------------------------------------------------
(***************************************************************************)
(* The octets of the patterns.                                             *)
(***************************************************************************)
LEMMA SequenceOctets ==
    ASSUME NEW k \in 0..7
    PROVE  Sequence["PRBS9"][k + 1] \in 0..255 /\ Sequence["PRBS15"][k + 1] \in 0..255
<1> DEFINE prbs9 == <<255, 193, 251, 232, 76, 144, 114, 139>>
           prbs15 == <<255, 127, 0, 32, 0, 24, 0, 10>>
<1>1. Sequence["PRBS9"] = prbs9 /\ Sequence["PRBS15"] = prbs15
  BY DEF Sequence
<1>2. \A i \in 1..8 : prbs9[i] \in 0..255 /\ prbs15[i] \in 0..255
  OBVIOUS
<1>3. k + 1 \in 1..8
  OBVIOUS
<1> QED
  BY ONLY <1>1, <1>2, <1>3

LEMMA OctetIsOctet ==
    ASSUME NEW type \in 0..7, NEW k \in 0..7
    PROVE  Octet(type, k) \in 0..255
<1>1. CASE type = 0
  BY <1>1, SequenceOctets DEF Octet
<1>2. CASE type = 3
  BY <1>2, SequenceOctets DEF Octet
<1>3. CASE type \notin {0, 3}
  <2>1. Octet(type, k) = Repeated(type)
    BY <1>3 DEF Octet
  <2>2. Repeated(type) \in {15, 85, 255, 0, 240, 170}
    BY <1>3 DEF Repeated
  <2> QED
    BY <2>1, <2>2
<1> QED
  BY <1>1, <1>2, <1>3

\* How the packets a receiver may count begin: apart from a CTEInfo octet, and
\* a pseudo-random sequence apart from itself one octet on.
LEMMA FirstOctets ==
    /\ \A type \in 0..4 : Octet(type, 0) \notin CteInfos
    /\ Octet(0, 0) = 255 /\ Octet(3, 0) = 255
    /\ Octet(0, 1) = 193 /\ Octet(3, 1) = 127
<1>1. Octet(0, 0) = 255 /\ Octet(0, 1) = 193
  BY DEF Octet, Sequence
<1>2. Octet(3, 0) = 255 /\ Octet(3, 1) = 127
  BY DEF Octet, Sequence
<1>3. Octet(1, 0) = 15 /\ Octet(2, 0) = 85 /\ Octet(4, 0) = 255
  BY DEF Octet, Repeated
<1>4. \A type \in 0..4 : type = 0 \/ type = 1 \/ type = 2 \/ type = 3 \/ type = 4
  OBVIOUS
<1> QED
  BY <1>1, <1>2, <1>3, <1>4 DEF CteInfos

LEMMA PduTypeOfName == ASSUME NEW pkt \in PacketNames PROVE PduType(pkt) \in 0..7
<1>1. \E i \in 1..8 : PduTypes[i] = pkt
  <2>1. PduTypes[1] = "PRBS9" /\ PduTypes[2] = "0F" /\ PduTypes[3] = "55" /\ PduTypes[4] = "PRBS15"
    BY DEF PduTypes
  <2>2. PduTypes[5] = "FF" /\ PduTypes[6] = "00" /\ PduTypes[7] = "F0" /\ PduTypes[8] = "AA"
    BY DEF PduTypes
  <2> QED
    BY <2>1, <2>2 DEF PacketNames
<1> DEFINE i == CHOOSE i \in 1..8 : PduTypes[i] = pkt
<1>2. i \in 1..8 /\ PduType(pkt) = i - 1
  BY <1>1 DEF PduType
<1> HIDE DEF i
<1> QED
  BY ONLY <1>2

-----------------------------------------------------------------------------
(***************************************************************************)
(* What the buffer holds: the packet the settings that hold compose, or a  *)
(* packet with a damaged octet somewhere in its payload.                   *)
(***************************************************************************)
BufferOK == content \in [Offsets -> 0..255]
TimingOK == interval \in Nat /\ interval % 625 = 0
HistoryOK == verdict \in {"none", "counted", "ignored"} /\ own \in BOOLEAN /\ intact \in BOOLEAN

OwnIsComposed ==
    own => content[0] % 16 \in 0..7 /\ content = Composed(content[0] % 16, content[1])

\* Payload octet o of a packet with that header is wrong.  A receiver that takes
\* the header for one octet longer or shorter sees it in the octet before or
\* after: a CTEInfo octet no pattern begins with, a sequence one octet on.
DamageAt(header, o) ==
    /\ o \in header..(header + content[1] - 1)
    /\ content[o] # Octet(content[0] % 16, o - header)
    /\ header = 3 => content[2] \in CteInfos
    /\ header = 2 /\ ~Repeats(content[0] % 16) => content[3] # 255

DamageShows ==
    ~intact => /\ content[0] % 16 \in 0..7
               /\ \E header \in {2, 3}, o \in Offsets : DamageAt(header, o)

SettingsOK == radio_mode \in Phys /\ CteType /\ InfoOK
Buffered == BufferOK /\ OwnIsComposed /\ DamageShows
Judged == CountsItsOwn /\ DamagedIsIgnored
PacketInv == SettingsOK /\ TimingOK /\ HistoryOK /\ Buffered /\ Judged

\* The offsets of the header and of two octets of payload are all kept.
LEMMA HeaderKept == /\ 0 \in Offsets /\ 1 \in Offsets /\ 2 \in Offsets /\ 3 \in Offsets
                    /\ \A o \in Offsets : o \in 0..9
BY PacketAssumption DEF Offsets

LEMMA ComposedHeader ==
    ASSUME NEW type \in 0..7, NEW length, SettingsOK
    PROVE  /\ Composed(type, length)[0] % 16 = type
           /\ Composed(type, length)[0] \in 0..255
           /\ Composed(type, length)[1] = length
           /\ cte.mode # CteOff => Composed(type, length)[2] = cte.info
<1>1. Composed(type, length)[0] = type + (IF cte.mode = CteOff THEN 0 ELSE 32)
  BY HeaderKept DEF Composed, DTM_PKT_CP_BIT
<1>2. type % 16 = type /\ (type + 32) % 16 = type /\ type \in 0..255 /\ type + 32 \in 0..255
  OBVIOUS
<1>3. Composed(type, length)[1] = length
  BY HeaderKept DEF Composed
<1>4. cte.mode # CteOff => Composed(type, length)[2] = cte.info
  BY HeaderKept DEF Composed, HeaderLen
<1> QED
  BY <1>1, <1>2, <1>3, <1>4

LEMMA ComposedPayload ==
    ASSUME NEW type \in 0..7, NEW length \in 0..255, NEW o \in Offsets, o >= HeaderLen
    PROVE  Composed(type, length)[o] =
               IF o < HeaderLen + length THEN Octet(type, o - HeaderLen) ELSE 0
<1>1. HeaderLen \in {2, 3} /\ o \in 0..9
  BY HeaderKept DEF HeaderLen
<1>2. o # 0 /\ o # 1 /\ ~(o < HeaderLen)
  BY <1>1
<1> QED
  BY <1>2 DEF Composed

LEMMA ComposedTyped ==
    ASSUME NEW type \in 0..7, NEW length \in 0..255, SettingsOK
    PROVE  Composed(type, length) \in [Offsets -> 0..255]
<1>1. ASSUME NEW o \in Offsets PROVE Composed(type, length)[o] \in 0..255
  <2>1. HeaderLen \in {2, 3} /\ o \in 0..9
    BY HeaderKept DEF HeaderLen
  <2>2. CASE o >= HeaderLen
    <3>1. PICK k \in 0..7 : k = o - HeaderLen
      BY ONLY <2>1, <2>2
    <3>2. Octet(type, k) \in 0..255
      BY OctetIsOctet
    <3>3. Composed(type, length)[o] =
              IF o < HeaderLen + length THEN Octet(type, o - HeaderLen) ELSE 0
      BY <2>2, ComposedPayload
    <3>4. Composed(type, length)[o] = Octet(type, k) \/ Composed(type, length)[o] = 0
      BY ONLY <3>1, <3>3
    <3> QED
      BY ONLY <3>2, <3>4
  <2>3. CASE o = 0 \/ o = 1
    BY <2>3, ComposedHeader
  <2>4. CASE o = 2 /\ HeaderLen = 3
    <3>1. cte.mode # CteOff /\ cte.info \in 0..255
      BY <2>4 DEF HeaderLen, SettingsOK, CteType
    <3> QED
      BY <3>1, <2>4, ComposedHeader
  <2>5. o >= HeaderLen \/ o = 0 \/ o = 1 \/ (o = 2 /\ HeaderLen = 3)
    BY ONLY <2>1
  <2> QED
    BY <2>2, <2>3, <2>4, <2>5
<1>2. Composed(type, length) = [o \in Offsets |-> Composed(type, length)[o]]
  BY DEF Composed
<1> QED
  BY ONLY <1>1, <1>2

-----------------------------------------------------------------------------
(***************************************************************************)
(* check_pdu.                                                              *)
(***************************************************************************)
\* Of its own packet without a CTE every octet is as it should be.
LEMMA OwnPasses ==
    ASSUME SettingsOK, Buffered, own, cte.mode = CteOff, content[0] % 16 <= MaxType,
           NEW sampled
    PROVE  CheckPdu(sampled)
<1> DEFINE type == content[0] % 16
           length == content[1]
<1>1. type \in 0..7 /\ content = Composed(type, length) /\ length \in 0..255 /\ HeaderLen = 2
  BY HeaderKept DEF Buffered, BufferOK, OwnIsComposed, HeaderLen
<1>2. ASSUME NEW o \in Offsets, o \in 2..(2 + length - 1) PROVE content[o] = Octet(type, o - 2)
  <2>1. o >= HeaderLen /\ o < HeaderLen + length
    BY <1>1, <1>2
  <2>2. Composed(type, length)[o] =
            IF o < HeaderLen + length THEN Octet(type, o - HeaderLen) ELSE 0
    BY <1>1, <2>1, ComposedPayload
  <2> QED
    BY <1>1, <2>1, <2>2
<1>3. Filled(type, 2, length)
  BY <1>2 DEF Filled
<1> QED
  BY <1>1, <1>3 DEF CheckPdu

\* Of a damaged packet some octet is not, whatever header the receiver expects.
LEMMA DamagedFails ==
    ASSUME SettingsOK, Buffered, ~intact, NEW sampled, CheckPdu(sampled)
    PROVE  FALSE
<1> DEFINE type == content[0] % 16
           length == content[1]
<1>1. type \in 0..7 /\ length \in 0..255 /\ type <= MaxType /\ type \in 0..4
  <2>1. type \in 0..7 /\ type <= MaxType
    BY DEF Buffered, DamageShows, CheckPdu
  <2>2. MaxType \in {2, 4}
    BY DEF MaxType
  <2>3. length \in 0..255
    BY HeaderKept DEF Buffered, BufferOK
  <2> QED
    BY ONLY <2>1, <2>2, <2>3
<1>2. PICK header \in {2, 3}, bad \in Offsets : DamageAt(header, bad)
  BY DEF Buffered, DamageShows
<1>3. /\ bad \in header..(header + length - 1) /\ content[bad] # Octet(type, bad - header)
      /\ header = 3 => content[2] \in CteInfos
      /\ header = 2 /\ ~Repeats(type) => content[3] # 255
  BY <1>2 DEF DamageAt
<1> HIDE DEF type, length
<1>4. length >= 1
  BY ONLY <1>1, <1>3, header \in {2, 3}
<1>5. PICK first \in {2, 3} : Filled(type, first, length) /\ (Repeats(type) => first = 2)
  BY DEF CheckPdu, HeaderLen, type, length
<1>6. \A o \in Offsets : o \in first..(first + length - 1) => content[o] = Octet(type, o - first)
  BY <1>5 DEF Filled
<1>7. first # header
  BY <1>3, <1>6
<1>8. first \in Offsets /\ first \in first..(first + length - 1) /\ first - first = 0
  BY <1>1, <1>4, HeaderKept
<1>9. content[first] = Octet(type, 0)
  BY <1>6, <1>8
<1>10. CASE header = 3
  BY <1>1, <1>3, <1>7, <1>9, <1>10, FirstOctets
<1>11. CASE header = 2
  <2>1. first = 3 /\ ~Repeats(type) /\ content[3] # 255
    BY <1>3, <1>5, <1>7, <1>11
  <2>2. type \in {0, 3}
    BY <2>1 DEF Repeats
  <2> QED
    BY <1>9, <2>1, <2>2, FirstOctets
<1> QED
  BY <1>10, <1>11

-----------------------------------------------------------------------------
(***************************************************************************)
(* The steps.                                                              *)
(***************************************************************************)
LEMMA InitPacket == Init => PacketInv
<1> SUFFICES ASSUME Init PROVE PacketInv
  OBVIOUS
<1>1. SettingsOK
  BY DEF Init, SettingsOK, Phys, Uncoded, CteType, InfoOK, NoCte, CteModes, CteOff, CTE_LENGTH_MAX
<1>2. BufferOK
  BY DEF Init, BufferOK
<1>3. TimingOK /\ HistoryOK
  <2>1. 0 \in Nat /\ 0 % 625 = 0
    OBVIOUS
  <2> QED
    BY <2>1 DEF Init, TimingOK, HistoryOK
<1>4. OwnIsComposed /\ DamageShows /\ Judged
  BY DEF Init, OwnIsComposed, DamageShows, Judged, CountsItsOwn, DamagedIsIgnored
<1> QED
  BY <1>1, <1>2, <1>3, <1>4 DEF PacketInv, Buffered

\* Settings change under the packet: it is no longer one of theirs.
LEMMA SetupPacket == PacketInv /\ Setup => PacketInv'
<1> SUFFICES ASSUME PacketInv, Setup PROVE PacketInv'
  OBVIOUS
<1>1. SettingsOK'
  BY SetupSettings DEF PacketInv, SettingsOK
<1>2. Resettled
  BY DEF Setup, SetupReset, SetupPhy, SetupCteMode
<1>3. /\ own' \in BOOLEAN /\ verdict' = "none" /\ UNCHANGED <<content, interval, intact>>
      /\ own' => own /\ UNCHANGED <<radio_mode, cte>>
  BY <1>2 DEF Resettled
<1>4. TimingOK' /\ HistoryOK' /\ BufferOK' /\ Judged'
  BY <1>3 DEF PacketInv, Buffered, TimingOK, HistoryOK, BufferOK, Judged, CountsItsOwn,
              DamagedIsIgnored
<1>5. OwnIsComposed'
  BY <1>3 DEF PacketInv, Buffered, OwnIsComposed, Composed, HeaderLen
<1>6. DamageShows'
  BY <1>3 DEF PacketInv, Buffered, DamageShows, DamageAt
<1> QED
  BY <1>1, <1>4, <1>5, <1>6 DEF PacketInv, Buffered

LEMMA IntervalIsWhole ==
    ASSUME SettingsOK, NEW length \in 0..255
    PROVE  PacketInterval(length) \in Nat /\ PacketInterval(length) % 625 = 0
<1>1. TestPacketLength(length) \in Nat
  BY RampUpFits DEF SettingsOK
<1>2. PICK q \in Nat : q = (TestPacketLength(length) + 249 + 624) \div 625
  BY <1>1
<1>3. 625 * q \in Nat /\ (625 * q) % 625 = 0
  OBVIOUS
<1> QED
  BY <1>2, <1>3 DEF PacketInterval

LEMMA TransmitPacket ==
    ASSUME PacketInv, NEW pkt \in Packets, NEW length \in Lengths, Transmit(pkt, length)
    PROVE  PacketInv'
<1> DEFINE type == PduType(pkt)
<1>1. type \in 0..7 /\ length \in 0..255
  BY PduTypeOfName, PacketAssumption
<1> HIDE DEF type
<1>2. /\ content' = Composed(type, length) /\ interval' = PacketInterval(length)
      /\ verdict' = "none" /\ own' = TRUE /\ intact' = TRUE /\ UNCHANGED <<radio_mode, cte>>
  BY DEF Transmit, settings, type
<1>3. SettingsOK' /\ HistoryOK' /\ Judged' /\ DamageShows'
  BY <1>2 DEF PacketInv, SettingsOK, CteType, InfoOK, HistoryOK, Judged, CountsItsOwn,
              DamagedIsIgnored, DamageShows
<1>4. TimingOK'
  BY <1>1, <1>2, IntervalIsWhole DEF PacketInv, TimingOK
<1>5. BufferOK'
  BY <1>1, <1>2, ComposedTyped DEF PacketInv, BufferOK
<1>6. OwnIsComposed'
  <2>1. content'[0] % 16 = type /\ content'[1] = length
    BY <1>1, <1>2, ComposedHeader DEF PacketInv
  <2>2. Composed(content[0] % 16, content[1])' = Composed(type, length)
    BY <1>2, <2>1 DEF Composed, HeaderLen
  <2> QED
    BY <1>1, <1>2, <2>1, <2>2 DEF OwnIsComposed
<1> QED
  BY <1>3, <1>4, <1>5, <1>6 DEF PacketInv, Buffered

\* The octet that is damaged shows to every receiver, see DamageAt.
LEMMA DamagePacket == PacketInv /\ Damage => PacketInv'
<1> SUFFICES ASSUME PacketInv, Damage PROVE PacketInv'
  OBVIOUS
<1> DEFINE type == content[0] % 16
           length == content[1]
<1>1. PICK bad \in Offsets : /\ bad \in HeaderLen..(HeaderLen + length - 1)
                             /\ content' = [content EXCEPT ![bad] = (content[bad] + 1) % 256]
  BY DEF Damage
<1>2. /\ own /\ own' = FALSE /\ intact' = FALSE /\ verdict' = "none"
      /\ UNCHANGED <<radio_mode, cte, interval>>
  BY DEF Damage, settings
<1>3. SettingsOK' /\ TimingOK' /\ HistoryOK' /\ Judged' /\ OwnIsComposed'
  BY <1>2 DEF PacketInv, SettingsOK, CteType, InfoOK, TimingOK, HistoryOK, Judged,
              CountsItsOwn, DamagedIsIgnored, OwnIsComposed
<1>4. /\ content \in [Offsets -> 0..255] /\ length \in 0..255
      /\ type \in 0..7 /\ content = Composed(type, length)
  BY <1>2, HeaderKept DEF PacketInv, Buffered, BufferOK, OwnIsComposed
<1>5. BufferOK'
  <2>1. content[bad] \in 0..255
    BY <1>4
  <2>2. (content[bad] + 1) % 256 \in 0..255
    BY <2>1
  <2> QED
    BY <1>1, <1>4, <2>2 DEF BufferOK
<1>6. HeaderLen \in {2, 3} /\ bad \in 0..9 /\ bad >= HeaderLen /\ bad < HeaderLen + length
  BY <1>1, <1>4, HeaderKept DEF HeaderLen
<1>7. /\ content'[bad] = (content[bad] + 1) % 256
      /\ \A o \in Offsets : o # bad => content'[o] = content[o]
  BY <1>1, <1>4
<1>8. bad # 0 /\ bad # 1
  BY <1>6
<1>9. content'[0] = content[0] /\ content'[1] = content[1]
  BY <1>7, <1>8, HeaderKept
<1> HIDE DEF type, length
<1>10. content[bad] = Octet(type, bad - HeaderLen)
  <2>1. Composed(type, length)[bad] =
            IF bad < HeaderLen + length THEN Octet(type, bad - HeaderLen) ELSE 0
    BY <1>4, <1>6, ComposedPayload
  <2> QED
    BY <1>4, <1>6, <2>1
<1>11. content'[bad] # Octet(type, bad - HeaderLen)
  <2>1. content[bad] \in 0..255
    BY <1>4
  <2>2. \A octet \in 0..255 : (octet + 1) % 256 # octet
    OBVIOUS
  <2> QED
    BY <1>7, <1>10, <2>1, <2>2
<1>12. HeaderLen = 3 => content'[2] \in CteInfos
  <2> SUFFICES ASSUME HeaderLen = 3 PROVE content'[2] \in CteInfos
    OBVIOUS
  <2>1. bad # 2 /\ cte.mode # CteOff
    BY <1>6 DEF HeaderLen
  <2>2. content[2] = cte.info /\ cte.info \in CteInfos
    BY <1>4, <2>1, ComposedHeader DEF PacketInv, SettingsOK, InfoOK
  <2> QED
    BY <1>7, <2>1, <2>2, HeaderKept
<1>13. HeaderLen = 2 /\ ~Repeats(type) => content'[3] # 255
  <2> SUFFICES ASSUME HeaderLen = 2, ~Repeats(type) PROVE content'[3] # 255
    OBVIOUS
  <2>1. content[3] = (IF 3 < 2 + length THEN Octet(type, 1) ELSE 0) /\ type \in {0, 3}
    <3>1. 3 \in Offsets /\ 3 >= HeaderLen /\ 3 - HeaderLen = 1
      BY HeaderKept
    <3>2. Composed(type, length)[3] =
              IF 3 < HeaderLen + length THEN Octet(type, 3 - HeaderLen) ELSE 0
      BY <1>4, <3>1, ComposedPayload
    <3> QED
      BY <1>4, <3>1, <3>2 DEF Repeats
  <2>2. content[3] \in {193, 127, 0}
    BY <2>1, FirstOctets
  <2>3. content'[3] = content[3] \/ content'[3] = (content[3] + 1) % 256
    BY <1>7, HeaderKept
  <2> QED
    BY ONLY <2>2, <2>3
<1>14. DamageShows'
  <2>1. (content[0] % 16)' = type /\ content[1]' = length
    BY <1>9 DEF type, length
  <2>2. DamageAt(2, bad)' \/ DamageAt(3, bad)'
    <3>1. CASE HeaderLen = 2
      BY <1>1, <1>11, <1>13, <2>1, <3>1 DEF DamageAt, length
    <3>2. CASE HeaderLen = 3
      BY <1>1, <1>11, <1>12, <2>1, <3>2 DEF DamageAt, length
    <3> QED
      BY <1>6, <3>1, <3>2
  <2> QED
    BY <1>4, <2>1, <2>2 DEF DamageShows
<1> QED
  BY <1>3, <1>5, <1>14 DEF PacketInv, Buffered

LEMMA HearPacket == PacketInv /\ Hear => PacketInv'
<1> SUFFICES ASSUME PacketInv, Hear PROVE PacketInv'
  OBVIOUS
<1>1. UNCHANGED <<radio_mode, cte, content, interval, own, intact>>
  BY DEF Hear, settings
<1>2. PICK sampled \in BOOLEAN : verdict' = IF CheckPdu(sampled) THEN "counted" ELSE "ignored"
  BY DEF Hear
<1>3. SettingsOK' /\ TimingOK' /\ HistoryOK' /\ BufferOK'
  BY <1>1, <1>2 DEF PacketInv, Buffered, SettingsOK, CteType, InfoOK, TimingOK, HistoryOK, BufferOK
<1>4. OwnIsComposed' /\ DamageShows'
  BY <1>1 DEF PacketInv, Buffered, OwnIsComposed, Composed, HeaderLen, DamageShows, DamageAt
<1>5. CountsItsOwn'
  <2> SUFFICES ASSUME own, cte.mode = CteOff, content[0] % 16 <= MaxType
               PROVE  verdict' # "ignored"
    BY <1>1 DEF CountsItsOwn, MaxType
  <2> QED
    BY <1>2, OwnPasses DEF PacketInv
<1>6. DamagedIsIgnored'
  BY <1>1, <1>2, DamagedFails DEF PacketInv, DamagedIsIgnored
<1> QED
  BY <1>3, <1>4, <1>5, <1>6 DEF PacketInv, Buffered, Judged

LEMMA NextPacket == PacketInv /\ [Next]_vars => PacketInv'
<1> SUFFICES ASSUME PacketInv, UNCHANGED vars PROVE PacketInv'
  BY SetupPacket, TransmitPacket, DamagePacket, HearPacket DEF Next
<1>1. UNCHANGED <<radio_mode, cte, content, interval, verdict, own, intact>>
  BY DEF vars, settings
<1> QED
  BY <1>1 DEF PacketInv, SettingsOK, CteType, InfoOK, TimingOK, HistoryOK, Buffered, BufferOK,
              OwnIsComposed, Composed, HeaderLen, DamageShows, DamageAt, Judged, CountsItsOwn,
              MaxType, DamagedIsIgnored

LEMMA PacketInvHolds == Spec => []PacketInv
BY InitPacket, NextPacket, PTL DEF Spec

\* The types of the packet module: every octet of the buffer is one, whatever was
\* composed or damaged, and the interval is a multiple of 625 us.
THEOREM TypeCorrect == Spec => []TypeOK
<1>1. PacketInv => TypeOK
  BY DEF PacketInv, SettingsOK, CteType, Buffered, BufferOK, TimingOK, HistoryOK, TypeOK
<1> QED
  BY <1>1, PacketInvHolds, PTL

\* A receiver counts every packet of a type its PHY allows that a tester of its
\* settings composed, at every length, when no CTE is set.
THEOREM OwnPacketsCount == Spec => []CountsItsOwn
<1>1. PacketInv => CountsItsOwn
  BY DEF PacketInv, Judged
<1> QED
  BY <1>1, PacketInvHolds, PTL

\* check_pdu never counts a packet with a wrong payload octet, not even one
\* composed under another PHY or with a CTE the receiver does not expect.
THEOREM DamageIsSeen == Spec => []DamagedIsIgnored
<1>1. PacketInv => DamagedIsIgnored
  BY DEF PacketInv, Judged
<1> QED
  BY <1>1, PacketInvHolds, PTL
=============================================================================
