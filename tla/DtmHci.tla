-------------------------------- MODULE DtmHci --------------------------------
(***************************************************************************)
(* The HCI transport, src/src/transport/dtm_hci.c, over the setup and test *)
(* functions of dtm.c, in the build with direction finding and coded PHYs. *)
(*                                                                         *)
(* A command is a sequence of library calls, each a step of its own: a     *)
(* call stores its part of the settings and may refuse, which answers the  *)
(* command and leaves what the calls before it stored.  dtm_setup_prepare  *)
(* comes first, so the radio is off until the last call of a command; the  *)
(* radio interrupt counts packets between commands.  The inside of the     *)
(* calls that touch the radio is module Dtm.                               *)
(*                                                                         *)
(* Commands and events are records; numbers keep their HCI value where the *)
(* code passes them on.  Assertions are on, as in prj.conf.                *)
(***************************************************************************)
EXTENDS Integers, Sequences

CONSTANTS
    Commands,      \* commands the tester sends
    PowerTable,    \* nrf_power_value, ascending
    MaxPattern,    \* MAX_ANT_PATTERN_LENGTH
    SwitchEntries, \* entries the radio's switch pattern holds
    CountMod,      \* 2^16 in the code: rx_pkt_count is a uint16_t
    MaxHeard       \* bound of the model: counted packets of one test

\* 0 dBm, the initial power, is in the table.
ASSUME HciAssumption ==
    /\ PowerTable \in Seq(Int) /\ Len(PowerTable) > 1
    /\ \A i, j \in 1..Len(PowerTable) : i < j => PowerTable[i] < PowerTable[j]
    /\ \E i \in 1..Len(PowerTable) : PowerTable[i] = 0
    /\ MaxPattern \in Nat \ {0} /\ SwitchEntries \in Nat \ {0}
    /\ CountMod \in Nat \ {0} /\ MaxHeard \in Nat

VARIABLES
    state, radio_mode, phys_ch, packet_type, packet_len, txpower, rx_pkt_count,
    cte_info,       \* mode, time, slot and antenna_pattern_len; 0: no pattern
    iq_rep_cb,      \* whether the callback is registered
    cur_pattern,    \* the static pattern of cte_set, and the octet after it
    switch_pattern, \* external: what SWITCHPATTERN was given since the last clear
    at,             \* the library call the command in progress makes next
    command,        \* the command in progress, or the last one
    answers,        \* the events it was answered with
    asked,          \* history: the command that started the running test
    heard,          \* history: packets it counted
    iq              \* history: its last IQ report

settings == <<radio_mode, txpower, cte_info, iq_rep_cb, cur_pattern>>
test == <<state, phys_ch, packet_type, packet_len, rx_pkt_count, switch_pattern>>
history == <<asked, heard, iq>>
vars == <<settings, test, at, command, answers, history>>

-----------------------------------------------------------------------------
PHYS_CH_MAX == 39
CTE_LENGTH_MIN == 2
CTE_LENGTH_MAX == 20
SLOT_2US == 1
SLOT_1US == 2

\* HCI PHY -> nrf_radio_mode_t.
Phys == 1..4
RadioMode == <<"BLE_1MBIT", "BLE_2MBIT", "BLE_LR125KBIT", "BLE_LR500KBIT">>
RadioModes == {RadioMode[phy] : phy \in Phys}
Coded == {3, 4}

\* HCI payload -> enum dtm_packet.
Payloads == 0..7
DtmPacket == <<"PRBS9", "0F", "55", "PRBS15", "FF", "00", "F0", "AA">>
Packets == {DtmPacket[payload + 1] : payload \in Payloads}

CteTypes == {"AOA", "AOD_1US", "AOD_2US"}
Mode(cte_type) == IF cte_type = "AOA" THEN "AOA" ELSE "AOD"
Antennas == 0..2
PDU_ANTENNA == 0

POWER_MIN_SET == 126
POWER_MAX_SET == 127
PowerRange == -127..20

TestOps == {"rx", "tx"}
OtherOps == {"end", "reset", "info", "unknown"}

\* Parameters are octets, the power a signed one; every version has the fields.
Octets == 0..255
TestCommands ==
    [op: TestOps, version: Nat, chan: Octets, phy: Octets, modulation: Octets, cte_len: Octets,
     cte_type: STRING, slot: Octets, pattern: Seq(Antennas), power: -128..127, len: Octets,
     payload: Octets]
ASSUME CommandsAssumption ==
    \A cmd \in Commands : cmd.op \in OtherOps \/ cmd \in TestCommands

None == [op |-> "none"]
Stages == {"idle", "payload", "phy", "modulation", "cte", "antenna", "slot", "power",
           "receive", "transmit", "halted"}

\* The parameters of a command: what its version leaves out has a default.
Since(cmd, version, given, default) == IF cmd.version < version THEN default ELSE given
Given(cmd) ==
    [cmd EXCEPT !.phy = Since(cmd, 2, @, 1),
                !.modulation = Since(cmd, 2, @, 0),
                !.cte_len = Since(cmd, 3, @, 0),
                !.cte_type = Since(cmd, 3, @, "AOA"),
                !.slot = Since(cmd, 3, @, 1),
                !.pattern = Since(cmd, 3, @, <<0, 0>>),
                !.power = Since(cmd, 4, @, POWER_MAX_SET)]
params == Given(command)

Event(cmd, status, count) ==
    [op |-> cmd.op, version |-> cmd.version, status |-> status, count |-> count]

NoCte == [mode |-> "OFF", time |-> 0, slot |-> 0, antenna_pattern_len |-> 0]

\* dtm_tr_init has returned; .txpower is 0 dBm.
Init ==
    /\ state = "IDLE" /\ phys_ch = 0 /\ packet_type = "PRBS9" /\ packet_len = 0
    /\ rx_pkt_count = 0 /\ radio_mode = "BLE_1MBIT" /\ txpower = 0
    /\ cte_info = NoCte /\ iq_rep_cb = TRUE
    /\ cur_pattern \in {[i \in 0..MaxPattern |-> IF i < MaxPattern THEN 0 ELSE a] : a \in Antennas}
    /\ switch_pattern = <<>>
    /\ at = "idle" /\ command = None /\ answers = <<>>
    /\ asked = None /\ heard = 0 /\ iq = None

-----------------------------------------------------------------------------
(***************************************************************************)
(* dtm.c.                                                                  *)
(***************************************************************************)
LowPower == PowerTable[1]
TopPower == PowerTable[Len(PowerTable)]
Distance(a, b) == IF a < b THEN b - a ELSE a - b

\* dtm_radio_nearest_power_get: the loop starts at the second entry.
NearestLower(power) ==      \* mutant: always the entry below
    PowerTable[(CHOOSE i \in 2..Len(PowerTable) :
                   /\ PowerTable[i] > power
                   /\ \A j \in 2..(i - 1) : PowerTable[j] <= power) - 1]
Nearest(power) ==
    LET i == CHOOSE i \in 2..Len(PowerTable) :
                 /\ PowerTable[i] > power
                 /\ \A j \in 2..(i - 1) : PowerTable[j] <= power
    IN  IF Distance(PowerTable[i], power) < Distance(PowerTable[i - 1], power)
        THEN PowerTable[i] ELSE PowerTable[i - 1]

\* dtm_setup_set_transmit_power's power, from the value of tx_power_set.
PowerOffTable(power) ==     \* mutant: what was asked, in the table or not
    IF power = POWER_MIN_SET THEN LowPower ELSE IF power = POWER_MAX_SET THEN TopPower ELSE power
PowerFor(power) ==
    CASE power = POWER_MIN_SET -> LowPower
      [] power = POWER_MAX_SET -> TopPower
      [] power \in PowerRange ->
            IF power <= LowPower THEN LowPower
            ELSE IF power >= TopPower THEN TopPower ELSE Nearest(power)

\* dtm_hw_radio_validate, the only way radio_init fails.
RadioInitOk == \E i \in 1..Len(PowerTable) : PowerTable[i] = txpower

\* switch_pattern_set appends to what the radio has, and reads one entry past
\* the pattern; radio_cte_reset clears, when a test has no CTE.
Written(entries) == SubSeq(switch_pattern \o entries, 1,
    IF Len(switch_pattern) + Len(entries) < SwitchEntries
    THEN Len(switch_pattern) + Len(entries) ELSE SwitchEntries)
Switches(rx) == cte_info.mode = (IF rx THEN "AOA" ELSE "AOD")
RadioCtePrepare(rx) ==
    \/ cte_info.mode = "OFF" /\ switch_pattern' = <<>>
    \/ /\ Switches(rx)
       /\ switch_pattern' = Written(<<PDU_ANTENNA, PDU_ANTENNA>>
            \o [i \in 1..(cte_info.antenna_pattern_len + 1) |-> cur_pattern[i - 1]])
    \/ cte_info.mode # "OFF" /\ ~Switches(rx) /\ UNCHANGED switch_pattern

-----------------------------------------------------------------------------
(***************************************************************************)
(* A command arrives, is answered, goes on.                                *)
(***************************************************************************)
Answer(status) ==
    /\ answers' = Append(answers, Event(command, status, 0))
    /\ at' = "idle"
AnswerTwice(first, second) ==
    /\ answers' = answers \o <<Event(command, first, 0), Event(command, second, 0)>>
    /\ at' = "idle"
GoTo(stage) == at' = stage /\ UNCHANGED answers

\* hci_cmd takes the next command; both tests begin with dtm_setup_prepare.
NoTest == asked' = None /\ heard' = 0 /\ iq' = None
NotPrepared == UNCHANGED <<state, rx_pkt_count, history>>     \* mutant: no preparation
Prepared == state' = "IDLE" /\ rx_pkt_count' = 0 /\ NoTest
Begin(cmd) ==
    /\ at = "idle"
    /\ command' = cmd /\ answers' = <<>>
    /\ \/ cmd.op \in TestOps /\ Prepared /\ at' = IF cmd.op = "rx" THEN "phy" ELSE "payload"
       \/ /\ cmd.op \notin TestOps /\ at' = cmd.op
          /\ UNCHANGED <<state, rx_pkt_count, history>>
    /\ UNCHANGED <<settings, phys_ch, packet_type, packet_len, switch_pattern>>

InCommand(stage) == at = stage /\ UNCHANGED <<command, history>>

\* hci_to_dtm_payload.
SetPayload ==
    /\ InCommand("payload")
    /\ \/ params.payload \in Payloads /\ GoTo("phy")
       \/ params.payload \notin Payloads /\ Answer("UNSUPP_FEATURE_PARAM_VAL")
    /\ UNCHANGED <<settings, test>>

\* phy_set; the mode is stored before radio_init may refuse.
SetPhy ==
    /\ InCommand("phy")
    /\ \/ /\ params.phy \in Phys /\ radio_mode' = RadioMode[params.phy]
          /\ \/ RadioInitOk /\ GoTo(IF command.op = "rx" THEN "modulation" ELSE "cte")
             \/ ~RadioInitOk /\ Answer("UNSUPP_FEATURE_PARAM_VAL")
       \/ params.phy \notin Phys /\ Answer("UNSUPP_FEATURE_PARAM_VAL") /\ UNCHANGED radio_mode
    /\ UNCHANGED <<test, txpower, cte_info, iq_rep_cb, cur_pattern>>

\* mod_set: 0 is the standard index, 1 the stable one, which is not supported.
SetModulation ==
    /\ InCommand("modulation")
    /\ \/ params.modulation = 0 /\ GoTo("cte")
       \/ params.modulation = 1 /\ Answer("UNSUPP_FEATURE_PARAM_VAL")
       \/ params.modulation \notin {0, 1} /\ Answer("HW_FAILURE")
    /\ UNCHANGED <<settings, test>>

AfterCteNoSlot(cte_len) == IF command.op = "tx" THEN "power" ELSE "receive"     \* mutant
AfterCte(cte_len) ==
    IF command.op = "tx" THEN "power" ELSE IF cte_len = 0 THEN "receive" ELSE "slot"

\* cte_set up to dtm_setup_set_cte_mode, with the check before it.
CteRefused ==
    \/ params.phy \notin Coded /\ Answer("CMD_DISALLOWED")
    \/ /\ params.phy \in Coded
       /\ \/ Len(params.pattern) > MaxPattern
          \/ params.cte_type \notin CteTypes
          \/ params.cte_len \notin CTE_LENGTH_MIN..CTE_LENGTH_MAX
       /\ Answer("HW_FAILURE")
SlotOf(cte_type) ==
    CASE cte_type = "AOD_1US" -> SLOT_1US [] cte_type = "AOD_2US" -> SLOT_2US
      [] cte_type = "AOA" -> cte_info.slot
CteKept == UNCHANGED cte_info     \* mutant: the mode of an earlier command stays
CteOff == cte_info' = [cte_info EXCEPT !.mode = "OFF"]
CteOn ==
    cte_info' = [cte_info EXCEPT !.mode = Mode(params.cte_type), !.time = params.cte_len,
                                 !.slot = SlotOf(params.cte_type)]
SetCte ==
    /\ InCommand("cte")
    /\ \/ params.cte_len = 0 /\ CteOff /\ GoTo(AfterCte(0))
       \/ params.cte_len # 0 /\ CteRefused /\ UNCHANGED cte_info
       \/ /\ params.cte_len \in CTE_LENGTH_MIN..CTE_LENGTH_MAX /\ params.phy \in Coded
          /\ Len(params.pattern) <= MaxPattern /\ params.cte_type \in CteTypes
          /\ CteOn /\ GoTo("antenna")
    /\ UNCHANGED <<test, radio_mode, txpower, iq_rep_cb, cur_pattern>>

\* The rest of cte_set: the pattern is copied, then an empty one is refused,
\* with the CTE mode already on.
SetAntenna ==
    /\ InCommand("antenna")
    /\ cur_pattern' = [i \in 0..MaxPattern |->
                          IF i < Len(params.pattern) THEN params.pattern[i + 1] ELSE cur_pattern[i]]
    /\ \/ /\ params.pattern # <<>>
          /\ cte_info' = [cte_info EXCEPT !.antenna_pattern_len = Len(params.pattern)]
          /\ GoTo(AfterCte(params.cte_len))
       \/ params.pattern = <<>> /\ Answer("HW_FAILURE") /\ UNCHANGED cte_info
    /\ UNCHANGED <<test, radio_mode, txpower, iq_rep_cb>>

\* dtm_setup_set_cte_slot takes 0 for 1 us and 1 for 2 us and is given the HCI
\* value, 1 for 1 us and 2 for 2 us.
SetSlot ==
    /\ InCommand("slot")
    /\ \/ /\ params.slot \in {0, 1}
          /\ cte_info' = [cte_info EXCEPT !.slot = IF params.slot = 0 THEN SLOT_1US ELSE SLOT_2US]
          /\ GoTo("receive")
       \/ params.slot \notin {0, 1} /\ Answer("INVALID_PARAM") /\ UNCHANGED cte_info
    /\ UNCHANGED <<test, radio_mode, txpower, iq_rep_cb, cur_pattern>>

\* tx_power_set; radio_frequency_get asserts the channel dtm_test_transmit is
\* yet to check.
SetPower ==
    LET valid == params.power \in PowerRange \cup {POWER_MIN_SET, POWER_MAX_SET}
    IN  /\ InCommand("power")
        /\ \/ valid /\ params.chan > PHYS_CH_MAX /\ GoTo("halted") /\ UNCHANGED txpower
           \/ /\ valid /\ params.chan <= PHYS_CH_MAX
              /\ txpower' = PowerFor(params.power) /\ GoTo("transmit")
           \/ ~valid /\ Answer("UNSUPP_FEATURE_PARAM_VAL") /\ UNCHANGED txpower
        /\ UNCHANGED <<test, radio_mode, cte_info, iq_rep_cb, cur_pattern>>

Started == asked' = command /\ UNCHANGED <<command, heard, iq>>

\* dtm_test_receive.
TestReceive ==
    /\ at = "receive"
    /\ \/ /\ params.chan > PHYS_CH_MAX /\ Answer("INVALID_PARAM")
          /\ UNCHANGED <<test, command, history>>
       \/ /\ params.chan <= PHYS_CH_MAX
          /\ phys_ch' = params.chan /\ rx_pkt_count' = 0 /\ state' = "RECEIVER_TEST"
          /\ RadioCtePrepare(TRUE)
          /\ Started /\ Answer("SUCCESS") /\ UNCHANGED <<packet_type, packet_len>>
    /\ UNCHANGED settings

\* dtm_test_transmit; the state is idle and the channel one radio_frequency_get
\* let through.
TestTransmit ==
    /\ at = "transmit"
    /\ phys_ch' = params.chan /\ rx_pkt_count' = 0 /\ state' = "TRANSMITTER_TEST"
    /\ packet_type' = DtmPacket[params.payload + 1] /\ packet_len' = params.len
    /\ RadioCtePrepare(FALSE)
    /\ Started /\ Answer("SUCCESS")
    /\ UNCHANGED settings

\* hci_test_end: the count is read before dtm_test_done clears it.
CountCleared == 0                 \* mutant: read after it is cleared
CountRead == rx_pkt_count
TestEnd ==
    /\ at = "end" /\ at' = "idle"
    /\ answers' = Append(answers, Event(command, "SUCCESS", CountRead))
    /\ state' = "IDLE" /\ rx_pkt_count' = 0 /\ NoTest
    /\ UNCHANGED <<settings, phys_ch, packet_type, packet_len, switch_pattern, command>>

\* hci_reset: no dtm_setup_prepare, so the state stays; the memset of cte_info
\* takes the callback with it; a failure is answered twice.
Reset ==
    /\ at = "reset"
    /\ radio_mode' = "BLE_1MBIT" /\ packet_len' = 0
    /\ cte_info' = NoCte /\ iq_rep_cb' = FALSE
    /\ \/ RadioInitOk /\ rx_pkt_count' = 0 /\ NoTest /\ Answer("SUCCESS")
       \/ /\ ~RadioInitOk /\ AnswerTwice("HW_FAILURE", "SUCCESS")
          /\ UNCHANGED <<rx_pkt_count, history>>
    /\ UNCHANGED <<state, phys_ch, packet_type, switch_pattern, txpower, cur_pattern, command>>

\* hci_read_bd_addr, hci_read_local_features; any other opcode.
Inform ==
    /\ InCommand("info") /\ Answer("SUCCESS") /\ UNCHANGED <<settings, test>>
Unknown ==
    /\ InCommand("unknown") /\ Answer("UNKNOWN_CMD") /\ UNCHANGED <<settings, test>>

-----------------------------------------------------------------------------
(***************************************************************************)
(* The radio interrupt, of a receiver test whose radio is still on (asked  *)
(* says so: a reset turns it off): check_pdu counts a packet or not.  With *)
(* CTE it reports the IQ samples of a packet of a repeated pattern before  *)
(* it decides; of a pseudo-random one it never does.                       *)
(***************************************************************************)
PacketCounted ==
    /\ heard < MaxHeard
    /\ rx_pkt_count' = (rx_pkt_count + 1) % CountMod /\ heard' = heard + 1
PacketRefused == UNCHANGED <<rx_pkt_count, heard>>

\* report_iq and iq_report_evt: the assertions of report_iq hold elsewhere.
IqTypeBySlot ==     \* mutant: the mode is not looked at
    IF cte_info.slot = SLOT_1US THEN "AOD_1US" ELSE "AOD_2US"
IqType ==
    CASE cte_info.mode = "AOA" -> "AOA"
      [] cte_info.mode = "AOD" /\ cte_info.slot = SLOT_1US -> "AOD_1US"
      [] cte_info.mode = "AOD" /\ cte_info.slot = SLOT_2US -> "AOD_2US"
ReportIq ==
    /\ cte_info.mode # "OFF" /\ iq_rep_cb
    /\ iq' = [op |-> "iq", channel |-> phys_ch, slot |-> cte_info.slot, type |-> IqType]

OnRadioEnd ==
    /\ state = "RECEIVER_TEST" /\ asked # None
    /\ PacketCounted \/ PacketRefused
    /\ ReportIq \/ UNCHANGED iq
    /\ UNCHANGED <<settings, state, phys_ch, packet_type, packet_len, switch_pattern,
                   at, command, answers, asked>>

Next ==
    \/ \E cmd \in Commands : Begin(cmd)
    \/ SetPayload \/ SetPhy \/ SetModulation \/ SetCte \/ SetAntenna \/ SetSlot \/ SetPower
    \/ TestReceive \/ TestTransmit \/ TestEnd \/ Reset \/ Inform \/ Unknown
    \/ OnRadioEnd

Spec == Init /\ [][Next]_vars

-----------------------------------------------------------------------------
(***************************************************************************)
(* Properties.                                                             *)
(***************************************************************************)
Statuses == {"SUCCESS", "UNSUPP_FEATURE_PARAM_VAL", "HW_FAILURE", "CMD_DISALLOWED",
             "INVALID_PARAM", "UNKNOWN_CMD"}

\* The values of the settings, of a running test and of the events.
TypeOK ==
    /\ state \in {"IDLE", "RECEIVER_TEST", "TRANSMITTER_TEST"}
    /\ phys_ch \in 0..PHYS_CH_MAX /\ packet_type \in Packets /\ packet_len \in 0..255
    /\ rx_pkt_count \in 0..(CountMod - 1)
    /\ radio_mode \in RadioModes
    /\ RadioInitOk
    /\ cte_info \in [mode: {"OFF", "AOA", "AOD"}, time: 0..CTE_LENGTH_MAX,
                     slot: {0, SLOT_1US, SLOT_2US}, antenna_pattern_len: 0..MaxPattern]
    /\ iq_rep_cb \in BOOLEAN /\ cur_pattern \in [0..MaxPattern -> Antennas]
    /\ switch_pattern \in Seq(Antennas) /\ Len(switch_pattern) <= SwitchEntries
    /\ at \in Stages \cup OtherOps
    /\ \A i \in 1..Len(answers) : answers[i].status \in Statuses

\* A command that is done was answered by exactly one Command Complete, its
\* own: hci_reset's second answer never comes, because no sequence of tests
\* leaves a TX power that radio_init refuses.
AnsweredOnce ==
    at = "idle" /\ command # None =>
        /\ Len(answers) = 1
        /\ answers[1].op = command.op /\ answers[1].version = command.version

\* The running test has the PHY, channel, packet, CTE and antenna pattern its
\* command asked for, whatever earlier commands, accepted or refused half-way,
\* left in the settings.
RunsAsAsked ==
    asked # None =>
        LET given == Given(asked)
        IN  /\ state = (IF asked.op = "rx" THEN "RECEIVER_TEST" ELSE "TRANSMITTER_TEST")
            /\ radio_mode = RadioMode[given.phy] /\ phys_ch = given.chan
            /\ asked.op = "tx" => /\ packet_type = DtmPacket[given.payload + 1]
                                  /\ packet_len = given.len
            /\ given.cte_len = 0 => cte_info.mode = "OFF"
            /\ given.cte_len # 0 =>
                 /\ cte_info.mode = Mode(given.cte_type) /\ cte_info.time = given.cte_len
                 /\ given.pattern = [i \in 1..cte_info.antenna_pattern_len |-> cur_pattern[i - 1]]

\* A transmitter test runs at a power of the table, and no other is nearer to
\* the one asked for; the lowest or the highest where the command says so.
NearestPower ==
    asked # None /\ asked.op = "tx" =>
        LET power == Given(asked).power
            table == {PowerTable[i] : i \in 1..Len(PowerTable)}
        IN  /\ txpower \in table
            /\ power = POWER_MIN_SET => \A p \in table : txpower <= p
            /\ power = POWER_MAX_SET => \A p \in table : txpower >= p
            /\ power \in PowerRange =>
                  \A p \in table : Distance(txpower, power) <= Distance(p, power)

\* Success says that the test runs, any other status that none does.
StatusIsTrue ==
    at = "idle" /\ command # None /\ command.op \in TestOps =>
        IF answers[1].status = "SUCCESS" THEN asked = command ELSE asked = None /\ state = "IDLE"

\* A running test with CTE has what the radio and the assertions of report_iq
\* need: a pattern to switch by and, to receive, one of the two slots.
CteIsComplete ==
    asked # None /\ cte_info.mode # "OFF" =>
        /\ cte_info.antenna_pattern_len # 0
        /\ asked.op = "rx" \/ cte_info.mode = "AOD" => cte_info.slot \in {SLOT_1US, SLOT_2US}

\* A Test End answers with the packets of the test it ends, modulo 2^16 (the
\* event does not say how often the counter came round): none twice and none of
\* an earlier test, also when other commands came in between.
CountIsOfTheTest ==
    [][at = "end" /\ at' = "idle" => answers'[1].count = heard % CountMod]_vars

\* An IQ report is of the receiver test that runs: its channel, and AoA or AoD
\* as its command expects.
IqReportIsOfTheTest ==
    iq # None =>
        /\ asked # None /\ asked.op = "rx"
        /\ iq.channel = asked.chan /\ Mode(iq.type) = Mode(Given(asked).cte_type)

\* The antennas switch as commanded, dtm.h: the radio has this test's pattern
\* and nothing else.
AntennasSwitchAsAsked ==
    asked # None /\ Given(asked).cte_len # 0 /\ Switches(asked.op = "rx") =>
        switch_pattern = <<PDU_ANTENNA, PDU_ANTENNA>> \o Given(asked).pattern
=============================================================================
