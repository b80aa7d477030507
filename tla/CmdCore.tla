------------------------------- MODULE CmdCore -------------------------------
(***************************************************************************)
(* The two-octet command decoder, src/src/transport/dtm_cmd_core.c, and    *)
(* its three clients: the tester (RTT transport, "dtm raw"), the shell     *)
(* commands of dtm_shell_commands.c and the automatic start of main.c.     *)
(*                                                                         *)
(* A command is a 16-bit number, split and composed by arithmetic as the   *)
(* code does with shifts and masks.  A call of the DTM library is one step *)
(* here (module Dtm has its inside); this decoder never leaves 1 Mbit, so  *)
(* packet type 3 is always a vendor command.                               *)
(***************************************************************************)
EXTENDS Naturals

CONSTANTS
    TesterCmds,      \* commands the tester sends
    Channels,        \* channels given to shell commands
    Lengths,         \* lengths given to tx_test
    Powers,          \* 6-bit powers given to tx_power
    Counts,          \* packet counts a receiver test may reach
    DirectionFinding \* DIRECTION_FINDING_SUPPORTED

UINT16_MAX == 65535

ASSUME CmdAssumption ==
    /\ TesterCmds \subseteq 0..UINT16_MAX
    /\ Channels \subseteq 0..39 /\ Lengths \subseteq 0..37 /\ Powers \subseteq 0..63
    /\ Counts \subseteq 1..UINT16_MAX
    /\ DirectionFinding \in BOOLEAN

LE_TEST_STATUS_EVENT_ERROR   == 0
LE_TEST_STATUS_EVENT_SUCCESS == 1
LE_PACKET_REPORTING_EVENT    == 32768
PHYS_CH_MAX == 39
AUTO_START_CHANNEL == 3

VARIABLES
    upper_len,     \* upper two bits of the packet length
    state,         \* dtm_inst.state
    phys_ch,       \* dtm_inst.phys_ch
    packet_len,    \* dtm_inst.packet_len
    rx_pkt_count,  \* dtm_inst.rx_pkt_count
    main_pc,       \* where main is
    wish,          \* history: what the client of the last command wanted
    command,       \* the last command
    response       \* and its response

libVars == <<state, phys_ch, packet_len, rx_pkt_count>>
vars == <<upper_len, libVars, main_pc, wish, command, response>>

TestStates == {"RECEIVER_TEST", "TRANSMITTER_TEST", "CARRIER_TEST"}

\* What a client wants, in the words of its own interface.
Wish(op, channel) == [op |-> op, channel |-> channel]
Ops == {"none", "raw", "reset", "rx_test", "tx_carrier", "tx_test", "tx_power", "end", "auto_rx"}

TypeOK ==
    /\ upper_len \in {0, 64, 128, 192}
    /\ state \in TestStates \cup {"IDLE"}
    /\ phys_ch \in 0..63
    /\ packet_len \in 0..255
    /\ rx_pkt_count \in 0..UINT16_MAX
    /\ main_pc \in {"reset", "rx", "loop"}
    /\ wish \in [op: Ops, channel: 0..39]
    /\ command \in 0..UINT16_MAX
    /\ response \in 0..UINT16_MAX

\* dtm_tr_init has returned.
Init ==
    /\ upper_len = 0
    /\ state = "IDLE" /\ phys_ch = 0 /\ packet_len = 0 /\ rx_pkt_count = 0
    /\ main_pc = "reset"
    /\ wish = Wish("none", 0)
    /\ command = 0 /\ response = LE_TEST_STATUS_EVENT_SUCCESS

-----------------------------------------------------------------------------
Accepted == response' = LE_TEST_STATUS_EVENT_SUCCESS
Refused  == response' = LE_TEST_STATUS_EVENT_ERROR

-----------------------------------------------------------------------------
(***************************************************************************)
(* The library calls, with the status the decoder makes of their result.   *)
(***************************************************************************)
\* dtm_setup_reset, with the rx_pkt_count = 0 of radio_reset; the state stays.
SetupReset == rx_pkt_count' = 0 /\ UNCHANGED <<state, phys_ch, packet_len>> /\ Accepted

TestReceive(channel) ==
    \/ channel > PHYS_CH_MAX /\ Refused /\ UNCHANGED libVars
    \/ /\ channel <= PHYS_CH_MAX
       /\ state' = "RECEIVER_TEST" /\ phys_ch' = channel /\ rx_pkt_count' = 0
       /\ UNCHANGED packet_len
       /\ Accepted

\* dtm_vendor_specific_pkt: a carrier, a setting (TX power, FEM), or refused:
\* an unknown command, a value or a gain that is not accepted.
VendorSpecific(vendor_cmd) ==
    \/ vendor_cmd \in {0, 1} /\ state' = "CARRIER_TEST" /\ Accepted
    \/ vendor_cmd \in 2..6 /\ UNCHANGED state /\ Accepted
    \/ UNCHANGED state /\ Refused

Vendor(type) == type = 3

TransmitStoresFirst(channel, length, type) ==   \* mutant: stored before the state is checked
    /\ phys_ch' = channel /\ packet_len' = length
    /\ UNCHANGED rx_pkt_count
    /\ \/ state # "IDLE" /\ Refused /\ UNCHANGED state
       \/ state = "IDLE" /\ Accepted /\ state' = "TRANSMITTER_TEST"
TestTransmit(channel, length, type) ==
    \/ state # "IDLE" /\ Refused /\ UNCHANGED libVars
    \/ /\ state = "IDLE"
       /\ phys_ch' = channel /\ packet_len' = length
       /\ \/ /\ ~Vendor(type) /\ channel > PHYS_CH_MAX
             /\ Refused /\ UNCHANGED <<state, rx_pkt_count>>
          \/ /\ ~Vendor(type) /\ channel <= PHYS_CH_MAX /\ rx_pkt_count' = 0
             /\ \/ Accepted /\ state' = "TRANSMITTER_TEST"
                \/ Refused /\ UNCHANGED state       \* fem_tx_gain_set's refusal
          \/ Vendor(type) /\ rx_pkt_count' = 0 /\ VendorSpecific(length)

TestEnd == state' = "IDLE" /\ rx_pkt_count' = 0 /\ UNCHANGED <<phys_ch, packet_len>>

-----------------------------------------------------------------------------
(***************************************************************************)
(* dtm_cmd_put.                                                            *)
(***************************************************************************)
CmdCode(cmd)   == cmd \div 16384
Chan(cmd)      == (cmd \div 256) % 64
Length(cmd)    == (cmd \div 4) % 64
Type(cmd)      == cmd % 4
Control(cmd)   == Chan(cmd)
Parameter(cmd) == cmd % 256

\* The features and limits this build answers with.
Features == 2 + 4 + 16 + (IF DirectionFinding THEN 32 + 64 + 128 + 256 + 512 ELSE 0)
MaxInMicroseconds(parameter) ==     \* mutant: times in us, not in units of 2 us
    IF parameter \in 0..3 \cup 8..11 THEN 255 ELSE IF parameter = 16 THEN 20 ELSE 17040
MaxValue(parameter) ==
    IF parameter \in 0..3 \cup 8..11 THEN 255 ELSE IF parameter = 16 THEN 20 ELSE 8520

Readable(control, parameter) ==
    \/ control = 4 /\ parameter <= 3
    \/ control = 5 /\ parameter <= (IF DirectionFinding THEN 16 ELSE 15)
ReadBits(control, parameter) ==
    IF control = 4 THEN Features ELSE (2 * MaxValue(parameter)) % (UINT16_MAX + 1)

\* on_test_setup_cmd: reset, upper bits and the two reads; everything else,
\* set PHY, modulation, CTE and TX power among it, is refused.
OnTestSetup(control, parameter) ==
    \/ /\ control = 0
       /\ upper_len' = 0
       /\ SetupReset
    \/ /\ control = 1
       /\ upper_len' = 64 * (((parameter * 16) % 256) \div 64)
       /\ Accepted /\ UNCHANGED libVars
    \/ /\ Readable(control, parameter)
       /\ response' = ReadBits(control, parameter) + LE_TEST_STATUS_EVENT_SUCCESS
       /\ UNCHANGED <<upper_len, libVars>>
    \/ /\ control \notin {0, 1} /\ ~Readable(control, parameter)
       /\ Refused /\ UNCHANGED <<upper_len, libVars>>

\* LE_PACKET_REPORTING_EVENT | cnt
PacketSum(cnt) == cnt + LE_PACKET_REPORTING_EVENT     \* mutant: added, not or-ed
PacketReport(cnt) == (cnt % 32768) + LE_PACKET_REPORTING_EVENT

EndKeepsCount(control, parameter) ==            \* mutant: the count is not cleared
    /\ state' = "IDLE" /\ response' = PacketReport(rx_pkt_count)
    /\ UNCHANGED <<upper_len, phys_ch, packet_len, rx_pkt_count>>
OnTestEnd(control, parameter) ==
    /\ UNCHANGED upper_len
    /\ \/ control = 0 /\ parameter <= 10 /\ response' = PacketReport(rx_pkt_count) /\ TestEnd
       \/ (control # 0 \/ parameter > 10) /\ Refused /\ UNCHANGED libVars

DtmCmdPut(cmd) ==
    /\ command' = cmd
    /\ \/ CmdCode(cmd) = 0 /\ OnTestSetup(Control(cmd), Parameter(cmd))
       \/ CmdCode(cmd) = 1 /\ TestReceive(Chan(cmd)) /\ UNCHANGED upper_len
       \/ /\ CmdCode(cmd) = 2 /\ TestTransmit(Chan(cmd), Length(cmd) + upper_len, Type(cmd))
          /\ UNCHANGED upper_len
       \/ CmdCode(cmd) = 3 /\ OnTestEnd(Control(cmd), Parameter(cmd))

-----------------------------------------------------------------------------
(***************************************************************************)
(* The clients: a wish and the word it is sent as.                         *)
(***************************************************************************)
Put(op, channel, cmd) ==
    /\ wish' = Wish(op, channel)
    /\ DtmCmdPut(cmd)

Tester == \E cmd \in TesterCmds : Put("raw", 0, cmd) /\ UNCHANGED main_pc

ShellReset == Put("reset", 0, 0) /\ UNCHANGED main_pc
ShellRxTest ==
    /\ \E channel \in Channels : Put("rx_test", channel, 16384 + 4 * channel)
    /\ UNCHANGED main_pc
ShellTxCarrier ==
    /\ \E channel \in Channels : Put("tx_carrier", channel, 32768 + 4 * channel)
    /\ UNCHANGED main_pc
ShellTxTest ==
    /\ \E channel \in Channels, length \in Lengths :
          Put("tx_test", channel, 32768 + 256 * length + 4 * channel)
    /\ UNCHANGED main_pc
ShellTxPower ==
    /\ \E power \in Powers : Put("tx_power", 0, 512 + 4 * power)
    /\ UNCHANGED main_pc
ShellEnd == Put("end", 0, 49152) /\ UNCHANGED main_pc

\* main: reset, then the receiver on the configured channel.
MainReset == main_pc = "reset" /\ main_pc' = "rx" /\ Put("reset", 0, 0)
MainAutoRx ==
    /\ main_pc = "rx" /\ main_pc' = "loop"
    /\ Put("auto_rx", AUTO_START_CHANNEL, 16384 + 4 * AUTO_START_CHANNEL)

\* The receiver counts on, past the wrap too: radio_handler may run often
\* between two commands.
Counting ==
    /\ state = "RECEIVER_TEST"
    /\ \E n \in Counts : n # rx_pkt_count /\ rx_pkt_count' = n
    /\ UNCHANGED <<upper_len, state, phys_ch, packet_len, main_pc, wish, command, response>>

Shell == ShellReset \/ ShellRxTest \/ ShellTxCarrier \/ ShellTxTest \/ ShellTxPower \/ ShellEnd

Next == Tester \/ Shell \/ MainReset \/ MainAutoRx \/ Counting

Spec == Init /\ [][Next]_vars

-----------------------------------------------------------------------------
\* A refused command leaves the test that runs alone: its channel, its length,
\* its count and the state, whoever of the three clients sends it.
Refusal == ~Counting /\ response' = LE_TEST_STATUS_EVENT_ERROR /\ state \in TestStates
RefusalIsHarmless == [][Refusal => UNCHANGED <<libVars, upper_len>>]_vars

\* A response with the packet report bit answers a test end and nothing else:
\* no feature or limit read, shifted left, reaches bit 15.  (main.c:60-62 expects
\* the bit in the answer to its receiver command, and so warns every time.)
ReportsAreReports ==
    response >= LE_PACKET_REPORTING_EVENT => CmdCode(command) = 3

\* Packets are counted for receiver tests only: what a test end reports after
\* another test, or after none, is zero.
CountOnlyInReceiver == state # "RECEIVER_TEST" => rx_pkt_count = 0

\* Shell command and configuration select the channel (DTM_RTT_USAGE.md,
\* emc_config.h): a receiver test that was accepted is on the channel asked for.
ReceivesOnChannel ==
    wish.op \in {"rx_test", "auto_rx"} /\ response = LE_TEST_STATUS_EVENT_SUCCESS
        => phys_ch = wish.channel
=============================================================================
