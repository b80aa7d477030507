---------------------------- MODULE CmdCoreProofs ----------------------------
(***************************************************************************)
(* Theorems about CmdCore, for every set of commands, shell arguments and  *)
(* packet counts.                                                          *)
(***************************************************************************)
EXTENDS CmdCore, TLAPS

\* The 16-bit numbers, with the bound left folded: a range as long as theirs is
\* out of the provers' reach when it is spelt out.
LEMMA Fits16 == ASSUME NEW n \in Nat, n <= 65535 PROVE n \in 0..UINT16_MAX
<1>1. UINT16_MAX \in Nat /\ n <= UINT16_MAX
  BY ONLY n \in Nat, n <= 65535 DEF UINT16_MAX
<1> QED
  BY <1>1

LEMMA Is16 == ASSUME NEW n \in 0..UINT16_MAX PROVE n \in Nat /\ n <= 65535
<1>1. UINT16_MAX \in Nat /\ UINT16_MAX <= 65535
  BY ONLY DEF UINT16_MAX
<1>2. n \in 0..UINT16_MAX
  OBVIOUS
<1> QED
  BY ONLY <1>1, <1>2

\* Every word of the three clients has 16 bits.
LEMMA WordsHave16Bits ==
    /\ \A channel \in 0..39, length \in 0..37 :
          /\ 16384 + 4 * channel \in 0..UINT16_MAX
          /\ 32768 + 4 * channel \in 0..UINT16_MAX
          /\ 32768 + 256 * length + 4 * channel \in 0..UINT16_MAX
    /\ \A power \in 0..63 : 512 + 4 * power \in 0..UINT16_MAX
    /\ 0 \in 0..UINT16_MAX /\ 49152 \in 0..UINT16_MAX
<1>1. ASSUME NEW channel \in 0..39, NEW length \in 0..37
      PROVE  /\ 16384 + 4 * channel \in 0..UINT16_MAX
             /\ 32768 + 4 * channel \in 0..UINT16_MAX
             /\ 32768 + 256 * length + 4 * channel \in 0..UINT16_MAX
  <2>1. 16384 + 4 * channel \in Nat /\ 16384 + 4 * channel <= 65535
    OBVIOUS
  <2>2. 32768 + 4 * channel \in Nat /\ 32768 + 4 * channel <= 65535
    OBVIOUS
  <2>3. /\ 32768 + 256 * length + 4 * channel \in Nat
        /\ 32768 + 256 * length + 4 * channel <= 65535
    OBVIOUS
  <2> QED
    BY <2>1, <2>2, <2>3, Fits16
<1>2. ASSUME NEW power \in 0..63 PROVE 512 + 4 * power \in 0..UINT16_MAX
  <2>1. 512 + 4 * power \in Nat /\ 512 + 4 * power <= 65535
    OBVIOUS
  <2> QED
    BY <2>1, Fits16
<1>3. 0 \in 0..UINT16_MAX /\ 49152 \in 0..UINT16_MAX
  BY Fits16
<1> QED
  BY <1>1, <1>2, <1>3

ClientTypeOK ==
    /\ main_pc \in {"reset", "rx", "loop"}
    /\ wish \in [op: Ops, channel: 0..39]

\* The client's part of a step: a word of 16 bits is put, or packets are counted.
LEMMA StepIsPut ==
    ASSUME Next
    PROVE  Counting \/ \E cmd \in 0..UINT16_MAX : DtmCmdPut(cmd)
<1> USE CmdAssumption, WordsHave16Bits DEF Put
<1>1. CASE Tester
  BY <1>1 DEF Tester
<1>2. CASE ShellReset \/ MainReset
  BY <1>2 DEF ShellReset, MainReset
<1>3. CASE ShellEnd
  BY <1>3 DEF ShellEnd
<1>4. CASE ShellRxTest
  BY <1>4 DEF ShellRxTest
<1>5. CASE ShellTxCarrier
  BY <1>5 DEF ShellTxCarrier
<1>6. CASE ShellTxTest
  BY <1>6 DEF ShellTxTest
<1>7. CASE ShellTxPower
  BY <1>7 DEF ShellTxPower
<1>8. CASE MainAutoRx
  BY <1>8 DEF MainAutoRx, AUTO_START_CHANNEL
<1> QED
  BY <1>1, <1>2, <1>3, <1>4, <1>5, <1>6, <1>7, <1>8 DEF Next, Shell

\* And what it wishes is an operation of its interface.
LEMMA StepIsWish == ASSUME ClientTypeOK, Next PROVE ClientTypeOK'
<1> USE CmdAssumption DEF Put, Wish, Ops, ClientTypeOK
<1>1. CASE Tester
  BY <1>1 DEF Tester
<1>2. CASE ShellReset \/ MainReset
  BY <1>2 DEF ShellReset, MainReset
<1>3. CASE ShellEnd
  BY <1>3 DEF ShellEnd
<1>4. CASE ShellRxTest
  BY <1>4 DEF ShellRxTest
<1>5. CASE ShellTxCarrier
  BY <1>5 DEF ShellTxCarrier
<1>6. CASE ShellTxTest
  BY <1>6 DEF ShellTxTest
<1>7. CASE ShellTxPower
  BY <1>7 DEF ShellTxPower
<1>8. CASE MainAutoRx
  BY <1>8 DEF MainAutoRx, AUTO_START_CHANNEL
<1>9. CASE Counting
  BY <1>9 DEF Counting
<1> QED
  BY <1>1, <1>2, <1>3, <1>4, <1>5, <1>6, <1>7, <1>8, <1>9 DEF Next, Shell

CountInv == rx_pkt_count \in Nat /\ CountOnlyInReceiver

\* A command that leaves the state keeps the count or clears it; one that
\* leaves RECEIVER_TEST clears it.
LEMMA PutCount == ASSUME CountInv, NEW cmd, DtmCmdPut(cmd) PROVE CountInv'
<1> USE DEF CountInv, CountOnlyInReceiver, libVars
<1>1. CASE OnTestSetup(Control(cmd), Parameter(cmd))
  BY <1>1 DEF OnTestSetup, SetupReset
<1>2. CASE TestReceive(Chan(cmd))
  BY <1>2 DEF TestReceive
<1>3. CASE TestTransmit(Chan(cmd), Length(cmd) + upper_len, Type(cmd))
  BY <1>3 DEF TestTransmit, VendorSpecific
<1>4. CASE OnTestEnd(Control(cmd), Parameter(cmd))
  BY <1>4 DEF OnTestEnd, TestEnd
<1> QED
  BY <1>1, <1>2, <1>3, <1>4 DEF DtmCmdPut

\* Counting happens in RECEIVER_TEST only.
LEMMA NextCount == CountInv /\ [Next]_vars => CountInv'
<1> SUFFICES ASSUME CountInv, [Next]_vars PROVE CountInv'
  OBVIOUS
<1>1. CASE Counting
  <2>1. Counts \subseteq Nat
    BY CmdAssumption
  <2> QED
    BY <1>1, <2>1 DEF Counting, CountInv, CountOnlyInReceiver
<1>2. CASE UNCHANGED vars
  BY <1>2 DEF vars, libVars, CountInv, CountOnlyInReceiver
<1> QED
  BY <1>1, <1>2, StepIsPut, PutCount

\* The count of a test is its own: after a transmitter or carrier test, and
\* when no test runs, a test end reports zero, whichever clients were at work.
THEOREM CountIsReceivers == Spec => []CountOnlyInReceiver
<1>1. Init => CountInv
  BY DEF Init, CountInv, CountOnlyInReceiver
<1>2. CountInv => CountOnlyInReceiver
  BY DEF CountInv
<1> QED
  BY <1>1, <1>2, NextCount, PTL DEF Spec

\* No answer but a refusal is LE_TEST_STATUS_EVENT_ERROR: not a limit or a
\* feature read, not a packet report.
LEMMA AnswersAreNotErrors ==
    /\ \A control, parameter : ReadBits(control, parameter) + LE_TEST_STATUS_EVENT_SUCCESS
                                   # LE_TEST_STATUS_EVENT_ERROR
    /\ \A cnt \in Nat : PacketReport(cnt) # LE_TEST_STATUS_EVENT_ERROR
<1> USE DEF LE_TEST_STATUS_EVENT_SUCCESS, LE_TEST_STATUS_EVENT_ERROR, LE_PACKET_REPORTING_EVENT
<1>1. \A parameter : MaxValue(parameter) \in {255, 20, 8520}
  BY DEF MaxValue
<1>2. \A parameter : (2 * MaxValue(parameter)) % (UINT16_MAX + 1) \in Nat
  BY <1>1 DEF UINT16_MAX
<1>3. Features \in Nat
  BY DEF Features
<1>4. \A cnt \in Nat : cnt % 32768 \in Nat
  OBVIOUS
<1> QED
  BY <1>2, <1>3, <1>4 DEF ReadBits, PacketReport

\* A refused command changes nothing a running test depends on.
LEMMA PutRefused ==
    ASSUME CountInv, NEW cmd, DtmCmdPut(cmd), state \in TestStates,
           response' = LE_TEST_STATUS_EVENT_ERROR
    PROVE  UNCHANGED <<libVars, upper_len>>
<1> USE AnswersAreNotErrors
    DEF CountInv, Accepted, LE_TEST_STATUS_EVENT_SUCCESS, LE_TEST_STATUS_EVENT_ERROR
<1>1. CASE OnTestSetup(Control(cmd), Parameter(cmd))
  BY <1>1 DEF OnTestSetup, SetupReset
<1>2. CASE TestReceive(Chan(cmd)) /\ UNCHANGED upper_len
  BY <1>2 DEF TestReceive
<1>3. CASE TestTransmit(Chan(cmd), Length(cmd) + upper_len, Type(cmd)) /\ UNCHANGED upper_len
  BY <1>3 DEF TestTransmit, TestStates
<1>4. CASE OnTestEnd(Control(cmd), Parameter(cmd))
  BY <1>4 DEF OnTestEnd
<1> QED
  BY <1>1, <1>2, <1>3, <1>4 DEF DtmCmdPut

\* Whatever the three clients send, a command that is refused leaves the running
\* test its state, channel, length and count.
THEOREM RefusalsAreHarmless == Spec => RefusalIsHarmless
<1>1. Init => CountInv
  BY DEF Init, CountInv, CountOnlyInReceiver
<1>2. CountInv /\ [Next]_vars => [Refusal => UNCHANGED <<libVars, upper_len>>]_vars
  <2> SUFFICES ASSUME CountInv, Next, Refusal
               PROVE  UNCHANGED <<libVars, upper_len>>
    OBVIOUS
  <2>1. PICK cmd : DtmCmdPut(cmd)
    BY StepIsPut DEF Refusal
  <2> QED
    BY <2>1, PutRefused DEF Refusal
<1> QED
  BY <1>1, <1>2, NextCount, PTL DEF Spec, RefusalIsHarmless

-----------------------------------------------------------------------------
(***************************************************************************)
(* Types: the fields of a word, the length with its upper bits and every   *)
(* answer fit the width the code gives them.                               *)
(***************************************************************************)
LibTypeOK ==
    /\ state \in TestStates \cup {"IDLE"}
    /\ phys_ch \in 0..63
    /\ packet_len \in 0..255
    /\ rx_pkt_count \in 0..UINT16_MAX

WordTypeOK ==
    /\ upper_len \in {0, 64, 128, 192}
    /\ command \in 0..UINT16_MAX
    /\ response \in 0..UINT16_MAX

LEMMA FieldsOfAWord ==
    ASSUME NEW cmd \in 0..UINT16_MAX
    PROVE  /\ CmdCode(cmd) \in 0..3 /\ Chan(cmd) \in 0..63 /\ Parameter(cmd) \in 0..255
           /\ \A upper \in {0, 64, 128, 192} : Length(cmd) + upper \in 0..255
<1>1. cmd \in Nat /\ cmd <= 65535
  BY Is16
<1>2. CmdCode(cmd) \in 0..3
  BY ONLY <1>1 DEF CmdCode
<1>3. Chan(cmd) \in 0..63
  BY ONLY <1>1 DEF Chan
<1>4. Parameter(cmd) \in 0..255
  BY ONLY <1>1 DEF Parameter
<1>5. Length(cmd) \in 0..63
  BY ONLY <1>1 DEF Length
<1>6. ASSUME NEW length \in 0..63, NEW upper \in {0, 64, 128, 192}
      PROVE  length + upper \in 0..255
  BY ONLY TRUE
<1> QED
  BY ONLY <1>2, <1>3, <1>4, <1>5, <1>6

LEMMA UpperBits ==
    ASSUME NEW parameter \in 0..255
    PROVE  64 * (((parameter * 16) % 256) \div 64) \in {0, 64, 128, 192}
<1>1. ((parameter * 16) % 256) \div 64 \in 0..3
  OBVIOUS
<1> QED
  BY <1>1

\* What a read answers leaves bit 15 alone; a packet report sets it and fits.
LEMMA ReadsStayBelowReports ==
    ASSUME NEW control, NEW parameter
    PROVE  /\ ReadBits(control, parameter) + LE_TEST_STATUS_EVENT_SUCCESS \in Nat
           /\ ReadBits(control, parameter) + LE_TEST_STATUS_EVENT_SUCCESS
                  < LE_PACKET_REPORTING_EVENT
<1>1. MaxValue(parameter) \in {255, 20, 8520}
  BY DEF MaxValue
<1>2. ReadBits(control, parameter) \in Nat /\ ReadBits(control, parameter) <= 17040
  <2>1. Features \in Nat /\ Features <= 17040
    BY DEF Features
  <2>2. /\ (2 * MaxValue(parameter)) % (UINT16_MAX + 1) \in Nat
        /\ (2 * MaxValue(parameter)) % (UINT16_MAX + 1) <= 17040
    BY <1>1 DEF UINT16_MAX
  <2> QED
    BY ONLY <2>1, <2>2 DEF ReadBits
<1> QED
  BY ONLY <1>2 DEF LE_TEST_STATUS_EVENT_SUCCESS, LE_PACKET_REPORTING_EVENT

LEMMA ReportsFit == ASSUME NEW cnt \in Nat PROVE PacketReport(cnt) \in 0..UINT16_MAX
<1>1. cnt % 32768 \in Nat /\ cnt % 32768 <= 32767
  OBVIOUS
<1>2. PacketReport(cnt) \in Nat /\ PacketReport(cnt) <= 65535
  BY ONLY <1>1 DEF PacketReport, LE_PACKET_REPORTING_EVENT
<1> QED
  BY <1>2, Fits16

\* An answer without a report is below bit 15.
LEMMA PutAnswers ==
    ASSUME NEW cmd, DtmCmdPut(cmd), CmdCode(cmd) # 3
    PROVE  response' \in Nat /\ response' < LE_PACKET_REPORTING_EVENT
<1>0. ASSUME Accepted \/ Refused PROVE response' \in Nat /\ response' < LE_PACKET_REPORTING_EVENT
  BY <1>0 DEF Accepted, Refused, LE_TEST_STATUS_EVENT_SUCCESS, LE_TEST_STATUS_EVENT_ERROR,
              LE_PACKET_REPORTING_EVENT
<1>1. CASE OnTestSetup(Control(cmd), Parameter(cmd))
  <2>1. \/ Accepted \/ Refused
        \/ response' = ReadBits(Control(cmd), Parameter(cmd)) + LE_TEST_STATUS_EVENT_SUCCESS
    BY <1>1 DEF OnTestSetup, SetupReset
  <2> QED
    BY <1>0, <2>1, ReadsStayBelowReports
<1>2. CASE TestReceive(Chan(cmd))
  BY <1>0, <1>2 DEF TestReceive
<1>3. CASE TestTransmit(Chan(cmd), Length(cmd) + upper_len, Type(cmd))
  BY <1>0, <1>3 DEF TestTransmit, VendorSpecific
<1> QED
  BY <1>1, <1>2, <1>3 DEF DtmCmdPut

LEMMA PutTypes ==
    ASSUME LibTypeOK, WordTypeOK, NEW cmd \in 0..UINT16_MAX, DtmCmdPut(cmd)
    PROVE  LibTypeOK' /\ WordTypeOK'
<1>1. command' \in 0..UINT16_MAX /\ rx_pkt_count \in Nat /\ 0 \in 0..UINT16_MAX
  BY Is16, Fits16 DEF DtmCmdPut, LibTypeOK
<1>2. response' \in 0..UINT16_MAX
  <2>1. CASE CmdCode(cmd) = 3
    <3>1. OnTestEnd(Control(cmd), Parameter(cmd))
      BY <2>1 DEF DtmCmdPut
    <3>2. response' = 0 \/ response' = PacketReport(rx_pkt_count)
      BY <3>1 DEF OnTestEnd, Refused, LE_TEST_STATUS_EVENT_ERROR
    <3> QED
      BY <3>2, <1>1, ReportsFit, Fits16
  <2>2. CASE CmdCode(cmd) # 3
    <3>1. response' \in Nat /\ response' <= 65535
      BY <2>2, PutAnswers DEF LE_PACKET_REPORTING_EVENT
    <3> QED
      BY <3>1, Fits16
  <2> QED
    BY <2>1, <2>2
<1>3. upper_len' \in {0, 64, 128, 192} /\ LibTypeOK'
  <2> USE <1>1 DEF LibTypeOK, libVars, TestStates
  <2>1. CASE OnTestSetup(Control(cmd), Parameter(cmd))
    <3>1. upper_len' \in {0, 64, 128, 192}
      <4> DEFINE upper == 64 * (((Parameter(cmd) * 16) % 256) \div 64)
      <4>1. upper \in {0, 64, 128, 192}
        BY FieldsOfAWord, UpperBits
      <4>2. upper_len' \in {0, upper, upper_len}
        BY <2>1 DEF OnTestSetup
      <4> HIDE DEF upper
      <4> QED
        BY <4>1, <4>2 DEF WordTypeOK
    <3>2. rx_pkt_count' \in {0, rx_pkt_count} /\ UNCHANGED <<state, phys_ch, packet_len>>
      BY <2>1 DEF OnTestSetup, SetupReset
    <3>3. LibTypeOK'
      BY <3>2
    <3> QED
      BY <3>1, <3>3
  <2>2. CASE TestReceive(Chan(cmd)) /\ UNCHANGED upper_len
    <3>1. Chan(cmd) \in 0..63
      BY FieldsOfAWord
    <3> QED
      BY <2>2, <3>1 DEF TestReceive, WordTypeOK
  <2>3. CASE TestTransmit(Chan(cmd), Length(cmd) + upper_len, Type(cmd)) /\ UNCHANGED upper_len
    <3>1. Chan(cmd) \in 0..63 /\ Length(cmd) + upper_len \in 0..255
      BY FieldsOfAWord DEF WordTypeOK
    <3> QED
      BY <2>3, <3>1 DEF TestTransmit, VendorSpecific, WordTypeOK
  <2>4. CASE OnTestEnd(Control(cmd), Parameter(cmd))
    BY <2>4 DEF OnTestEnd, TestEnd, WordTypeOK
  <2> QED
    BY <2>1, <2>2, <2>3, <2>4 DEF DtmCmdPut
<1> QED
  BY <1>1, <1>2, <1>3 DEF WordTypeOK

LEMMA InitTypes == Init => LibTypeOK /\ WordTypeOK /\ ClientTypeOK
<1>1. 0 \in 0..UINT16_MAX /\ 1 \in 0..UINT16_MAX
  BY Fits16
<1> QED
  BY <1>1 DEF Init, LibTypeOK, WordTypeOK, ClientTypeOK, TestStates, Wish, Ops,
              LE_TEST_STATUS_EVENT_SUCCESS

LEMMA NextTypes ==
    LibTypeOK /\ WordTypeOK /\ ClientTypeOK /\ [Next]_vars
        => (LibTypeOK /\ WordTypeOK /\ ClientTypeOK)'
<1> SUFFICES ASSUME LibTypeOK, WordTypeOK, ClientTypeOK, [Next]_vars
             PROVE  (LibTypeOK /\ WordTypeOK /\ ClientTypeOK)'
  OBVIOUS
<1>1. CASE UNCHANGED vars
  BY <1>1 DEF vars, libVars, LibTypeOK, WordTypeOK, ClientTypeOK
<1>2. CASE Counting
  <2>1. 1..UINT16_MAX \subseteq 0..UINT16_MAX
    OBVIOUS
  <2>2. LibTypeOK'
    BY <1>2, <2>1, CmdAssumption DEF Counting, LibTypeOK
  <2>3. WordTypeOK' /\ ClientTypeOK'
    BY <1>2 DEF Counting, WordTypeOK, ClientTypeOK
  <2> QED
    BY <2>2, <2>3
<1>3. CASE Next /\ ~Counting
  BY <1>3, StepIsPut, StepIsWish, PutTypes
<1> QED
  BY <1>1, <1>2, <1>3

\* Types of the decoder, the library behind it and its clients: in particular a
\* length never leaves its octet and no answer its 16 bits, for all commands.
THEOREM TypeCorrect == Spec => []TypeOK
<1>1. LibTypeOK /\ WordTypeOK /\ ClientTypeOK => TypeOK
  BY DEF LibTypeOK, WordTypeOK, ClientTypeOK, TypeOK
<1> QED
  BY <1>1, InitTypes, NextTypes, PTL DEF Spec

\* The tester can tell a packet report from every other answer by bit 15.
THEOREM ReportsAreTold == Spec => []ReportsAreReports
<1>1. Init => ReportsAreReports
  BY DEF Init, ReportsAreReports, LE_PACKET_REPORTING_EVENT, LE_TEST_STATUS_EVENT_SUCCESS
<1>2. ReportsAreReports /\ [Next]_vars => ReportsAreReports'
  <2> SUFFICES ASSUME ReportsAreReports, [Next]_vars PROVE ReportsAreReports'
    OBVIOUS
  <2>1. CASE Counting \/ UNCHANGED vars
    BY <2>1 DEF Counting, vars, ReportsAreReports
  <2>2. ASSUME NEW cmd, DtmCmdPut(cmd) PROVE ReportsAreReports'
    <3>1. command' = cmd
      BY <2>2 DEF DtmCmdPut
    <3>2. CmdCode(cmd) # 3 => ~(response' >= LE_PACKET_REPORTING_EVENT)
      BY <2>2, PutAnswers DEF LE_PACKET_REPORTING_EVENT
    <3> QED
      BY <3>1, <3>2 DEF ReportsAreReports, LE_PACKET_REPORTING_EVENT
  <2> QED
    BY <2>1, <2>2, StepIsPut
<1> QED
  BY <1>1, <1>2, PTL DEF Spec
=============================================================================
