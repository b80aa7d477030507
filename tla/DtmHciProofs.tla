----------------------------- MODULE DtmHciProofs -----------------------------
(***************************************************************************)
(* Of the HCI transport, for every power table and every sequence of       *)
(* commands: one answer per command, true statuses, the nearest power, and *)
(* the count of the test that ends.                                        *)
(***************************************************************************)
EXTENDS DtmHci, FiniteSetTheorems, SequenceTheorems, TLAPS

Table == {PowerTable[i] : i \in 1..Len(PowerTable)}

\* What NearestPower says of a test's power and the one asked for.
IsNearest(result, power) ==
    /\ result \in Table
    /\ power = POWER_MIN_SET => \A p \in Table : result <= p
    /\ power = POWER_MAX_SET => \A p \in Table : result >= p
    /\ power \in PowerRange => \A p \in Table : Distance(result, power) <= Distance(p, power)

-----------------------------------------------------------------------------
\* dtm_radio_nearest_power_get's loop finds an entry above a power between the
\* lowest and the highest.
LEMMA Crossing ==
    ASSUME NEW power \in Int, LowPower < power, power < TopPower
    PROVE  \E i \in 2..Len(PowerTable) :
              PowerTable[i] > power /\ \A j \in 2..(i - 1) : PowerTable[j] <= power
  <1> DEFINE N == Len(PowerTable)
             T == {i \in 1..N : PowerTable[i] <= power}
  <1>1. N \in Nat /\ N > 1 /\ \A i \in 1..N : PowerTable[i] \in Int
    BY HciAssumption
  <1>2. 1 \in T /\ N \notin T
    BY <1>1 DEF LowPower, TopPower
  <1>3. PICK i \in T : i + 1 \notin T
    <2> SUFFICES ASSUME \A i \in T : i + 1 \in T PROVE FALSE
      OBVIOUS
    <2> DEFINE f == [i \in T |-> i + 1]
    <2>1. IsFiniteSet(T) /\ IsFiniteSet(T \ {1}) /\ Cardinality(T \ {1}) = Cardinality(T) - 1
      <3>1. IsFiniteSet(T)
        <4>1. IsFiniteSet(1..N)
          BY <1>1, FS_Interval
        <4>2. T \subseteq 1..N
          OBVIOUS
        <4> QED
          BY <4>1, <4>2, FS_Subset, Zenon
      <3> QED
        BY <3>1, <1>2, FS_RemoveElement
    <2>2. Cardinality(T) \in Nat
      BY <2>1, FS_CardinalityType
    <2>3. f \in [T -> T \ {1}]
      OBVIOUS
    <2>4. \E x, y \in T : x # y /\ f[x] = f[y]
      <3>1. Cardinality(T \ {1}) < Cardinality(T)
        BY <2>1, <2>2
      <3> HIDE DEF T, f
      <3> QED
        BY <2>1, <2>3, <3>1, FS_PigeonHole
    <2> QED
      BY <2>4
  <1>4. i + 1 \in 2..N /\ PowerTable[i + 1] > power
    BY <1>1, <1>2, <1>3
  <1>5. \A j \in 2..i : PowerTable[j] <= power
    BY <1>1, <1>3, HciAssumption
  <1> QED
    BY <1>4, <1>5

LEMMA NearestIsNearest ==
    ASSUME NEW power \in Int, LowPower < power, power < TopPower
    PROVE  /\ Nearest(power) \in Table
           /\ \A p \in Table : Distance(Nearest(power), power) <= Distance(p, power)
  <1> DEFINE i == CHOOSE i \in 2..Len(PowerTable) :
                     PowerTable[i] > power /\ \A j \in 2..(i - 1) : PowerTable[j] <= power
  <1>1. i \in 2..Len(PowerTable) /\ PowerTable[i] > power
        /\ \A j \in 2..(i - 1) : PowerTable[j] <= power
    BY Crossing
  <1>2. Nearest(power) = IF Distance(PowerTable[i], power) < Distance(PowerTable[i - 1], power)
                         THEN PowerTable[i] ELSE PowerTable[i - 1]
    BY DEF Nearest
  <1> HIDE DEF i
  <1>3. Len(PowerTable) \in Nat /\ i - 1 \in 1..Len(PowerTable) /\ i \in 1..Len(PowerTable)
        /\ \A k \in 1..Len(PowerTable) : PowerTable[k] \in Int
    BY <1>1, HciAssumption
  <1>4. PowerTable[i - 1] <= power
    BY <1>1, <1>3 DEF LowPower
  <1>5. ASSUME NEW k \in 1..Len(PowerTable)
        PROVE  PowerTable[k] <= PowerTable[i - 1] \/ PowerTable[k] >= PowerTable[i]
    <2>a. \A j, l \in 1..Len(PowerTable) : j < l => PowerTable[j] < PowerTable[l]
      BY HciAssumption
    <2>1. CASE k < i - 1
      <3>1. PowerTable[k] < PowerTable[i - 1]
        BY ONLY <1>3, <1>5, <2>a, <2>1
      <3> QED
        BY <1>3, <3>1
    <2>2. CASE k > i
      <3>1. PowerTable[i] < PowerTable[k]
        BY ONLY <1>3, <1>5, <2>a, <2>2
      <3> QED
        BY <1>3, <3>1
    <2>3. CASE k = i - 1 \/ k = i
      BY <1>3, <2>3
    <2> QED
      BY <1>3, <2>1, <2>2, <2>3
  <1>6. Nearest(power) \in Table
    BY <1>2, <1>3 DEF Table
  <1>7. ASSUME NEW k \in 1..Len(PowerTable)
        PROVE  Distance(Nearest(power), power) <= Distance(PowerTable[k], power)
    <2> DEFINE low == PowerTable[i - 1]
               high == PowerTable[i]
               p == PowerTable[k]
    <2>1. low \in Int /\ high \in Int /\ p \in Int /\ low <= power /\ high > power
      BY <1>1, <1>3, <1>4
    <2>2. p <= low \/ p >= high
      BY <1>5
    <2>3. Nearest(power) = IF Distance(high, power) < Distance(low, power) THEN high ELSE low
      BY <1>2
    <2> HIDE DEF low, high, p
    <2>4. Distance(Nearest(power), power) <= Distance(p, power)
      BY <2>1, <2>2, <2>3 DEF Distance
    <2> QED
      BY <2>4 DEF p
  <1> QED
    BY <1>6, <1>7 DEF Table

\* dtm_setup_set_transmit_power chooses the nearest power.
LEMMA PowerForIsNearest ==
    ASSUME NEW power, power \in PowerRange \cup {POWER_MIN_SET, POWER_MAX_SET}
    PROVE  IsNearest(PowerFor(power), power)
  <1>1. /\ Len(PowerTable) \in Nat /\ Len(PowerTable) > 1
        /\ \A k \in 1..Len(PowerTable) : PowerTable[k] \in Int
    BY HciAssumption
  <1>2. LowPower \in Table /\ \A p \in Table : p \in Int /\ LowPower <= p
    BY <1>1, HciAssumption DEF Table, LowPower
  <1>3. TopPower \in Table /\ \A p \in Table : p \in Int /\ p <= TopPower
    BY <1>1, HciAssumption DEF Table, TopPower
  <1>4. CASE power = POWER_MIN_SET
    BY <1>2, <1>4 DEF PowerFor, IsNearest, POWER_MIN_SET, POWER_MAX_SET, PowerRange
  <1>5. CASE power = POWER_MAX_SET
    BY <1>3, <1>5 DEF PowerFor, IsNearest, POWER_MIN_SET, POWER_MAX_SET, PowerRange
  <1>6. CASE power \in PowerRange
    <2>1. power \in Int /\ power # POWER_MIN_SET /\ power # POWER_MAX_SET
      BY <1>6 DEF PowerRange, POWER_MIN_SET, POWER_MAX_SET
    <2>2. PowerFor(power) = IF power <= LowPower THEN LowPower
                            ELSE IF power >= TopPower THEN TopPower ELSE Nearest(power)
      BY <1>6, <2>1 DEF PowerFor
    <2>3. CASE power <= LowPower
      BY <1>2, <2>1, <2>2, <2>3 DEF IsNearest, Distance
    <2>4. CASE power > LowPower /\ power >= TopPower
      BY <1>2, <1>3, <2>1, <2>2, <2>4 DEF IsNearest, Distance
    <2>5. CASE power > LowPower /\ power < TopPower
      BY <1>2, <1>3, <2>1, <2>2, <2>5, NearestIsNearest DEF IsNearest
    <2> QED
      BY <1>2, <1>3, <2>1, <2>3, <2>4, <2>5
  <1> QED
    BY <1>4, <1>5, <1>6

-----------------------------------------------------------------------------
(***************************************************************************)
(* The inductive invariant.                                                *)
(***************************************************************************)
TestStages == Stages \ {"idle"}

\* Where a command can be, and that it has no answer before it is done.
Unanswered ==
    /\ at \in Stages \cup OtherOps
    /\ at # "idle" => answers = <<>>
    /\ at \in TestStages => command.op \in TestOps
    /\ at \in OtherOps => command.op \in OtherOps

\* While a test is set up none runs; what its last call finds.
SettingUp ==
    /\ at \in TestStages => asked = None /\ state = "IDLE" /\ heard = 0
    /\ at \in {"slot", "receive"} => command.op # "tx"
    /\ at = "transmit" => IsNearest(txpower, params.power)

HasAnswer(status) ==
    /\ Len(answers) = 1
    /\ answers[1].op = command.op /\ answers[1].version = command.version
    /\ answers[1].status = status

Done ==
    at = "idle" /\ command # None =>
        \E status \in Statuses :
            /\ HasAnswer(status)
            /\ command.op \in TestOps =>
                  IF status = "SUCCESS" THEN asked = command ELSE asked = None /\ state = "IDLE"

\* The counter has come round some number of times.
Counted ==
    /\ rx_pkt_count \in 0..(CountMod - 1) /\ heard \in Nat
    /\ \E laps \in Nat : heard = laps * CountMod + rx_pkt_count

HciInv ==
    /\ txpower \in Table
    /\ Counted
    /\ asked.op = "tx" => IsNearest(txpower, Given(asked).power)
    /\ Unanswered /\ SettingUp /\ Done

LEMMA CountedFromZero == ASSUME rx_pkt_count = 0, heard = 0 PROVE Counted
  <1>1. 0 = 0 * CountMod + 0 /\ 0 \in 0..(CountMod - 1)
    BY HciAssumption
  <1> QED
    BY <1>1 DEF Counted

LEMMA CountedFromZeroPrimed == ASSUME rx_pkt_count' = 0, heard' = 0 PROVE Counted'
  <1>1. 0 = 0 * CountMod + 0 /\ 0 \in 0..(CountMod - 1)
    BY HciAssumption
  <1> QED
    BY <1>1 DEF Counted

LEMMA ModOfLaps ==
    ASSUME NEW laps \in Nat, NEW count \in 0..(CountMod - 1)
    PROVE  (laps * CountMod + count) % CountMod = count
  BY HciAssumption

LEMMA CountedIsMod == Counted => rx_pkt_count = heard % CountMod
  BY ModOfLaps DEF Counted

LEMMA PacketKeepsCount == Counted /\ PacketCounted => Counted'
  <1> SUFFICES ASSUME Counted, PacketCounted PROVE Counted'
    OBVIOUS
  <1>1. PICK laps \in Nat : heard = laps * CountMod + rx_pkt_count
    BY DEF Counted
  <1>2. /\ CountMod \in Nat \ {0} /\ rx_pkt_count \in 0..(CountMod - 1) /\ heard \in Nat
        /\ rx_pkt_count' = (rx_pkt_count + 1) % CountMod /\ heard' = heard + 1
    BY HciAssumption DEF Counted, PacketCounted
  <1>3. CASE rx_pkt_count + 1 < CountMod
    <2>1. rx_pkt_count' = rx_pkt_count + 1
      <3>1. (0 * CountMod + (rx_pkt_count + 1)) % CountMod = rx_pkt_count + 1
        BY <1>2, <1>3, ModOfLaps
      <3> QED
        BY <1>2, <3>1
    <2> DEFINE lap == laps * CountMod
    <2>2. heard' = lap + rx_pkt_count'
      <3>1. lap \in Nat /\ heard = lap + rx_pkt_count
        BY <1>1, <1>2
      <3> HIDE DEF lap
      <3> QED
        BY ONLY <3>1, <1>2, <2>1
    <2>3. \E l \in Nat : heard' = l * CountMod + rx_pkt_count'
      BY <2>2, Zenon
    <2>4. rx_pkt_count' \in 0..(CountMod - 1) /\ heard' \in Nat
      BY <1>2, <1>3, <2>1
    <2> QED
      BY <2>3, <2>4, Zenon DEF Counted
  <1>4. CASE rx_pkt_count + 1 = CountMod
    <2>1. rx_pkt_count' = 0
      <3>1. (1 * CountMod + 0) % CountMod = 0
        BY <1>2, ModOfLaps
      <3> QED
        BY <1>2, <1>4, <3>1
    <2> DEFINE lap == laps * CountMod
    <2>2. heard' = (laps + 1) * CountMod + rx_pkt_count'
      <3>1. lap \in Nat /\ heard = lap + rx_pkt_count
        BY <1>1, <1>2
      <3>2. (laps + 1) * CountMod = lap + CountMod
        BY <1>2
      <3> HIDE DEF lap
      <3> QED
        BY <3>1, <3>2, <1>2, <1>4, <2>1
    <2>3. \E l \in Nat : heard' = l * CountMod + rx_pkt_count'
      <3>1. laps + 1 \in Nat
        OBVIOUS
      <3> QED
        BY <2>2, <3>1, Zenon
    <2>4. rx_pkt_count' \in 0..(CountMod - 1) /\ heard' \in Nat
      BY <1>2, <2>1
    <2> QED
      BY <2>3, <2>4, Zenon DEF Counted
  <1> QED
    BY <1>2, <1>3, <1>4

LEMMA InitHciInv == Init => HciInv
  <1> SUFFICES ASSUME Init PROVE HciInv
    OBVIOUS
  <1>1. txpower \in Table
    BY HciAssumption DEF Init, Table
  <1> QED
    BY <1>1, CountedFromZero
    DEF Init, HciInv, Unanswered, SettingUp, Done, None, Stages, TestStages, OtherOps

LEMMA RadioInitSucceeds == txpower \in Table => RadioInitOk
  BY DEF Table, RadioInitOk

\* A command's answer, whichever call gives it.
LEMMA AnswerIsIt ==
    ASSUME NEW status, answers = <<>>, Answer(status), command' = command
    PROVE  at' = "idle" /\ HasAnswer(status)'
  <1>1. answers' = <<Event(command, status, 0)>>
    BY DEF Answer
  <1> QED
    BY <1>1 DEF Answer, HasAnswer, Event

LEMMA BeginKeeps == HciInv /\ (\E cmd \in Commands : Begin(cmd)) => HciInv'
  <1> SUFFICES ASSUME HciInv, NEW cmd \in Commands, Begin(cmd) PROVE HciInv'
    OBVIOUS
  <1> USE DEF Begin, settings, history
  <1>1. cmd.op \in TestOps \cup OtherOps
    BY CommandsAssumption DEF TestCommands
  <1>2. CASE cmd.op \in TestOps
    BY <1>2, CountedFromZeroPrimed
    DEF HciInv, Unanswered, SettingUp, Done, Prepared, NoTest, None, Stages, TestStages,
        TestOps, OtherOps
  <1>3. CASE cmd.op \in OtherOps
    BY <1>3 DEF HciInv, Counted, Unanswered, SettingUp, Done, Stages, TestStages, TestOps, OtherOps
  <1> QED
    BY <1>1, <1>2, <1>3

\* A call of a test's set-up goes on within the set-up or refuses.
LEMMA SetUpKeeps ==
    ASSUME HciInv, at \in TestStages, UNCHANGED <<command, history, state, rx_pkt_count>>,
           txpower' \in Table,
           \/ /\ at' \in TestStages /\ answers' = answers
              /\ at' \in {"slot", "receive"} => command.op # "tx"
              /\ at' = "transmit" => IsNearest(txpower', params.power)
           \/ \E status \in Statuses \ {"SUCCESS"} : Answer(status)
    PROVE  HciInv'
  <1> USE DEF history
  <1>0. Counted'
    BY DEF HciInv, Counted
  <1>1. /\ answers = <<>> /\ command.op \in TestOps /\ command # None
        /\ asked = None /\ asked' = None /\ state' = "IDLE" /\ heard' = 0 /\ params' = params
    BY DEF HciInv, Unanswered, SettingUp, TestStages, None, TestOps, params
  <1>2. CASE /\ at' \in TestStages /\ answers' = answers
             /\ at' \in {"slot", "receive"} => command.op # "tx"
             /\ at' = "transmit" => IsNearest(txpower', params.power)
    <2>1. Unanswered'
      BY <1>1, <1>2 DEF Unanswered, TestStages, Stages, OtherOps
    <2>2. SettingUp'
      BY <1>1, <1>2 DEF SettingUp, TestStages
    <2> QED
      BY <1>0, <1>1, <1>2, <2>1, <2>2 DEF HciInv, Done, None, TestStages
  <1>3. CASE \E status \in Statuses \ {"SUCCESS"} : Answer(status)
    <2>1. PICK status \in Statuses \ {"SUCCESS"} : Answer(status)
      BY <1>3
    <2>2. at' = "idle" /\ HasAnswer(status)'
      BY <1>1, <2>1, AnswerIsIt
    <2> QED
      BY <1>0, <1>1, <2>1, <2>2 DEF HciInv, Unanswered, SettingUp, Done, None, Stages,
                                    TestStages, OtherOps
  <1> QED
    BY <1>2, <1>3

SetUp == SetPayload \/ SetPhy \/ SetModulation \/ SetCte \/ SetAntenna \/ SetSlot \/ SetPower

LEMMA SetUpStepsKeep == HciInv /\ SetUp => HciInv'
  <1> SUFFICES ASSUME HciInv, SetUp PROVE HciInv'
    OBVIOUS
  <1> USE DEF InCommand, GoTo, settings, test, Stages, TestStages, Statuses
  <1>1. txpower \in Table
    BY DEF HciInv
  <1>2. CASE SetPayload
    BY <1>1, <1>2, SetUpKeeps DEF SetPayload
  <1>3. CASE SetPhy
    <2>1. RadioInitOk
      BY <1>1, RadioInitSucceeds
    <2> QED
      BY <1>1, <1>3, <2>1, SetUpKeeps DEF SetPhy
  <1>4. CASE SetModulation
    BY <1>1, <1>4, SetUpKeeps DEF SetModulation
  <1>5. /\ {AfterCte(0), AfterCte(params.cte_len)} \subseteq {"power", "receive", "slot"}
        /\ AfterCte(0) # "power" => command.op # "tx"
        /\ AfterCte(params.cte_len) # "power" => command.op # "tx"
    BY DEF AfterCte
  <1>6. CASE SetCte
    <2>1. at \in TestStages /\ txpower' = txpower
          /\ UNCHANGED <<command, history, state, rx_pkt_count>>
      BY <1>6 DEF SetCte
    <2>2. CASE GoTo(AfterCte(0)) \/ GoTo("antenna")
      <3>1. at' \in {"power", "receive", "slot", "antenna"} /\ answers' = answers
            /\ (at' \in {"slot", "receive"} => command.op # "tx")
        BY <1>5, <2>2
      <3>2. at' \in TestStages /\ at' # "transmit"
        BY <3>1
      <3> QED
        BY <1>1, <2>1, <3>1, <3>2, SetUpKeeps
    <2>3. CASE Answer("CMD_DISALLOWED") \/ Answer("HW_FAILURE")
      BY <1>1, <2>1, <2>3, SetUpKeeps
    <2> QED
      BY <1>6, <2>2, <2>3 DEF SetCte, CteRefused
  <1>7. CASE SetAntenna
    <2>1. at \in TestStages /\ txpower' = txpower
          /\ UNCHANGED <<command, history, state, rx_pkt_count>>
      BY <1>7 DEF SetAntenna
    <2>2. CASE GoTo(AfterCte(params.cte_len))
      <3>1. at' \in {"power", "receive", "slot", "antenna"} /\ answers' = answers
            /\ (at' \in {"slot", "receive"} => command.op # "tx")
        BY <1>5, <2>2
      <3>2. at' \in TestStages /\ at' # "transmit"
        BY <3>1
      <3> QED
        BY <1>1, <2>1, <3>1, <3>2, SetUpKeeps
    <2>3. CASE Answer("HW_FAILURE")
      BY <1>1, <2>1, <2>3, SetUpKeeps
    <2> QED
      BY <1>7, <2>2, <2>3 DEF SetAntenna
  <1>8. CASE SetSlot
    BY <1>1, <1>8, SetUpKeeps DEF SetSlot, HciInv, SettingUp
  <1>9. CASE SetPower
    <2>1. params.power \in PowerRange \cup {POWER_MIN_SET, POWER_MAX_SET}
             => IsNearest(PowerFor(params.power), params.power) /\ PowerFor(params.power) \in Table
      BY PowerForIsNearest DEF IsNearest
    <2> QED
      BY <1>1, <1>9, <2>1, SetUpKeeps DEF SetPower
  <1> QED
    BY <1>2, <1>3, <1>4, <1>6, <1>7, <1>8, <1>9 DEF SetUp

LEMMA StartKeeps == HciInv /\ (TestReceive \/ TestTransmit) => HciInv'
  <1> SUFFICES ASSUME HciInv, TestReceive \/ TestTransmit PROVE HciInv'
    OBVIOUS
  <1> USE DEF settings, test, history, Started
  <1>1. /\ answers = <<>> /\ command.op \in TestOps /\ command # None
        /\ asked = None /\ state = "IDLE" /\ heard = 0
        /\ txpower \in Table /\ txpower' = txpower /\ command' = command
    <2>1. at \in TestStages /\ txpower' = txpower /\ command' = command
      BY DEF TestReceive, TestTransmit, Stages, TestStages
    <2>2. answers = <<>> /\ command.op \in TestOps
      BY <2>1 DEF HciInv, Unanswered, TestStages
    <2>3. command # None
      BY <2>2 DEF None, TestOps
    <2> QED
      BY <2>1, <2>2, <2>3 DEF HciInv, SettingUp
  <1>2. CASE TestReceive /\ Answer("INVALID_PARAM") /\ UNCHANGED <<test, history>>
    BY <1>1, <1>2, SetUpKeeps DEF TestReceive, Stages, TestStages, Statuses
  <1>3. CASE Answer("SUCCESS") /\ Started /\ rx_pkt_count' = 0
             /\ (command.op = "tx" => IsNearest(txpower, params.power))
    <2>1. at' = "idle" /\ HasAnswer("SUCCESS")'
      BY <1>1, <1>3, AnswerIsIt
    <2>2. Done'
      BY <1>3, <2>1 DEF Done, Statuses
    <2>3. asked' = command /\ Counted'
      BY <1>1, <1>3, CountedFromZeroPrimed
    <2> QED
      BY <1>1, <1>3, <2>1, <2>2, <2>3 DEF HciInv, Unanswered, SettingUp, Stages, TestStages,
                                          OtherOps, params
  <1> QED
    BY <1>2, <1>3 DEF TestReceive, TestTransmit, HciInv, SettingUp

LEMMA OtherKeeps == HciInv /\ (TestEnd \/ Reset \/ Inform \/ Unknown) => HciInv'
  <1> SUFFICES ASSUME HciInv, TestEnd \/ Reset \/ Inform \/ Unknown PROVE HciInv'
    OBVIOUS
  <1> USE DEF settings, test, history, InCommand
  <1>1. /\ at \in OtherOps /\ answers = <<>> /\ command.op \in OtherOps
        /\ txpower' = txpower /\ command' = command /\ RadioInitOk
    BY RadioInitSucceeds
    DEF HciInv, Unanswered, Stages, TestStages, OtherOps, TestEnd, Reset, Inform, Unknown
  <1>2. \E status \in Statuses : at' = "idle" /\ HasAnswer(status)'
    <2>1. CASE TestEnd
      <3>1. answers' = <<Event(command, "SUCCESS", CountRead)>>
        BY <1>1, <2>1 DEF TestEnd
      <3> QED
        BY <1>1, <2>1, <3>1 DEF TestEnd, Event, HasAnswer, Statuses
    <2>2. CASE Reset \/ Inform \/ Unknown
      <3>1. PICK status \in Statuses : Answer(status)
        BY <1>1, <2>2 DEF Reset, Inform, Unknown, Statuses
      <3> QED
        BY <1>1, <3>1, AnswerIsIt
    <2> QED
      BY <2>1, <2>2
  <1>3. /\ Counted'
        /\ asked' = asked \/ asked' = None
    <2>1. CASE TestEnd \/ Reset
      BY <1>1, <2>1, CountedFromZeroPrimed DEF TestEnd, Reset, NoTest
    <2>2. CASE Inform \/ Unknown
      BY <2>2 DEF HciInv, Counted, Inform, Unknown
    <2> QED
      BY <2>1, <2>2
  <1>4. command'.op \notin TestOps
    BY <1>1 DEF OtherOps, TestOps
  <1> QED
    BY <1>1, <1>2, <1>3, <1>4
    DEF HciInv, Unanswered, SettingUp, Done, None, Stages, TestStages, OtherOps

LEMMA RadioKeeps == HciInv /\ OnRadioEnd => HciInv'
  <1> SUFFICES ASSUME HciInv, OnRadioEnd PROVE HciInv'
    OBVIOUS
  <1> USE DEF settings, OnRadioEnd
  <1>1. Counted'
    BY PacketKeepsCount DEF HciInv, Counted, PacketRefused
  <1>2. at \notin TestStages
    BY DEF HciInv, SettingUp
  <1> QED
    BY <1>1, <1>2 DEF HciInv, Unanswered, SettingUp, Done, HasAnswer, TestStages, params, Stages

LEMMA StepHciInv == HciInv /\ [Next]_vars => HciInv'
  <1> SUFFICES ASSUME HciInv, [Next]_vars PROVE HciInv'
    OBVIOUS
  <1>1. CASE UNCHANGED vars
    BY <1>1 DEF vars, settings, test, history, HciInv, Counted, Unanswered, SettingUp, Done,
                HasAnswer, params
  <1> QED
    BY <1>1, BeginKeeps, SetUpStepsKeep, StartKeeps, OtherKeeps, RadioKeeps DEF Next, SetUp

LEMMA HciInvHolds == Spec => []HciInv
  BY InitHciInv, StepHciInv, PTL DEF Spec

-----------------------------------------------------------------------------
(***************************************************************************)
(* The settings, stage by stage: what the calls of a command have stored   *)
(* before the next one, so that the last finds all of what was asked for.  *)
(***************************************************************************)
CteTypeOK ==
    cte_info \in [mode: {"OFF", "AOA", "AOD"}, time: 0..CTE_LENGTH_MAX,
                  slot: {0, SLOT_1US, SLOT_2US}, antenna_pattern_len: 0..MaxPattern]
PatternTypeOK ==
    /\ cur_pattern \in [0..MaxPattern -> Antennas]
    /\ switch_pattern \in Seq(Antennas) /\ Len(switch_pattern) <= SwitchEntries
TestTypeOK ==
    /\ state \in {"IDLE", "RECEIVER_TEST", "TRANSMITTER_TEST"}
    /\ phys_ch \in 0..PHYS_CH_MAX /\ packet_type \in Packets /\ packet_len \in 0..255
    /\ rx_pkt_count \in 0..(CountMod - 1)

\* Of the commands only tests have parameters, and only they run.
Typed ==
    /\ at \in TestStages => command \in TestCommands
    /\ asked # None => asked \in TestCommands

PhyAsAsked(given) == given.phy \in Phys /\ radio_mode = RadioMode[given.phy]
ModeAsAsked(given) ==
    /\ given.cte_type \in CteTypes
    /\ cte_info.mode = Mode(given.cte_type) /\ cte_info.time = given.cte_len
    /\ cte_info.mode = "AOD" => cte_info.slot \in {SLOT_1US, SLOT_2US}
CteAsAsked(given) ==
    /\ given.cte_len = 0 => cte_info.mode = "OFF"
    /\ given.cte_len # 0 =>
          /\ ModeAsAsked(given)
          /\ cte_info.antenna_pattern_len # 0
          /\ given.pattern = [i \in 1..cte_info.antenna_pattern_len |-> cur_pattern[i - 1]]
SlotAsAsked(given) == given.cte_len # 0 => cte_info.slot \in {SLOT_1US, SLOT_2US}

SetSoFar ==
    /\ at \in {"modulation", "cte", "antenna", "slot", "power", "receive", "transmit"} =>
          PhyAsAsked(params)
    /\ at \in TestStages \ {"payload"} /\ command.op = "tx" => params.payload \in Payloads
    /\ at \in {"modulation", "slot", "receive"} => command.op = "rx"
    /\ at \in {"payload", "power", "transmit"} => command.op = "tx"
    /\ at = "antenna" =>
          /\ params.cte_len # 0 /\ Len(params.pattern) <= MaxPattern
          /\ ModeAsAsked(params)
    /\ at \in {"slot", "power", "receive", "transmit"} => CteAsAsked(params)
    /\ at = "receive" => SlotAsAsked(params)
    /\ at = "transmit" => params.chan <= PHYS_CH_MAX

Running ==
    /\ asked # None =>
          /\ state = IF asked.op = "rx" THEN "RECEIVER_TEST" ELSE "TRANSMITTER_TEST"
          /\ PhyAsAsked(Given(asked)) /\ phys_ch = Given(asked).chan
          /\ asked.op = "tx" =>
                /\ packet_type = DtmPacket[Given(asked).payload + 1]
                /\ packet_len = Given(asked).len
          /\ CteAsAsked(Given(asked))
          /\ asked.op = "rx" => SlotAsAsked(Given(asked))
    /\ IqReportIsOfTheTest

SettingsInv ==
    /\ CteTypeOK /\ PatternTypeOK /\ TestTypeOK /\ radio_mode \in RadioModes
    /\ iq_rep_cb \in BOOLEAN /\ \A i \in 1..Len(answers) : answers[i].status \in Statuses
    /\ Typed /\ SetSoFar /\ Running

LEMMA GivenFields ==
    ASSUME NEW cmd \in TestCommands
    PROVE  /\ cmd.op \in TestOps /\ cmd.chan \in Octets
           /\ Given(cmd).op = cmd.op /\ Given(cmd).chan = cmd.chan
           /\ Given(cmd).len \in Octets /\ Given(cmd).payload \in Octets
           /\ Given(cmd).cte_len \in Octets /\ Given(cmd).pattern \in Seq(Antennas)
  <1>1. /\ cmd.op \in TestOps /\ cmd.chan \in Octets
        /\ Given(cmd).op = cmd.op /\ Given(cmd).chan = cmd.chan
        /\ Given(cmd).len = cmd.len /\ Given(cmd).payload = cmd.payload
    BY DEF TestCommands, Given
  <1>2. cmd.len \in Octets /\ cmd.payload \in Octets
    BY DEF TestCommands
  <1>3. Given(cmd).cte_len \in Octets
    BY DEF TestCommands, Given, Since, Octets
  <1>4. Given(cmd).pattern \in Seq(Antennas)
    <2>1. <<0, 0>> \in Seq(Antennas)
      BY DEF Antennas
    <2>2. Given(cmd).pattern = Since(cmd, 3, cmd.pattern, <<0, 0>>)
      BY DEF TestCommands, Given
    <2> QED
      BY <2>1, <2>2 DEF TestCommands, Since
  <1> QED
    BY <1>1, <1>2, <1>3, <1>4

\* switch_pattern_set never gives the radio more than it holds.
LEMMA SwitchPatternTyped ==
    ASSUME CteTypeOK, PatternTypeOK, NEW rx \in BOOLEAN, RadioCtePrepare(rx)
    PROVE  switch_pattern' \in Seq(Antennas) /\ Len(switch_pattern') <= SwitchEntries
  <1>1. CASE switch_pattern' = <<>> \/ UNCHANGED switch_pattern
    <2>1. SwitchEntries \in Nat
      BY HciAssumption
    <2>2. Len(<<>>) <= SwitchEntries /\ <<>> \in Seq(Antennas)
      BY <2>1
    <2> QED
      BY <2>2, <1>1 DEF PatternTypeOK
  <1>2. ASSUME NEW entries \in Seq(Antennas), switch_pattern' = Written(entries)
        PROVE  switch_pattern' \in Seq(Antennas) /\ Len(switch_pattern') <= SwitchEntries
    <2>1. PICK l \in Nat : l = Len(switch_pattern)
      BY DEF PatternTypeOK
    <2>2. PICK e \in Nat : e = Len(entries)
      OBVIOUS
    <2>3. PICK all \in Seq(Antennas) : all = switch_pattern \o entries /\ Len(all) = l + e
      BY <2>1, <2>2, ConcatProperties DEF PatternTypeOK
    <2>4. PICK m \in 0..l + e :
             m = (IF l + e < SwitchEntries THEN l + e ELSE SwitchEntries) /\ m <= SwitchEntries
      BY HciAssumption
    <2>5. switch_pattern' = SubSeq(all, 1, m)
      BY <2>1, <2>2, <2>3, <2>4, <1>2 DEF Written
    <2>6. SubSeq(all, 1, m) \in Seq(Antennas) /\ Len(SubSeq(all, 1, m)) = m
      BY <2>3, <2>4
    <2> QED
      BY <2>4, <2>5, <2>6
  <1>3. PICK n \in 0..MaxPattern : n = cte_info.antenna_pattern_len
    BY DEF CteTypeOK
  <1>4. [i \in 1..(n + 1) |-> cur_pattern[i - 1]] \in Seq(Antennas)
    <2>1. \A i \in 1..(n + 1) : i - 1 \in 0..MaxPattern
      BY HciAssumption
    <2>2. \A i \in 1..(n + 1) : cur_pattern[i - 1] \in Antennas
      BY <2>1 DEF PatternTypeOK
    <2> QED
      BY <2>2, HciAssumption
  <1>5. <<PDU_ANTENNA, PDU_ANTENNA>> \in Seq(Antennas)
    BY DEF PDU_ANTENNA, Antennas
  <1>6. <<PDU_ANTENNA, PDU_ANTENNA>> \o [i \in 1..(n + 1) |-> cur_pattern[i - 1]] \in Seq(Antennas)
    BY <1>4, <1>5
  <1> QED
    BY <1>1, <1>2, <1>3, <1>6 DEF RadioCtePrepare

\* While a test is set up none runs: only what is set so far matters.
LEMMA SetUpStores ==
    ASSUME HciInv, SettingsInv, at \in TestStages, UNCHANGED <<command, history, iq_rep_cb>>,
           CteTypeOK', PatternTypeOK', TestTypeOK', radio_mode' \in RadioModes,
           \/ at' \in TestStages /\ answers' = answers /\ SetSoFar'
           \/ \E status \in Statuses : Answer(status)
    PROVE  SettingsInv'
  <1>1. asked = None /\ iq = None /\ answers = <<>> /\ command \in TestCommands
    BY DEF HciInv, SettingUp, Unanswered, SettingsInv, Running, IqReportIsOfTheTest, Typed,
           TestStages
  <1>2. asked' = None /\ iq' = None /\ command' = command /\ iq_rep_cb' = iq_rep_cb
    BY <1>1 DEF history
  <1>3. Running' /\ Typed'
    BY <1>1, <1>2 DEF Running, IqReportIsOfTheTest, Typed
  <1>4. SetSoFar'
    <2>1. CASE at' \in TestStages
      BY <2>1 DEF Answer, TestStages
    <2>2. CASE at' = "idle"
      BY <2>2 DEF SetSoFar, TestStages
    <2> QED
      BY <2>1, <2>2 DEF Answer
  <1>5. \A i \in 1..Len(answers') : answers'[i].status \in Statuses
    <2>1. CASE answers' = answers
      BY <2>1 DEF SettingsInv
    <2>2. CASE \E status \in Statuses : Answer(status)
      <3>1. PICK status \in Statuses : answers' = <<Event(command, status, 0)>>
        BY <2>2, <1>1 DEF Answer
      <3> QED
        BY <3>1 DEF Event
    <2> QED
      BY <2>1, <2>2
  <1> QED
    BY <1>2, <1>3, <1>4, <1>5 DEF SettingsInv

LEMMA SetUpStepsStore == HciInv /\ SettingsInv /\ SetUp => SettingsInv'
  <1> SUFFICES ASSUME HciInv, SettingsInv, SetUp PROVE SettingsInv'
    OBVIOUS
  <1>1. /\ CteTypeOK /\ PatternTypeOK /\ TestTypeOK /\ radio_mode \in RadioModes
        /\ SetSoFar /\ Typed
    BY DEF SettingsInv
  <1>2. at \in TestStages /\ UNCHANGED <<command, history, iq_rep_cb, params>> /\ TestTypeOK'
    BY <1>1 DEF SetUp, SetPayload, SetPhy, SetModulation, SetCte, SetAntenna, SetSlot, SetPower,
           InCommand, test, settings, TestStages, Stages, params, TestTypeOK
  <1>3. /\ command \in TestCommands /\ command.op \in TestOps
        /\ params.op = command.op /\ params.cte_len \in Octets /\ params.pattern \in Seq(Antennas)
    BY <1>1, <1>2, GivenFields DEF Typed, params
  <1>4. ASSUME CteTypeOK', PatternTypeOK', radio_mode' \in RadioModes,
               \/ at' \in TestStages /\ answers' = answers /\ SetSoFar'
               \/ \E status \in Statuses : Answer(status)
        PROVE  SettingsInv'
    BY <1>1, <1>2, <1>4, SetUpStores
  <1>5. UNCHANGED <<cte_info, cur_pattern, switch_pattern>> => CteTypeOK' /\ PatternTypeOK'
    BY <1>1 DEF CteTypeOK, PatternTypeOK
  <1>6. UNCHANGED <<cte_info, cur_pattern>> => (CteAsAsked(params) => CteAsAsked(params)')
    BY <1>2 DEF CteAsAsked, ModeAsAsked
  <1>7. UNCHANGED radio_mode => (PhyAsAsked(params) => PhyAsAsked(params)')
    BY <1>2 DEF PhyAsAsked
  <1>8. CASE SetPayload
    <2>1. UNCHANGED <<cte_info, cur_pattern, switch_pattern, radio_mode>> /\ command.op = "tx"
      BY <1>1, <1>8 DEF SetPayload, settings, test, SetSoFar, InCommand
    <2>2. CASE params.payload \in Payloads /\ GoTo("phy")
      <3>1. at' = "phy" /\ answers' = answers
        BY <2>2 DEF GoTo
      <3>2. SetSoFar'
        BY <3>1, <2>2, <1>2 DEF SetSoFar
      <3> QED
        BY <3>1, <3>2, <2>1, <1>1, <1>4, <1>5 DEF TestStages, Stages
    <2>3. CASE Answer("UNSUPP_FEATURE_PARAM_VAL")
      BY <2>1, <2>3, <1>1, <1>4, <1>5 DEF Statuses
    <2> QED
      BY <2>2, <2>3, <1>8 DEF SetPayload
  <1>9. CASE SetPhy
    <2>1. UNCHANGED <<cte_info, cur_pattern, switch_pattern>> /\ at = "phy"
      BY <1>9 DEF SetPhy, test, InCommand
    <2>2. command.op = "tx" => params.payload \in Payloads
      BY <2>1, <1>1 DEF SetSoFar, TestStages, Stages
    <2>3. CASE /\ params.phy \in Phys /\ radio_mode' = RadioMode[params.phy]
               /\ GoTo(IF command.op = "rx" THEN "modulation" ELSE "cte")
      <3>1. /\ at' = (IF command.op = "rx" THEN "modulation" ELSE "cte") /\ answers' = answers
            /\ radio_mode' \in RadioModes
        BY <2>3 DEF GoTo, RadioModes
      <3>2. SetSoFar'
        BY <3>1, <2>2, <2>3, <1>2 DEF SetSoFar, PhyAsAsked
      <3> QED
        BY <3>1, <3>2, <2>1, <1>4, <1>5 DEF TestStages, Stages
    <2>4. CASE Answer("UNSUPP_FEATURE_PARAM_VAL") /\ radio_mode' \in RadioModes
      BY <2>1, <2>4, <1>4, <1>5 DEF Statuses
    <2> QED
      BY <2>3, <2>4, <1>1, <1>9 DEF SetPhy, RadioModes
  <1>10. CASE SetModulation
    <2>1. /\ UNCHANGED <<cte_info, cur_pattern, switch_pattern, radio_mode>> /\ command.op = "rx"
          /\ PhyAsAsked(params)
      BY <1>1, <1>10 DEF SetModulation, settings, test, SetSoFar, InCommand
    <2>2. CASE GoTo("cte")
      <3>1. at' = "cte" /\ answers' = answers
        BY <2>2 DEF GoTo
      <3>2. SetSoFar'
        BY <3>1, <2>1, <1>2, <1>7 DEF SetSoFar
      <3> QED
        BY <3>1, <3>2, <2>1, <1>1, <1>4, <1>5 DEF TestStages, Stages
    <2>3. CASE Answer("UNSUPP_FEATURE_PARAM_VAL") \/ Answer("HW_FAILURE")
      BY <2>1, <2>3, <1>1, <1>4, <1>5 DEF Statuses
    <2> QED
      BY <2>2, <2>3, <1>10 DEF SetModulation
  <1>11. CASE SetCte
    <2>1. /\ UNCHANGED <<cur_pattern, switch_pattern, radio_mode>> /\ at = "cte"
          /\ PhyAsAsked(params) /\ (command.op = "tx" => params.payload \in Payloads)
      BY <1>1, <1>11 DEF SetCte, test, SetSoFar, InCommand, TestStages, Stages
    <2>2. PatternTypeOK' /\ PhyAsAsked(params)'
      BY <2>1, <1>1, <1>7 DEF PatternTypeOK
    <2>3. CASE params.cte_len = 0 /\ CteOff /\ GoTo(AfterCte(0))
      <3>1. /\ at' = (IF command.op = "tx" THEN "power" ELSE "receive") /\ answers' = answers
            /\ command.op \in {"tx", "rx"}
        BY <2>3, <1>3 DEF GoTo, AfterCte, TestOps
      <3>2. CteTypeOK' /\ cte_info'.mode = "OFF"
        BY <2>3, <1>1 DEF CteOff, CteTypeOK
      <3>3. CteAsAsked(params)' /\ SlotAsAsked(params)'
        BY <3>2, <2>3, <1>2 DEF CteAsAsked, SlotAsAsked
      <3>4. SetSoFar'
        BY <3>1, <3>3, <2>1, <2>2, <1>2 DEF SetSoFar
      <3> QED
        BY <3>1, <3>2, <3>4, <2>1, <2>2, <1>1, <1>4 DEF TestStages, Stages
    <2>4. CASE UNCHANGED cte_info /\ (Answer("CMD_DISALLOWED") \/ Answer("HW_FAILURE"))
      BY <2>1, <2>4, <1>1, <1>4, <1>5 DEF Statuses
    <2>5. CASE /\ params.cte_len \in CTE_LENGTH_MIN..CTE_LENGTH_MAX
               /\ Len(params.pattern) <= MaxPattern /\ params.cte_type \in CteTypes
               /\ CteOn /\ GoTo("antenna")
      <3>1. at' = "antenna" /\ answers' = answers
        BY <2>5 DEF GoTo
      <3>2. /\ cte_info' \in [mode: {"OFF", "AOA", "AOD"}, time: 0..CTE_LENGTH_MAX,
                              slot: {0, SLOT_1US, SLOT_2US}, antenna_pattern_len: 0..MaxPattern]
            /\ cte_info'.mode = Mode(params.cte_type) /\ cte_info'.time = params.cte_len
            /\ cte_info'.slot = SlotOf(params.cte_type)
        <4>1. /\ Mode(params.cte_type) \in {"AOA", "AOD"}
              /\ SlotOf(params.cte_type) \in {0, SLOT_1US, SLOT_2US}
          BY <2>5, <1>1 DEF Mode, CteTypes, SlotOf, CteTypeOK
        <4>2. params.cte_len \in 0..CTE_LENGTH_MAX
          <5>1. params.cte_len \in CTE_LENGTH_MIN..CTE_LENGTH_MAX
            BY ONLY <2>5
          <5> QED
            BY ONLY <5>1 DEF CTE_LENGTH_MIN, CTE_LENGTH_MAX
        <4> QED
          BY <4>1, <4>2, <2>5, <1>1 DEF CteOn, CteTypeOK
      <3>3. ModeAsAsked(params)'
        <4>1. Mode(params.cte_type) = "AOD" => SlotOf(params.cte_type) \in {SLOT_1US, SLOT_2US}
          BY <2>5 DEF Mode, SlotOf, CteTypes
        <4> QED
          BY <4>1, <3>2, <2>5, <1>2 DEF ModeAsAsked
      <3>4. params.cte_len # 0
        <4>1. params.cte_len \in CTE_LENGTH_MIN..CTE_LENGTH_MAX
          BY ONLY <2>5
        <4>2. \A len \in CTE_LENGTH_MIN..CTE_LENGTH_MAX : len # 0
          BY ONLY DEF CTE_LENGTH_MIN, CTE_LENGTH_MAX
        <4> QED
          BY ONLY <4>1, <4>2
      <3>5. SetSoFar'
        BY <3>1, <3>3, <3>4, <2>1, <2>2, <2>5, <1>2 DEF SetSoFar
      <3> QED
        BY <3>1, <3>2, <3>5, <2>1, <2>2, <1>1, <1>4 DEF TestStages, Stages, CteTypeOK
    <2> QED
      BY <2>3, <2>4, <2>5, <1>11 DEF SetCte, CteRefused
  <1>12. CASE SetAntenna
    <2>1. /\ UNCHANGED <<switch_pattern, radio_mode>> /\ at = "antenna"
          /\ PhyAsAsked(params) /\ (command.op = "tx" => params.payload \in Payloads)
          /\ params.cte_len # 0 /\ Len(params.pattern) <= MaxPattern /\ ModeAsAsked(params)
      BY <1>1, <1>12 DEF SetAntenna, test, SetSoFar, InCommand, TestStages, Stages
    <2>2. PICK n \in Nat : n = Len(params.pattern)
      BY <1>3
    <2>3. MaxPattern \in Nat /\ n <= MaxPattern /\ \A i \in 1..n : params.pattern[i] \in Antennas
      BY <2>1, <2>2, <1>3, HciAssumption, ElementOfSeq
    <2>4. cur_pattern' = [i \in 0..MaxPattern |->
                             IF i < n THEN params.pattern[i + 1] ELSE cur_pattern[i]]
      BY <2>2, <1>12 DEF SetAntenna
    <2>5. PatternTypeOK'
      <3>1. cur_pattern \in [0..MaxPattern -> Antennas]
        BY <1>1 DEF PatternTypeOK
      <3>2. ASSUME NEW i \in 0..MaxPattern PROVE cur_pattern'[i] \in Antennas
        BY <3>1, <2>3, <2>4
      <3>3. cur_pattern' \in [0..MaxPattern -> Antennas]
        BY <3>2, <2>4
      <3> QED
        BY <3>3, <2>1, <1>1 DEF PatternTypeOK
    <2>6. params.pattern = [i \in 1..n |-> cur_pattern'[i - 1]]
      <3>1. params.pattern = [i \in 1..n |-> params.pattern[i]]
        BY <2>2, <1>3
      <3>2. ASSUME NEW i \in 1..n PROVE cur_pattern'[i - 1] = params.pattern[i]
        <4>1. i - 1 \in 0..MaxPattern /\ i - 1 < n /\ (i - 1) + 1 = i
          BY <2>3
        <4> QED
          BY <4>1, <2>4
      <3> QED
        BY <3>1, <3>2
    <2>7. CASE /\ params.pattern # <<>>
               /\ cte_info' = [cte_info EXCEPT !.antenna_pattern_len = Len(params.pattern)]
               /\ GoTo(AfterCte(params.cte_len))
      <3>1. /\ at' = (IF command.op = "tx" THEN "power" ELSE "slot") /\ answers' = answers
            /\ command.op \in {"tx", "rx"}
        BY <2>1, <2>7, <1>3 DEF GoTo, AfterCte, TestOps
      <3>2. /\ CteTypeOK' /\ cte_info'.antenna_pattern_len = n /\ cte_info'.mode = cte_info.mode
            /\ cte_info'.time = cte_info.time /\ cte_info'.slot = cte_info.slot
        BY <2>2, <2>3, <2>7, <1>1 DEF CteTypeOK
      <3>3. n # 0
        BY <2>2, <2>7, <1>3, EmptySeq
      <3>4. CteAsAsked(params)'
        <4>1. ModeAsAsked(params)'
          BY <3>2, <2>1, <1>2 DEF ModeAsAsked
        <4> QED
          BY <4>1, <3>2, <3>3, <2>1, <2>6, <1>2 DEF CteAsAsked
      <3>5. PhyAsAsked(params)'
        BY <2>1, <1>7
      <3>6. SetSoFar'
        BY <3>1, <3>4, <3>5, <2>1, <1>2 DEF SetSoFar
      <3> QED
        BY <3>1, <3>2, <3>6, <2>1, <2>5, <1>1, <1>4 DEF TestStages, Stages
    <2>8. CASE Answer("HW_FAILURE") /\ UNCHANGED cte_info
      BY <2>1, <2>5, <2>8, <1>1, <1>4 DEF Statuses, CteTypeOK
    <2> QED
      BY <2>7, <2>8, <1>12 DEF SetAntenna
  <1>13. CASE SetSlot
    <2>1. /\ UNCHANGED <<cur_pattern, switch_pattern, radio_mode>> /\ at = "slot"
          /\ PhyAsAsked(params) /\ CteAsAsked(params) /\ command.op = "rx"
      BY <1>1, <1>13 DEF SetSlot, test, SetSoFar, InCommand
    <2>2. CASE /\ cte_info' = [cte_info EXCEPT !.slot = IF params.slot = 0 THEN SLOT_1US
                                                      ELSE SLOT_2US]
               /\ GoTo("receive")
      <3>1. at' = "receive" /\ answers' = answers
        BY <2>2 DEF GoTo
      <3>2. /\ CteTypeOK' /\ cte_info'.slot \in {SLOT_1US, SLOT_2US}
            /\ cte_info'.mode = cte_info.mode /\ cte_info'.time = cte_info.time
            /\ cte_info'.antenna_pattern_len = cte_info.antenna_pattern_len
        BY <2>2, <1>1 DEF CteTypeOK
      <3>3. CteAsAsked(params)' /\ SlotAsAsked(params)'
        BY <3>2, <2>1, <1>2 DEF CteAsAsked, ModeAsAsked, SlotAsAsked
      <3>4. PhyAsAsked(params)'
        BY <2>1, <1>7
      <3>5. SetSoFar'
        BY <3>1, <3>3, <3>4, <2>1, <1>2 DEF SetSoFar
      <3>6. PatternTypeOK'
        BY <2>1, <1>1 DEF PatternTypeOK
      <3> QED
        BY <3>1, <3>2, <3>5, <3>6, <2>1, <1>1, <1>4 DEF TestStages, Stages
    <2>3. CASE Answer("INVALID_PARAM") /\ UNCHANGED cte_info
      BY <2>1, <2>3, <1>1, <1>4, <1>5 DEF Statuses
    <2> QED
      BY <2>2, <2>3, <1>13 DEF SetSlot
  <1>14. CASE SetPower
    <2>1. /\ UNCHANGED <<cte_info, cur_pattern, switch_pattern, radio_mode>> /\ at = "power"
          /\ PhyAsAsked(params) /\ CteAsAsked(params) /\ command.op = "tx"
          /\ params.payload \in Payloads
      BY <1>1, <1>14 DEF SetPower, test, SetSoFar, InCommand, TestStages, Stages
    <2>2. CASE GoTo("halted") \/ (GoTo("transmit") /\ params.chan <= PHYS_CH_MAX)
      <3>1. /\ at' \in {"halted", "transmit"} /\ answers' = answers
            /\ at' = "transmit" => params.chan <= PHYS_CH_MAX
        BY <2>2 DEF GoTo
      <3>2. CteAsAsked(params)' /\ PhyAsAsked(params)'
        BY <2>1, <1>6, <1>7
      <3>3. SetSoFar'
        BY <3>1, <3>2, <2>1, <1>2 DEF SetSoFar
      <3> QED
        BY <3>1, <3>3, <2>1, <1>1, <1>4, <1>5 DEF TestStages, Stages
    <2>3. CASE Answer("UNSUPP_FEATURE_PARAM_VAL")
      BY <2>1, <2>3, <1>1, <1>4, <1>5 DEF Statuses
    <2> QED
      BY <2>2, <2>3, <1>14 DEF SetPower
  <1> QED
    BY <1>8, <1>9, <1>10, <1>11, <1>12, <1>13, <1>14 DEF SetUp

LEMMA InitSettingsInv == Init => SettingsInv
  <1> SUFFICES ASSUME Init PROVE SettingsInv
    OBVIOUS
  <1>1. CteTypeOK
    BY HciAssumption DEF Init, NoCte, CteTypeOK, CTE_LENGTH_MAX
  <1>2. PatternTypeOK
    <2>1. PICK a \in Antennas :
             cur_pattern = [i \in 0..MaxPattern |-> IF i < MaxPattern THEN 0 ELSE a]
      BY DEF Init
    <2>2. cur_pattern \in [0..MaxPattern -> Antennas]
      BY <2>1 DEF Antennas
    <2>3. Len(<<>>) <= SwitchEntries
      BY HciAssumption
    <2> QED
      BY <2>2, <2>3 DEF Init, PatternTypeOK
  <1>3. TestTypeOK /\ radio_mode \in RadioModes
    <2>1. "PRBS9" = DtmPacket[0 + 1] /\ "BLE_1MBIT" = RadioMode[1]
      BY DEF DtmPacket, RadioMode
    <2>2. "PRBS9" \in Packets /\ "BLE_1MBIT" \in RadioModes
      BY <2>1 DEF Packets, RadioModes, Payloads, Phys
    <2> QED
      BY <2>2, HciAssumption DEF Init, TestTypeOK, PHYS_CH_MAX
  <1>4. Typed /\ SetSoFar /\ Running
    BY DEF Init, Typed, SetSoFar, Running, IqReportIsOfTheTest, Stages, TestStages, None
  <1> QED
    BY <1>1, <1>2, <1>3, <1>4 DEF SettingsInv, Init

LEMMA BeginStores == HciInv /\ SettingsInv /\ (\E cmd \in Commands : Begin(cmd)) => SettingsInv'
  <1> SUFFICES ASSUME HciInv, SettingsInv, NEW cmd \in Commands, Begin(cmd) PROVE SettingsInv'
    OBVIOUS
  <1>1. cmd.op \in OtherOps \/ cmd \in TestCommands
    BY CommandsAssumption
  <1>2. UNCHANGED <<radio_mode, cte_info, iq_rep_cb, cur_pattern, phys_ch, packet_type, packet_len,
                    switch_pattern>>
    BY DEF Begin, settings
  <1>3. CteTypeOK' /\ PatternTypeOK' /\ radio_mode' \in RadioModes /\ iq_rep_cb' \in BOOLEAN
    BY <1>2 DEF SettingsInv, CteTypeOK, PatternTypeOK
  <1>4. answers' = <<>> /\ command' = cmd
    BY DEF Begin
  <1>5. CASE cmd.op \in TestOps
    <2>1. cmd \in TestCommands
      BY <1>1, <1>5 DEF TestOps, OtherOps
    <2>2. /\ state' = "IDLE" /\ rx_pkt_count' = 0 /\ asked' = None /\ iq' = None
          /\ at' = IF cmd.op = "rx" THEN "phy" ELSE "payload"
      BY <1>5 DEF Begin, Prepared, NoTest
    <2>3. TestTypeOK'
      BY <2>2, <1>2, HciAssumption DEF SettingsInv, TestTypeOK
    <2>4. Typed' /\ Running'
      BY <2>1, <2>2, <1>4 DEF Typed, Running, IqReportIsOfTheTest
    <2>5. SetSoFar'
      BY <2>2, <1>4, <1>5 DEF SetSoFar, TestStages, TestOps
    <2> QED
      BY <2>3, <2>4, <2>5, <1>3, <1>4 DEF SettingsInv
  <1>6. CASE cmd.op \notin TestOps
    <2>1. at' = cmd.op /\ UNCHANGED <<state, rx_pkt_count, history>> /\ cmd.op \in OtherOps
      BY <1>1, <1>6 DEF Begin, TestCommands
    <2>2. at' \notin TestStages
      BY <2>1 DEF OtherOps, TestStages, Stages
    <2>3. TestTypeOK'
      BY <2>1, <1>2 DEF SettingsInv, TestTypeOK
    <2>4. Typed'
      BY <2>1, <2>2 DEF SettingsInv, Typed, history
    <2>5. SetSoFar'
      BY <2>1, <2>2 DEF SetSoFar, TestStages, Stages, OtherOps
    <2>6. Running'
      BY <2>1, <1>2 DEF SettingsInv, Running, IqReportIsOfTheTest, PhyAsAsked, CteAsAsked,
                        ModeAsAsked, SlotAsAsked, history
    <2> QED
      BY <2>3, <2>4, <2>5, <2>6, <1>3, <1>4 DEF SettingsInv
  <1> QED
    BY <1>5, <1>6

LEMMA StartStores == HciInv /\ SettingsInv /\ (TestReceive \/ TestTransmit) => SettingsInv'
  <1> SUFFICES ASSUME HciInv, SettingsInv, TestReceive \/ TestTransmit PROVE SettingsInv'
    OBVIOUS
  <1>1. at \in TestStages /\ command' = command /\ UNCHANGED settings
    BY DEF TestReceive, TestTransmit, Started, TestStages, Stages
  <1>2. /\ UNCHANGED <<radio_mode, cte_info, iq_rep_cb, cur_pattern>>
        /\ answers = <<>> /\ asked = None /\ iq = None /\ command \in TestCommands
    BY <1>1 DEF settings, HciInv, Unanswered, SettingUp, SettingsInv, Running, Typed,
                IqReportIsOfTheTest, TestStages
  <1>3. /\ CteTypeOK /\ PatternTypeOK /\ TestTypeOK /\ radio_mode \in RadioModes
        /\ iq_rep_cb \in BOOLEAN /\ SetSoFar
    BY DEF SettingsInv
  <1>4. /\ params = Given(command) /\ params.chan = command.chan /\ params.chan \in Octets
        /\ params.len \in 0..255
    BY <1>2, GivenFields DEF params, Octets
  <1>5. PhyAsAsked(params) /\ CteAsAsked(params)
    BY <1>3 DEF SetSoFar, TestReceive, TestTransmit
  <1>6. CASE TestReceive /\ Answer("INVALID_PARAM") /\ UNCHANGED <<test, command, history>>
    <2>1. CteTypeOK' /\ PatternTypeOK' /\ TestTypeOK'
      BY <1>2, <1>3, <1>6 DEF CteTypeOK, PatternTypeOK, TestTypeOK, test
    <2> QED
      BY <2>1, <1>1, <1>2, <1>3, <1>6, SetUpStores DEF Statuses
  <1>7. ASSUME params.chan <= PHYS_CH_MAX, phys_ch' = params.chan, rx_pkt_count' = 0,
               Started, Answer("SUCCESS"), NEW rx \in BOOLEAN, RadioCtePrepare(rx),
               state' = IF command.op = "rx" THEN "RECEIVER_TEST" ELSE "TRANSMITTER_TEST",
               packet_type' \in Packets, packet_len' \in 0..255,
               command.op = "tx" =>
                  packet_type' = DtmPacket[params.payload + 1] /\ packet_len' = params.len,
               command.op = "rx" => SlotAsAsked(params)
        PROVE  SettingsInv'
    <2>1. CteTypeOK' /\ PatternTypeOK'
      BY <1>2, <1>3, <1>7, SwitchPatternTyped DEF CteTypeOK, PatternTypeOK
    <2>2. TestTypeOK'
      <3>1. phys_ch' \in 0..PHYS_CH_MAX
        <4>1. phys_ch' \in 0..255 /\ phys_ch' <= 39
          BY <1>4, <1>7 DEF Octets, PHYS_CH_MAX
        <4> QED
          BY ONLY <4>1 DEF PHYS_CH_MAX
      <3>2. rx_pkt_count' \in 0..(CountMod - 1)
        BY <1>7, HciAssumption
      <3>3. state' \in {"IDLE", "RECEIVER_TEST", "TRANSMITTER_TEST"}
        BY <1>7
      <3> QED
        BY <3>1, <3>2, <3>3, <1>7 DEF TestTypeOK
    <2>3. /\ asked' = command /\ iq' = None /\ at' = "idle"
          /\ answers' = <<Event(command, "SUCCESS", 0)>>
      BY <1>2, <1>7 DEF Started, Answer
    <2>4. Typed' /\ SetSoFar'
      BY <2>3, <1>2 DEF Typed, SetSoFar, TestStages, Stages
    <2>5. PhyAsAsked(params)' /\ CteAsAsked(params)' /\ (command.op = "rx" => SlotAsAsked(params)')
      BY <1>1, <1>2, <1>5, <1>7 DEF PhyAsAsked, CteAsAsked, ModeAsAsked, SlotAsAsked, params
    <2>6. Given(asked') = params /\ params' = params
      BY <2>3, <1>1 DEF params
    <2>7. Running'
      BY <2>3, <2>5, <2>6, <1>7 DEF Running, IqReportIsOfTheTest
    <2>8. \A i \in 1..Len(answers') : answers'[i].status \in Statuses
      BY <2>3 DEF Event, Statuses
    <2> QED
      BY <2>1, <2>2, <2>4, <2>7, <2>8, <1>2, <1>3 DEF SettingsInv
  <1>8. CASE TestReceive /\ ~(Answer("INVALID_PARAM") /\ UNCHANGED <<test, command, history>>)
    <2>1. command.op = "rx" /\ SlotAsAsked(params)
      BY <1>3, <1>8 DEF SetSoFar, TestReceive
    <2>2. /\ params.chan <= PHYS_CH_MAX /\ phys_ch' = params.chan /\ rx_pkt_count' = 0
          /\ state' = "RECEIVER_TEST" /\ RadioCtePrepare(TRUE)
          /\ Started /\ Answer("SUCCESS") /\ UNCHANGED <<packet_type, packet_len>>
      BY <1>8 DEF TestReceive
    <2> QED
      BY <2>1, <2>2, <1>3, <1>7 DEF TestTypeOK
  <1>9. CASE TestTransmit
    <2>1. command.op = "tx" /\ params.payload \in Payloads /\ params.chan <= PHYS_CH_MAX
      BY <1>1, <1>3, <1>9 DEF SetSoFar, TestTransmit
    <2>2. DtmPacket[params.payload + 1] \in Packets
      BY <2>1 DEF Packets
    <2>3. /\ phys_ch' = params.chan /\ rx_pkt_count' = 0 /\ state' = "TRANSMITTER_TEST"
          /\ packet_type' = DtmPacket[params.payload + 1] /\ packet_len' = params.len
          /\ RadioCtePrepare(FALSE) /\ Started /\ Answer("SUCCESS")
      BY <1>9 DEF TestTransmit
    <2> QED
      BY <2>1, <2>2, <2>3, <1>4, <1>7
  <1> QED
    BY <1>6, <1>8, <1>9

LEMMA OtherStores ==
    HciInv /\ SettingsInv /\ (TestEnd \/ Reset \/ Inform \/ Unknown) => SettingsInv'
  <1> SUFFICES ASSUME HciInv, SettingsInv, TestEnd \/ Reset \/ Inform \/ Unknown
               PROVE  SettingsInv'
    OBVIOUS
  <1>1. answers = <<>> /\ RadioInitOk
    BY RadioInitSucceeds
    DEF HciInv, Unanswered, OtherOps, TestEnd, Reset, Inform, Unknown, InCommand
  <1>2. /\ CteTypeOK /\ PatternTypeOK /\ TestTypeOK /\ radio_mode \in RadioModes
        /\ iq_rep_cb \in BOOLEAN /\ Running /\ Typed
    BY DEF SettingsInv
  <1>3. at' = "idle" /\ \E status \in Statuses : \E n : answers' = <<Event(command, status, n)>>
    <2>1. CASE TestEnd
      BY <2>1, <1>1 DEF TestEnd, Statuses
    <2>2. CASE Reset \/ Inform \/ Unknown
      BY <2>2, <1>1 DEF Reset, Inform, Unknown, Answer, Statuses
    <2> QED
      BY <2>1, <2>2
  <1>4. \A i \in 1..Len(answers') : answers'[i].status \in Statuses
    BY <1>3 DEF Event
  <1>5. SetSoFar'
    BY <1>3 DEF SetSoFar, TestStages
  <1>6. ASSUME asked' = None, iq' = None PROVE Running' /\ Typed'
    BY <1>3, <1>6 DEF Running, IqReportIsOfTheTest, Typed, TestStages
  <1>7. CASE TestEnd
    <2>1. /\ asked' = None /\ iq' = None /\ state' = "IDLE" /\ rx_pkt_count' = 0
          /\ UNCHANGED <<radio_mode, cte_info, iq_rep_cb, cur_pattern, phys_ch, packet_type,
                         packet_len, switch_pattern>>
      BY <1>7 DEF TestEnd, NoTest, settings
    <2>2. CteTypeOK' /\ PatternTypeOK' /\ TestTypeOK'
      BY <2>1, <1>2, HciAssumption DEF CteTypeOK, PatternTypeOK, TestTypeOK
    <2> QED
      BY <2>1, <2>2, <1>2, <1>4, <1>5, <1>6 DEF SettingsInv
  <1>8. CASE Reset
    <2>1. /\ asked' = None /\ iq' = None /\ rx_pkt_count' = 0 /\ radio_mode' = "BLE_1MBIT"
          /\ packet_len' = 0 /\ cte_info' = NoCte /\ iq_rep_cb' = FALSE
          /\ UNCHANGED <<state, phys_ch, packet_type, switch_pattern, cur_pattern>>
      BY <1>1, <1>8 DEF Reset, NoTest
    <2>2. CteTypeOK'
      BY <2>1, HciAssumption DEF CteTypeOK, NoCte, CTE_LENGTH_MAX
    <2>3. PatternTypeOK' /\ TestTypeOK'
      BY <2>1, <1>2, HciAssumption DEF PatternTypeOK, TestTypeOK
    <2>4. radio_mode' \in RadioModes
      BY <2>1 DEF RadioModes, RadioMode, Phys
    <2> QED
      BY <2>1, <2>2, <2>3, <2>4, <1>4, <1>5, <1>6 DEF SettingsInv
  <1>9. CASE Inform \/ Unknown
    <2>1. UNCHANGED <<settings, test, command, history>>
      BY <1>9 DEF Inform, Unknown, InCommand
    <2>2. CteTypeOK' /\ PatternTypeOK' /\ TestTypeOK' /\ radio_mode' \in RadioModes
          /\ iq_rep_cb' \in BOOLEAN
      BY <2>1, <1>2 DEF CteTypeOK, PatternTypeOK, TestTypeOK, settings, test
    <2>3. Running'
      BY <2>1, <1>2 DEF Running, IqReportIsOfTheTest, PhyAsAsked, CteAsAsked, ModeAsAsked,
                        SlotAsAsked, history, settings, test
    <2>4. Typed'
      BY <2>1, <1>2, <1>3 DEF Typed, TestStages, history
    <2> QED
      BY <2>2, <2>3, <2>4, <1>4, <1>5 DEF SettingsInv
  <1> QED
    BY <1>7, <1>8, <1>9

LEMMA RadioStores == HciInv /\ SettingsInv /\ OnRadioEnd => SettingsInv'
  <1> SUFFICES ASSUME HciInv, SettingsInv, OnRadioEnd PROVE SettingsInv'
    OBVIOUS
  <1>1. /\ state = "RECEIVER_TEST" /\ asked # None /\ asked \in TestCommands
        /\ CteTypeOK /\ PatternTypeOK /\ TestTypeOK /\ Running
    BY DEF OnRadioEnd, SettingsInv, Typed
  <1>2. UNCHANGED <<radio_mode, cte_info, iq_rep_cb, cur_pattern, state, phys_ch, packet_type,
                    packet_len, switch_pattern, at, command, answers, asked>>
    BY DEF OnRadioEnd, settings
  <1>3. /\ asked.op = "rx" /\ phys_ch = asked.chan /\ CteAsAsked(Given(asked))
    BY <1>1, GivenFields DEF Running, TestOps
  <1>4. TestTypeOK'
    BY <1>1, <1>2, HciAssumption DEF OnRadioEnd, PacketCounted, PacketRefused, TestTypeOK
  <1>5. IqReportIsOfTheTest'
    <2>1. CASE UNCHANGED iq
      BY <2>1, <1>1, <1>2 DEF Running, IqReportIsOfTheTest
    <2>2. CASE ReportIq
      <3>1. /\ cte_info.mode # "OFF" /\ iq'.channel = phys_ch /\ iq'.type = IqType
        BY <2>2 DEF ReportIq
      <3>2. /\ cte_info.mode = Mode(Given(asked).cte_type)
            /\ cte_info.mode = "AOD" => cte_info.slot \in {SLOT_1US, SLOT_2US}
        BY <3>1, <1>3 DEF CteAsAsked, ModeAsAsked
      <3>3. Mode(IqType) = cte_info.mode
        BY <3>1, <3>2, <1>1 DEF IqType, Mode, CteTypeOK, SLOT_1US, SLOT_2US
      <3> QED
        BY <3>1, <3>2, <3>3, <1>1, <1>2, <1>3 DEF IqReportIsOfTheTest
    <2> QED
      BY <2>1, <2>2 DEF OnRadioEnd
  <1>6. CteTypeOK' /\ PatternTypeOK' /\ Running'
    BY <1>1, <1>2, <1>5 DEF CteTypeOK, PatternTypeOK, Running, PhyAsAsked, CteAsAsked,
                            ModeAsAsked, SlotAsAsked
  <1>7. Typed'
    BY <1>2 DEF SettingsInv, Typed
  <1>8. SetSoFar'
    <2>1. at \notin TestStages
      BY <1>1 DEF HciInv, SettingUp
    <2> QED
      BY <2>1, <1>2 DEF SetSoFar, TestStages, Stages
  <1> QED
    BY <1>2, <1>4, <1>6, <1>7, <1>8 DEF SettingsInv

LEMMA StepSettingsInv == HciInv /\ SettingsInv /\ [Next]_vars => SettingsInv'
  <1> SUFFICES ASSUME HciInv, SettingsInv, [Next]_vars PROVE SettingsInv'
    OBVIOUS
  <1>1. CASE UNCHANGED vars
    <2>1. UNCHANGED <<settings, test, at, command, answers, history, params>>
      BY <1>1 DEF vars, params
    <2>2. CteTypeOK' /\ PatternTypeOK' /\ TestTypeOK' /\ Typed'
      BY <2>1 DEF SettingsInv, CteTypeOK, PatternTypeOK, TestTypeOK, Typed, settings, test, history
    <2>3. SetSoFar' /\ Running'
      BY <2>1 DEF SettingsInv, SetSoFar, Running, IqReportIsOfTheTest, PhyAsAsked, CteAsAsked,
                  ModeAsAsked, SlotAsAsked, settings, test, history
    <2> QED
      BY <2>1, <2>2, <2>3 DEF SettingsInv, settings
  <1> QED
    BY <1>1, BeginStores, SetUpStepsStore, StartStores, OtherStores, RadioStores DEF Next, SetUp

LEMMA SettingsInvHolds == Spec => [](HciInv /\ SettingsInv)
  BY InitHciInv, InitSettingsInv, StepHciInv, StepSettingsInv, PTL DEF Spec

-----------------------------------------------------------------------------
\* AnsweredOnce (DtmHci.tla): hci_cmd answers every command once, for every
\* power table; hci_reset's second Command Complete is dead code.
THEOREM OneAnswer == Spec => []AnsweredOnce
  <1>1. HciInv => AnsweredOnce
    BY DEF HciInv, Done, HasAnswer, AnsweredOnce
  <1> QED
    BY <1>1, HciInvHolds, PTL

\* StatusIsTrue (DtmHci.tla): a test command's status says whether its test runs.
THEOREM StatusesAreTrue == Spec => []StatusIsTrue
  <1>1. HciInv => StatusIsTrue
    BY DEF HciInv, Done, HasAnswer, StatusIsTrue, TestOps, None
  <1> QED
    BY <1>1, HciInvHolds, PTL

\* NearestPower (DtmHci.tla): dtm_setup_set_transmit_power and the search of
\* dtm_radio_nearest_power_get, for every ascending table with 0 dBm.
THEOREM PowerIsNearest == Spec => []NearestPower
  <1>1. HciInv => NearestPower
    BY DEF HciInv, IsNearest, NearestPower, Table
  <1> QED
    BY <1>1, HciInvHolds, PTL

\* CountIsOfTheTest (DtmHci.tla): hci_test_end reports the packets of the test
\* it ends, modulo the width of the counter.
THEOREM CountsAreOfTheTest == Spec => CountIsOfTheTest
  <1>1. HciInv /\ [Next]_vars
          => [at = "end" /\ at' = "idle" => answers'[1].count = heard % CountMod]_vars
    <2> SUFFICES ASSUME HciInv, Next, at = "end", at' = "idle"
                 PROVE  answers'[1].count = heard % CountMod
      OBVIOUS
    <2>1. TestEnd
      BY DEF Next, Begin, InCommand, SetPayload, SetPhy, SetModulation, SetCte, SetAntenna,
             SetSlot, SetPower, TestReceive, TestTransmit, Reset, Inform, Unknown, OnRadioEnd
    <2>2. answers = <<>>
      BY DEF HciInv, Unanswered
    <2>3. answers' = <<Event(command, "SUCCESS", CountRead)>>
      BY <2>1, <2>2 DEF TestEnd
    <2> QED
      BY <2>3, CountedIsMod DEF Event, CountRead, HciInv
  <1> QED
    BY <1>1, HciInvHolds, PTL DEF Spec, CountIsOfTheTest

\* TypeOK (DtmHci.tla): every value a command can leave in the settings, the
\* pattern and its unwritten octet, the radio's switch pattern, the events.
THEOREM TypeCorrect == Spec => []TypeOK
  <1>1. HciInv /\ SettingsInv => TypeOK
    BY RadioInitSucceeds
    DEF HciInv, Unanswered, SettingsInv, CteTypeOK, PatternTypeOK, TestTypeOK, TypeOK
  <1> QED
    BY <1>1, SettingsInvHolds, PTL

\* RunsAsAsked (DtmHci.tla): a test that runs has all its command asked for,
\* after any commands that were accepted or refused half-way.
THEOREM TestsRunAsAsked == Spec => []RunsAsAsked
  <1>1. SettingsInv => RunsAsAsked
    <2> SUFFICES ASSUME SettingsInv, asked # None PROVE RunsAsAsked
      BY DEF RunsAsAsked
    <2>1. Running
      BY DEF SettingsInv
    <2> QED
      BY <2>1 DEF Running, RunsAsAsked, PhyAsAsked, CteAsAsked, ModeAsAsked
  <1> QED
    BY <1>1, SettingsInvHolds, PTL

\* CteIsComplete (DtmHci.tla): the assertions of report_iq and the radio's
\* switch pattern find a slot and a pattern.
THEOREM CtesAreComplete == Spec => []CteIsComplete
  <1>1. SettingsInv => CteIsComplete
    <2> SUFFICES ASSUME SettingsInv, asked # None, cte_info.mode # "OFF" PROVE CteIsComplete
      BY DEF CteIsComplete
    <2>1. Running
      BY DEF SettingsInv
    <2>2. Given(asked).cte_len # 0
      BY <2>1 DEF Running, CteAsAsked
    <2> QED
      BY <2>1, <2>2 DEF Running, CteAsAsked, ModeAsAsked, SlotAsAsked, CteIsComplete
  <1> QED
    BY <1>1, SettingsInvHolds, PTL

\* IqReportIsOfTheTest (DtmHci.tla): an IQ report has the channel and the kind of
\* CTE of the receiver test that runs.
THEOREM IqReportsAreOfTheTest == Spec => []IqReportIsOfTheTest
  <1>1. SettingsInv => IqReportIsOfTheTest
    BY DEF SettingsInv, Running
  <1> QED
    BY <1>1, SettingsInvHolds, PTL
=============================================================================
