---------------------------- MODULE DtmTestProofs ----------------------------
(***************************************************************************)
(* Theorems about Dtm for a transport that prepares first: it never sets   *)
(* up or starts while a test runs.  For every build, counter width and, if *)
(* not said otherwise, interrupt latency.                                  *)
(***************************************************************************)
EXTENDS DtmProofs, SequenceTheorems

Prepared == \A cmd \in Commands : PreparesFirst(cmd)

-----------------------------------------------------------------------------
(***************************************************************************)
(* The order of calls: a setup or a start finds the library idle.          *)
(***************************************************************************)
RxSteps == {"rx_setup", "rx_prepare", "rx_start", "rx_state"}
TxSteps == {"tx_check", "tx_prepare", "tx_power", "tx_ppi", "tx_start", "tx_state",
            "carrier_start", "carrier_state"}
SetupSteps == {"setup_reset", "setup_phy", "errata_off", "errata_timer", "errata_flag", "errata_on"}
DoneSteps == {"end_read", "done_timer", "done_ppi", "done_anomaly"}

\* What is left of a command once its first call is made.
InOrder(calls) ==
    \A i \in 1..Len(calls) :
       calls[i].fn \in SetupCalls \cup (IF i = Len(calls) THEN StartCalls ELSE {})

ScriptInv ==
    /\ InOrder(script)
    /\ call.fn \in StartCalls => script = <<>>

\* Which call runs a step.
StepInv ==
    /\ pc \in RxSteps => call.fn = "dtm_test_receive"
    /\ pc \in TxSteps => call.fn = "dtm_test_transmit"
    /\ pc \in SetupSteps => call.fn \in SetupCalls
    /\ pc \in DoneSteps => call.fn \in StopCalls
    /\ pc \in ResetSteps => call.fn \in StopCalls \cup SetupCalls \cup {"dtm_init"}
    /\ pc = "done_state" => call.fn \in StopCalls \cup {"dtm_init"}

IdleInv ==
    /\ pc # "idle" /\ call.fn \in SetupCalls \cup StartCalls => state = "IDLE"
    /\ pc = "idle" /\ script # <<>> => state = "IDLE"
    /\ state = "UNINITIALIZED" => call.fn = "dtm_init" /\ pc \in ResetSteps \cup {"done_state"}

OrderInv == ScriptInv /\ StepInv /\ IdleInv

LEMMA RestInOrder ==
    ASSUME NEW calls \in Seq(Calls), calls # <<>>,
           \A i \in 2..Len(calls) :
              calls[i].fn \in SetupCalls \cup (IF i = Len(calls) THEN StartCalls ELSE {})
    PROVE  /\ Head(calls) = calls[1] /\ Head(calls) \in Calls
           /\ Tail(calls) \in Seq(Calls) /\ InOrder(Tail(calls))
           /\ Len(calls) = 1 => Tail(calls) = <<>>
<1>1. /\ Len(calls) \in Nat \ {0} /\ Head(calls) = calls[1] /\ Head(calls) \in Calls
      /\ Tail(calls) \in Seq(Calls) /\ Len(Tail(calls)) = Len(calls) - 1
      /\ \A i \in 1..(Len(calls) - 1) : Tail(calls)[i] = calls[i + 1]
  BY EmptySeq, HeadTailProperties
<1>2. PICK n \in Nat : n = Len(calls)
  BY <1>1
<1>3. ASSUME NEW i \in 1..Len(Tail(calls))
      PROVE  Tail(calls)[i].fn \in
                 SetupCalls \cup (IF i = Len(Tail(calls)) THEN StartCalls ELSE {})
  <2>1. PICK j \in 2..n : j = i + 1 /\ i \in 1..(n - 1)
    BY ONLY <1>1, <1>2, <1>3
  <2>2. i = Len(Tail(calls)) <=> j = n
    BY ONLY <1>1, <1>2, <2>1
  <2>3. Tail(calls)[i] = calls[j]
    BY <1>1, <1>2, <2>1
  <2> QED
    BY <1>2, <2>2, <2>3
<1>4. ASSUME Len(calls) = 1 PROVE Tail(calls) = <<>>
  <2>1. Len(Tail(calls)) = 0
    BY ONLY <1>1, <1>4
  <2>2. Tail(calls) # <<>> => Len(Tail(calls)) # 0
    BY <1>1, EmptySeq
  <2> QED
    BY <2>1, <2>2
<1> QED
  BY <1>1, <1>3, <1>4 DEF InOrder

\* The first call of a command ends the test; a later one sets up or starts,
\* and a start is the last.
LEMMA InvokeInOrder ==
    ASSUME Prepared, TypeOK, OrderInv, NewCommand \/ NextCall
    PROVE  /\ pc = "idle" /\ pc' = Entry(call'.fn) /\ UNCHANGED <<state, radio_mode>>
           /\ call'.fn \in StopCalls \/ (call'.fn \in SetupCalls \cup StartCalls /\ state = "IDLE")
           /\ ScriptInv'
<1>1. CASE NewCommand
  <2>1. PICK cmd \in Commands : Invoke(cmd)
    BY <1>1 DEF NewCommand
  <2>2. PreparesFirst(cmd) /\ cmd \in Seq(Calls) /\ cmd # <<>>
    BY <2>1, ClientAssumption DEF Prepared
  <2>3. Head(cmd) = cmd[1] /\ InOrder(Tail(cmd))
    BY <2>2, RestInOrder DEF PreparesFirst
  <2>4. call' = cmd[1] /\ script' = Tail(cmd) /\ call'.fn \in StopCalls
    BY <2>1, <2>2, <2>3 DEF Invoke, PreparesFirst
  <2> QED
    BY <2>1, <2>3, <2>4 DEF Invoke, At, dtmVars, ScriptInv, StopCalls, StartCalls
<1>2. CASE NextCall
  <2>1. Invoke(script) /\ script # <<>> /\ script \in Seq(Calls) /\ InOrder(script)
    BY <1>2 DEF NextCall, TypeOK, OrderInv, ScriptInv
  <2>2. Len(script) \in Nat \ {0}
    BY <2>1, EmptySeq, LenProperties
  <2>3. \A i \in 2..Len(script) :
           script[i].fn \in SetupCalls \cup (IF i = Len(script) THEN StartCalls ELSE {})
    BY <2>1, <2>2 DEF InOrder
  <2>4. /\ Head(script) = script[1] /\ InOrder(Tail(script))
        /\ Len(script) = 1 => Tail(script) = <<>>
    BY <2>1, <2>3, RestInOrder
  <2>5. /\ script[1].fn \in SetupCalls \cup StartCalls
        /\ script[1].fn \in StartCalls => Len(script) = 1
    <3>1. 1 \in 1..Len(script)
      BY ONLY <2>2
    <3>2. script[1].fn \in SetupCalls \cup (IF 1 = Len(script) THEN StartCalls ELSE {})
      BY <2>1, <3>1 DEF InOrder
    <3> QED
      BY ONLY <3>2 DEF SetupCalls, StartCalls
  <2>6. call' = script[1] /\ script' = Tail(script)
    BY <2>1, <2>4 DEF Invoke
  <2>7. ScriptInv' /\ call'.fn \in SetupCalls \cup StartCalls
    BY <2>4, <2>5, <2>6 DEF ScriptInv
  <2> QED
    BY <2>1, <2>7, <2>6, <2>4 DEF Invoke, At, dtmVars, OrderInv, IdleInv
<1> QED
  BY <1>1, <1>2

LEMMA InvokeOrder ==
    ASSUME Prepared, TypeOK, OrderInv, NewCommand \/ NextCall PROVE OrderInv'
<1>1. /\ pc = "idle" /\ pc' = Entry(call'.fn) /\ UNCHANGED state
      /\ call'.fn \in StopCalls \/ (call'.fn \in SetupCalls \cup StartCalls /\ state = "IDLE")
      /\ ScriptInv'
  BY InvokeInOrder
<1>2. StepInv' /\ pc' # "idle"
  BY <1>1 DEF StepInv, Entry, StopCalls, SetupCalls, StartCalls, RxSteps, TxSteps, SetupSteps,
              DoneSteps, ResetSteps
<1>3. IdleInv'
  BY <1>1, <1>2 DEF OrderInv, IdleInv, ResetSteps, StopCalls, SetupCalls, StartCalls
<1> QED
  BY <1>1, <1>2, <1>3 DEF OrderInv

\* A call that returns gives its script up or leaves it.
LEMMA ScriptStep ==
    ASSUME ScriptInv, UNCHANGED call, script' \in {script, <<>>}
    PROVE  ScriptInv'
<1>1. InOrder(<<>>)
  BY DEF InOrder
<1> QED
  BY <1>1 DEF ScriptInv

\* The other steps of the thread.
LEMMA ThreadOrder ==
    ASSUME TypeOK, OrderInv,
           Receive \/ Transmit \/ Carrier \/ Done \/ Reset \/ Setup
    PROVE  OrderInv'
<1> USE DEF OrderInv, hwVars, dtmVars, threadVars
<1>1. UNCHANGED call /\ script' \in {script, <<>>}
  BY DEF Receive, RxSetup, RxPrepare, Prepare, RxStart, RxState,
         Transmit, TxBusy, TxBadChannel, TxCheck, TxPrepare, TxPower, TxGainRefused, TxPpi,
         TxStart, TxState, Carrier, CarrierGainRefused, CarrierStart, CarrierState,
         Done, EndRead, DoneTimer, DonePpi, DoneAnomaly, DoneState,
         Reset, ResetDisable, ResetWait, ResetIrqOff,
         Setup, SetupReset, SetupPhy, ErrataOn, ErrataOff, ErrataTimer, ErrataFlag, Goto, Return
<1>2. ScriptInv'
  BY <1>1, ScriptStep
<1>3. CASE Receive
  <2>1. /\ pc \in RxSteps /\ pc' \in RxSteps \cup {"idle"}
        /\ state' = state \/ (state' = "RECEIVER_TEST" /\ pc' = "idle")
        /\ UNCHANGED <<call>> /\ script' \in {script, <<>>}
    BY <1>1, <1>3 DEF Receive, RxSetup, RxPrepare, Prepare, RxStart, RxState, Goto, Return, At,
                      RxSteps
  <2>2. call.fn = "dtm_test_receive" /\ state = "IDLE" /\ script = <<>>
    BY <2>1 DEF StepInv, IdleInv, ScriptInv, RxSteps, StartCalls
  <2>3. StepInv'
    BY <2>1, <2>2
    DEF StepInv, RxSteps, TxSteps, SetupSteps, DoneSteps, ResetSteps
  <2>4. IdleInv'
    BY <2>1, <2>2 DEF IdleInv
  <2> QED
    BY <1>2, <2>3, <2>4
<1>4. CASE Transmit \/ Carrier
  <2>1. /\ pc \in TxSteps /\ pc' \in TxSteps \cup {"idle"}
        /\ state' = state \/ (state' \in {"TRANSMITTER_TEST", "CARRIER_TEST"} /\ pc' = "idle")
        /\ UNCHANGED <<call>> /\ script' \in {script, <<>>}
    BY <1>1, <1>4
    DEF Transmit, TxBusy, TxBadChannel, TxCheck, TxPrepare, Prepare, TxPower, TxGainRefused,
        TxPpi, TxStart, TxState, Carrier, CarrierGainRefused, CarrierStart, CarrierState,
        Goto, Return, At, TxSteps
  <2>2. call.fn = "dtm_test_transmit" /\ state = "IDLE" /\ script = <<>>
    BY <2>1 DEF StepInv, IdleInv, ScriptInv, TxSteps, StartCalls
  <2>3. StepInv'
    BY <2>1, <2>2
    DEF StepInv, RxSteps, TxSteps, SetupSteps, DoneSteps, ResetSteps
  <2>4. IdleInv'
    BY <2>1, <2>2 DEF IdleInv
  <2> QED
    BY <1>2, <2>3, <2>4
<1>5. CASE Done
  <2>1. /\ pc \in DoneSteps \cup {"done_state"}
        /\ \/ pc \in DoneSteps /\ pc' \in DoneSteps \cup {"reset_disable"} /\ state' = state
           \/ pc = "done_state" /\ pc' = "idle" /\ state' = "IDLE"
    BY <1>5 DEF Done, EndRead, DoneTimer, DonePpi, DoneAnomaly, DoneState, Goto, Return, At,
                DoneSteps
  <2>2. call.fn \in StopCalls \cup {"dtm_init"} /\ (pc \in DoneSteps => call.fn \in StopCalls)
    BY <2>1 DEF StepInv
  <2>3. StepInv'
    BY <1>1, <2>1, <2>2
    DEF StepInv, RxSteps, TxSteps, SetupSteps, DoneSteps, ResetSteps
  <2>4. IdleInv'
    BY <1>1, <2>1, <2>2 DEF IdleInv, StopCalls, SetupCalls, StartCalls, DoneSteps, ResetSteps
  <2> QED
    BY <1>2, <2>3, <2>4
<1>6. CASE Reset
  <2>1. /\ pc \in ResetSteps /\ state' = state
        /\ \/ pc' \in ResetSteps
           \/ pc' = "idle" /\ call.fn \in SetupCalls
           \/ pc' = "done_state" /\ call.fn \notin SetupCalls
    BY <1>6 DEF Reset, ResetDisable, ResetWait, ResetIrqOff, Goto, Return, At, ResetSteps,
                SetupCalls
  <2>2. call.fn \in StopCalls \cup SetupCalls \cup {"dtm_init"}
    BY <2>1 DEF StepInv
  <2>3. StepInv'
    BY <1>1, <2>1, <2>2
    DEF StepInv, RxSteps, TxSteps, SetupSteps, DoneSteps, ResetSteps
  <2>4. IdleInv'
    BY <1>1, <2>1, <2>2 DEF IdleInv, StopCalls, SetupCalls, StartCalls, ResetSteps
  <2> QED
    BY <1>2, <2>3, <2>4
<1>7. CASE Setup
  <2>1. /\ pc \in SetupSteps /\ pc' \in SetupSteps \cup {"reset_disable"} /\ state' = state
    BY <1>7
    DEF Setup, SetupReset, SetupPhy, ErrataOn, ErrataOff, ErrataTimer, ErrataFlag, Goto, At,
        SetupSteps
  <2>2. call.fn \in SetupCalls /\ state = "IDLE"
    BY <2>1 DEF StepInv, IdleInv, SetupSteps
  <2>3. StepInv'
    BY <1>1, <2>1, <2>2
    DEF StepInv, RxSteps, TxSteps, SetupSteps, DoneSteps, ResetSteps
  <2>4. IdleInv'
    BY <1>1, <2>1, <2>2 DEF IdleInv, SetupSteps
  <2> QED
    BY <1>2, <2>3, <2>4
<1> QED
  BY <1>3, <1>4, <1>5, <1>6, <1>7

\* Nothing but the thread moves the thread, or the state.
LEMMA OthersLeaveThread ==
    ASSUME RadioHandler \/ AnomalyTimer \/ Peripherals \/ Heard \/ UNCHANGED vars
    PROVE  UNCHANGED <<pc, call, script, ret, pack_cnt, state, radio_mode, ppi>>
BY DEF RadioHandler, HandlerNoEnd, HandlerEnd, HandlerCheck, HandlerClear, HandlerReady,
         AnomalyTimer, AnomalyTimerExpires, AnomalyTimerHandler,
       Peripherals, Alone, HwQuiet, HwReady, HwAddress, HwTxEnd, HwDisabled, HwCompare0,
       HwCompare1, Heard, PacketEnds, HwRxEnd, vars, threadVars, dtmVars, hwVars, loopVars

LEMMA InitOrder == Init => OrderInv
<1> SUFFICES ASSUME Init PROVE OrderInv
  OBVIOUS
<1>1. InOrder(<<>>)
  BY DEF InOrder
<1>2. ScriptInv /\ StepInv /\ IdleInv
  BY <1>1 DEF Init, ScriptInv, StepInv, IdleInv, RxSteps, TxSteps, SetupSteps, DoneSteps,
              ResetSteps, SetupCalls, StartCalls
<1> QED
  BY <1>2 DEF OrderInv

LEMMA NextOrder == Prepared /\ TypeOK /\ OrderInv /\ [Next]_vars => OrderInv'
<1> SUFFICES ASSUME Prepared, TypeOK, OrderInv, [Next]_vars PROVE OrderInv'
  OBVIOUS
<1>1. CASE RadioHandler \/ AnomalyTimer \/ Peripherals \/ Heard \/ UNCHANGED vars
  BY <1>1, OthersLeaveThread DEF OrderInv, ScriptInv, InOrder, StepInv, IdleInv
<1> QED
  BY <1>1, InvokeOrder, ThreadOrder DEF Next, ThreadStep

LEMMA OrderInvariance == Prepared => (Spec => []OrderInv)
<1> SUFFICES ASSUME Prepared PROVE Spec => []OrderInv
  OBVIOUS
<1>1. TypeOK /\ OrderInv /\ [Next]_vars => OrderInv'
  BY NextOrder
<1> QED
  BY TypeCorrect, InitOrder, <1>1, PTL DEF Spec

-----------------------------------------------------------------------------
(***************************************************************************)
(* The errata-172 workaround.  errata_172_handle(false) stops the timer   *)
(* before it clears the flag: no handler may start the timer in between,   *)
(* and none does, for the library is idle by then.  A handler that was     *)
(* already waiting for RSSI, and starts the timer again, ends before the   *)
(* thread goes on.  Nothing is claimed of strict mode: the timer may set   *)
(* it between the step that leaves it and the one that stops the timer.    *)
(***************************************************************************)
ErrataSteps == {"errata_off", "errata_timer", "errata_flag", "errata_on"}

Plain == ~wa_enabled /\ ~anomaly

UncodedInv ==
    /\ ~Errata172 => Plain
    /\ radio_mode \notin Coded /\ pc \notin {"errata_off", "errata_timer", "errata_flag"} => Plain
    /\ pc = "errata_flag" => ~anomaly
    /\ pc = "errata_on" => radio_mode \in Coded
    /\ pc \in ErrataSteps => Errata172
    /\ isr = "timer" => anomaly

\* The thread does not run while a handler does, and calls none.
LEMMA ThreadLeavesIsr ==
    ASSUME NewCommand \/ ThreadStep PROVE isr = "none" /\ isr' = "none"
BY DEF NewCommand, ThreadStep, NextCall, Invoke, Receive, RxSetup, RxPrepare, Prepare, RxStart,
       RxState, Transmit, TxBusy, TxBadChannel, TxCheck, TxPrepare, TxPower, TxGainRefused, TxPpi,
       TxStart, TxState, Carrier, CarrierGainRefused, CarrierStart, CarrierState, Done, EndRead,
       DoneTimer, DonePpi, DoneAnomaly, DoneState, Reset, ResetDisable, ResetWait, ResetIrqOff,
       Setup, SetupReset, SetupPhy, ErrataOn, ErrataOff, ErrataTimer, ErrataFlag, At, isrVars

\* The thread: what is not a setup call leaves a plain library plain.
LEMMA ThreadUncoded ==
    ASSUME TypeOK, UncodedInv, NewCommand \/ ThreadStep
    PROVE  UncodedInv'
<1> USE DEF UncodedInv, Plain, ErrataSteps, hwVars, radioVars, loopVars, dtmVars, errataVars
<1>0. isr' = "none"
  BY ThreadLeavesIsr
<1> DEFINE Quiet == /\ pc \notin ErrataSteps /\ pc' \notin ErrataSteps
                    /\ UNCHANGED <<wa_enabled, radio_mode>>
                    /\ (~anomaly => ~anomaly')
<1>1. CASE Quiet
  BY <1>0, <1>1 DEF TypeOK, HwTypeOK
<1>2. CASE NewCommand \/ NextCall
  <2>1. PICK calls : Invoke(calls)
    BY <1>2 DEF NewCommand, NextCall
  <2>2. Entry(Head(calls).fn) \notin ErrataSteps
    BY DEF Entry
  <2>3. Quiet
    BY <2>1, <2>2 DEF Invoke, At
  <2> QED
    BY <1>1, <2>3
<1>3. CASE Receive
  <2>1. CASE RxStart
    BY <2>1, <1>1 DEF RxStart, Goto, At
  <2>2. CASE RxSetup \/ RxPrepare \/ RxState
    BY <2>2, <1>1 DEF RxSetup, RxPrepare, Prepare, RxState, Goto, Return, At
  <2> QED
    BY <1>3, <2>1, <2>2 DEF Receive
<1>4. CASE Transmit \/ Carrier
  <2>1. CASE TxPower
    BY <2>1, <1>1 DEF TxPower, Goto, At, TypeOK, HwTypeOK
  <2>2. CASE TxBusy \/ TxBadChannel \/ TxCheck \/ TxPrepare
    BY <2>2, <1>1 DEF TxBusy, TxBadChannel, TxCheck, TxPrepare, Prepare, Goto, Return, At
  <2>3. CASE TxGainRefused \/ TxPpi \/ TxStart \/ TxState
    BY <2>3, <1>1 DEF TxGainRefused, TxPpi, TxStart, TxState, Goto, Return, At
  <2>4. CASE Carrier
    BY <2>4, <1>1 DEF Carrier, CarrierGainRefused, CarrierStart, CarrierState, Goto, Return, At
  <2> QED
    BY <1>4, <2>1, <2>2, <2>3, <2>4 DEF Transmit
<1>5. CASE Done
  <2>1. CASE EndRead \/ DoneState
    BY <2>1, <1>1 DEF EndRead, DoneState, Goto, Return, At
  <2>2. CASE DoneTimer \/ DonePpi \/ DoneAnomaly
    BY <2>2, <1>1 DEF DoneTimer, DonePpi, DoneAnomaly, Goto, At
  <2> QED
    BY <1>5, <2>1, <2>2 DEF Done
<1>6. CASE Reset
  BY <1>6, <1>1 DEF Reset, ResetDisable, ResetWait, ResetIrqOff, Goto, Return, At
<1>7. CASE Setup
  <2>1. CASE SetupReset \/ SetupPhy
    <3>1. UNCHANGED <<wa_enabled, anomaly>>
      BY <2>1 DEF SetupReset, SetupPhy
    <3>2. /\ pc \notin ErrataSteps
          /\ pc' = "errata_flag" => pc = "errata_flag"
          /\ ~Errata172 => pc' = "reset_disable"
          /\ Errata172 => pc' = "errata_off" \/ (pc' = "errata_on" /\ radio_mode' \in Coded)
      BY <2>1 DEF SetupReset, SetupPhy, Goto, At
    <3> QED
      BY <1>0, <3>1, <3>2
  <2>2. CASE ErrataOn
    BY <1>0, <2>2 DEF ErrataOn, Goto, At
  <2>3. CASE ErrataOff \/ ErrataTimer \/ ErrataFlag
    BY <1>0, <2>3 DEF ErrataOff, ErrataTimer, ErrataFlag, Goto, At
  <2> QED
    BY <1>7, <2>1, <2>2, <2>3 DEF Setup
<1> QED
  BY <1>2, <1>3, <1>4, <1>5, <1>6, <1>7 DEF ThreadStep

\* The handlers start the timer in a receiver test with the flag set only.
LEMMA OthersUncoded ==
    ASSUME TypeOK, OrderInv, UncodedInv,
           RadioHandler \/ AnomalyTimer \/ Peripherals \/ Heard \/ UNCHANGED vars
    PROVE  UncodedInv'
<1> USE DEF UncodedInv, Plain, ErrataSteps
<1>1. UNCHANGED <<pc, radio_mode>>
  BY OthersLeaveThread
<1>2. UNCHANGED wa_enabled
  BY DEF RadioHandler, HandlerNoEnd, HandlerEnd, HandlerCheck, HandlerClear, HandlerReady,
         AnomalyTimer, AnomalyTimerExpires, AnomalyTimerHandler,
         Peripherals, Alone, Heard, PacketEnds, vars, errataVars
<1>3. pc \in ErrataSteps => state = "IDLE"
  BY DEF OrderInv, IdleInv, StepInv, SetupSteps
<1> DEFINE Starts == wa_enabled /\ state = "RECEIVER_TEST"
<1>4. /\ ~anomaly /\ isr # "timer" => ~anomaly' \/ Starts
      /\ isr' = "timer" => anomaly'
  <2>1. CASE RadioHandler
    <3>1. isr' # "timer"
      BY <2>1 DEF RadioHandler, HandlerNoEnd, HandlerEnd, HandlerCheck, AfterCheck,
                  HandlerClear, HandlerReady
    <3>2. CASE HandlerNoEnd \/ HandlerEnd \/ HandlerReady
      BY ONLY <3>1, <3>2, TypeOK DEF HandlerNoEnd, HandlerEnd, HandlerReady, Receiving, TypeOK,
                                     HwTypeOK
    <3>3. CASE HandlerCheck \/ HandlerClear
      BY ONLY <3>1, <3>3, TypeOK DEF HandlerCheck, HandlerClear, hwVars, TypeOK, HwTypeOK
    <3> QED
      BY <2>1, <3>2, <3>3 DEF RadioHandler
  <2>2. CASE AnomalyTimer
    BY <2>2 DEF AnomalyTimer, AnomalyTimerExpires, AnomalyTimerHandler, hwVars
  <2>3. CASE Peripherals \/ Heard \/ UNCHANGED vars
    <3>1. UNCHANGED <<anomaly, isr>>
      BY <2>3 DEF Peripherals, Alone, HwQuiet, HwReady, HwAddress, HwTxEnd, HwDisabled,
                  HwCompare0, HwCompare1, Heard, PacketEnds, HwRxEnd, vars, hwVars, isrVars
    <3> QED
      BY <3>1
  <2> QED
    BY <2>1, <2>2, <2>3
<1> QED
  BY <1>1, <1>2, <1>3, <1>4 DEF TypeOK, HwTypeOK

\* An uncoded test never runs with the coded receiver's workaround: neither the
\* flag nor the timer is left, whatever coded tests came before, though an END
\* handled while their last one was stopped may have started the timer again.
THEOREM UncodedStaysPlain == Prepared => (Spec => []UncodedIsPlain)
<1> SUFFICES ASSUME Prepared PROVE Spec => []UncodedIsPlain
  OBVIOUS
<1>1. Init => UncodedInv
  BY DEF Init, HwInit, UncodedInv, Plain, ErrataSteps
<1>2. TypeOK /\ OrderInv /\ UncodedInv /\ [Next]_vars => UncodedInv'
  BY ThreadUncoded, OthersUncoded DEF Next
<1>3. UncodedInv => UncodedIsPlain
  BY DEF UncodedInv, UncodedIsPlain, Plain
<1> QED
  BY TypeCorrect, OrderInvariance, <1>1, <1>2, <1>3, PTL DEF Spec

-----------------------------------------------------------------------------
(***************************************************************************)
(* The count is that of the receiver test, and the library implements      *)
(* DtmSession: the steps of dtm_test_done and radio_reset are one session  *)
(* "STOPPING", in which the handler may still count what no one will read. *)
(***************************************************************************)
CountInv ==
    /\ Handling => state = "RECEIVER_TEST"
    /\ state # "RECEIVER_TEST" => rx_pkt_count = 0
    /\ pc = "done_state" => rx_pkt_count = 0 /\ ~irqOn /\ ~Handling

\* Every step of the thread but those that set the state, stop or clear.
LEMMA ThreadSteps ==
    ASSUME NewCommand \/ ThreadStep
    PROVE  \/ RxState \/ TxState \/ CarrierState \/ EndRead \/ DoneState \/ ResetIrqOff
           \/ /\ isr = "none" /\ isr' = "none" /\ state' = state /\ pack_cnt' = pack_cnt
              /\ pc' # "done_state"
              /\ \/ rx_pkt_count' = rx_pkt_count
                 \/ pc \in RxSteps \cup TxSteps /\ rx_pkt_count' = 0
<1> USE DEF hwVars, radioVars, loopVars, dtmVars, isrVars, RxSteps, TxSteps
<1>1. CASE NewCommand \/ NextCall
  <2>1. PICK calls : Invoke(calls)
    BY <1>1 DEF NewCommand, NextCall
  <2>2. Entry(Head(calls).fn) # "done_state"
    BY DEF Entry
  <2> QED
    BY <2>1, <2>2 DEF Invoke, At
<1>2. CASE Receive
  BY <1>2 DEF Receive, RxSetup, RxPrepare, Prepare, RxStart, Goto, Return, At
<1>3. CASE Transmit
  BY <1>3 DEF Transmit, TxBusy, TxBadChannel, TxCheck, TxPrepare, Prepare, TxPower,
              TxGainRefused, TxPpi, TxStart, Goto, Return, At
<1>4. CASE Carrier
  BY <1>4 DEF Carrier, CarrierGainRefused, CarrierStart, Goto, Return, At
<1>5. CASE Done
  BY <1>5 DEF Done, DoneTimer, DonePpi, DoneAnomaly, Goto, At
<1>6. CASE Reset
  BY <1>6 DEF Reset, ResetDisable, ResetWait, Goto, At
<1>7. CASE Setup
  BY <1>7 DEF Setup, SetupReset, SetupPhy, ErrataOn, ErrataOff, ErrataTimer, ErrataFlag, Goto, At
<1> QED
  BY <1>1, <1>2, <1>3, <1>4, <1>5, <1>6, <1>7 DEF ThreadStep

LEMMA ThreadCount ==
    ASSUME OrderInv, CountInv, NewCommand \/ ThreadStep
    PROVE  CountInv'
<1> USE DEF CountInv, Handling
<1>1. pc \in RxSteps \cup TxSteps => state = "IDLE"
  BY DEF OrderInv, IdleInv, StepInv, RxSteps, TxSteps, StartCalls
<1>2. CASE RxState
  BY <1>2 DEF RxState, Return, At, isrVars
<1>3. CASE TxState \/ CarrierState
  BY <1>1, <1>3 DEF TxState, CarrierState, Return, At, isrVars, TxSteps
<1>4. CASE EndRead
  BY <1>4 DEF EndRead, At, isrVars, dtmVars
<1>5. CASE DoneState
  BY <1>5 DEF DoneState, Return, At, isrVars
<1>6. CASE ResetIrqOff
  BY <1>6 DEF ResetIrqOff, Return, Goto, At, isrVars
<1> QED
  BY <1>1, <1>2, <1>3, <1>4, <1>5, <1>6, ThreadSteps

\* The handler, once its interrupt is on, counts in a receiver test only.
LEMMA OthersCount ==
    ASSUME CountInv,
           RadioHandler \/ AnomalyTimer \/ Peripherals \/ Heard \/ UNCHANGED vars
    PROVE  /\ UNCHANGED <<pc, call, state, pack_cnt>> /\ CountInv'
           /\ \/ rx_pkt_count' = rx_pkt_count
              \/ state = "RECEIVER_TEST" /\ rx_pkt_count' = CountUp
<1>1. UNCHANGED <<pc, call, state, pack_cnt>>
  BY OthersLeaveThread
<1>2. UNCHANGED irqOn
  BY DEF RadioHandler, HandlerNoEnd, HandlerEnd, HandlerCheck, HandlerClear, HandlerReady,
         AnomalyTimer, AnomalyTimerExpires, AnomalyTimerHandler,
         Peripherals, Alone, HwQuiet, HwReady, HwAddress, HwTxEnd, HwDisabled, HwCompare0,
         HwCompare1, Heard, PacketEnds, HwRxEnd, vars, hwVars, radioVars
<1>3. /\ Handling' => Handling \/ (irqOn /\ state = "RECEIVER_TEST")
      /\ \/ rx_pkt_count' = rx_pkt_count
         \/ isr = "check" /\ rx_pkt_count' = CountUp
  BY DEF RadioHandler, HandlerNoEnd, HandlerEnd, HandlerCheck, HandlerClear, HandlerReady,
         AnomalyTimer, AnomalyTimerExpires, AnomalyTimerHandler,
         Handling, AfterCheck, Receiving, IrqPending, Peripherals, Alone, Heard, PacketEnds, vars,
         isrVars, dtmVars
<1>4. isr = "check" => Handling
  BY DEF Handling
<1> QED
  BY <1>1, <1>2, <1>3, <1>4 DEF CountInv

LEMMA CountInvariance == Prepared => (Spec => []CountInv)
<1> SUFFICES ASSUME Prepared PROVE Spec => []CountInv
  OBVIOUS
<1>1. Init => CountInv
  BY DEF Init, CountInv, Handling
<1>2. OrderInv /\ CountInv /\ [Next]_vars => CountInv'
  BY ThreadCount, OthersCount DEF Next
<1> QED
  BY OrderInvariance, <1>1, <1>2, PTL DEF Spec

\* What the steps of the thread are to a session: a stop begins, goes on or
\* ends; a test begins; nothing a session tells.
Begins == state = "IDLE" /\ state' \in Session!Tests /\ ~Stopping /\ ~Stopping'
          /\ UNCHANGED <<rx_pkt_count, pack_cnt>>
Stops  == ~Stopping /\ Stopping' /\ pack_cnt' \in {rx_pkt_count, pack_cnt}
Ends   == Stopping /\ ~Stopping' /\ state' = "IDLE" /\ UNCHANGED pack_cnt
Same   == /\ Stopping' = Stopping /\ UNCHANGED <<state, pack_cnt>>
          /\ rx_pkt_count' = rx_pkt_count \/ state = "IDLE" \/ Stopping

LEMMA ThreadSession ==
    ASSUME Prepared, TypeOK, OrderInv, NewCommand \/ ThreadStep
    PROVE  Begins \/ Stops \/ Ends \/ Same
<1> USE DEF hwVars, radioVars, loopVars, dtmVars, isrVars, Stopping
<1>1. CASE NewCommand \/ NextCall
  <2>1. /\ pc = "idle" /\ pc' = Entry(call'.fn)
        /\ call'.fn \in StopCalls \cup SetupCalls \cup StartCalls
        /\ UNCHANGED <<state, pack_cnt, rx_pkt_count>>
    BY <1>1, InvokeInOrder DEF NewCommand, NextCall, Invoke
  <2>2. pc' \in {"done_timer", "end_read", "setup_reset", "setup_phy", "rx_setup", "tx_check"}
    BY <2>1 DEF Entry, StopCalls, SetupCalls, StartCalls
  <2> QED
    BY <2>1, <2>2 DEF Stops, Same
<1>2. CASE Receive \/ Transmit \/ Carrier
  <2>1. /\ pc \in RxSteps \cup TxSteps /\ pc' \in RxSteps \cup TxSteps \cup {"idle"}
        /\ state' = state \/ (state' \in Session!Tests /\ rx_pkt_count' = rx_pkt_count)
        /\ UNCHANGED pack_cnt
    BY <1>2
    DEF Receive, RxSetup, RxPrepare, Prepare, RxStart, RxState, Transmit, TxBusy, TxBadChannel,
        TxCheck, TxPrepare, TxPower, TxGainRefused, TxPpi, TxStart, TxState, Carrier,
        CarrierGainRefused, CarrierStart, CarrierState, Goto, Return, At, RxSteps, TxSteps,
        Session!Tests
  <2>2. state = "IDLE"
    BY <2>1 DEF OrderInv, IdleInv, StepInv, RxSteps, TxSteps, StartCalls
  <2>3. ~Stopping /\ ~Stopping'
    BY <2>1 DEF RxSteps, TxSteps
  <2> QED
    BY <2>1, <2>2, <2>3 DEF Begins, Same
<1>3. CASE Done
  <2>1. call.fn \in StopCalls \cup {"dtm_init"} /\ call' = call
    BY <1>3
    DEF Done, EndRead, DoneTimer, DonePpi, DoneAnomaly, DoneState, Goto, Return, At, OrderInv,
        StepInv, DoneSteps
  <2>2. call.fn \notin SetupCalls
    BY <2>1 DEF StopCalls, SetupCalls
  <2>3. CASE EndRead
    BY <2>3 DEF EndRead, At, Stops
  <2>4. CASE DoneTimer \/ DonePpi \/ DoneAnomaly
    BY <2>1, <2>2, <2>4 DEF DoneTimer, DonePpi, DoneAnomaly, At, Goto, Same
  <2>5. CASE DoneState
    BY <2>1, <2>5 DEF DoneState, At, Return, Ends
  <2> QED
    BY <1>3, <2>3, <2>4, <2>5 DEF Done
<1>4. CASE Reset
  <2>1. /\ call' = call /\ pc \in ResetSteps /\ UNCHANGED <<state, pack_cnt>>
        /\ pc' \in ResetSteps \cup (IF call.fn \in SetupCalls THEN {"idle"} ELSE {"done_state"})
    BY <1>4
    DEF Reset, ResetDisable, ResetWait, ResetIrqOff, Goto, Return, At, ResetSteps, SetupCalls
  <2>2. call.fn \in SetupCalls => state = "IDLE"
    BY <2>1 DEF OrderInv, IdleInv, ResetSteps
  <2>3. Stopping' = Stopping /\ (Stopping \/ call.fn \in SetupCalls)
    BY <2>1 DEF ResetSteps
  <2> QED
    BY <2>1, <2>2, <2>3 DEF Same
<1>5. CASE Setup
  <2>1. /\ call' = call /\ pc \in SetupSteps /\ UNCHANGED <<state, pack_cnt, rx_pkt_count>>
        /\ pc' \in SetupSteps \cup {"reset_disable"}
    BY <1>5
    DEF Setup, SetupReset, SetupPhy, ErrataOn, ErrataOff, ErrataTimer, ErrataFlag, Goto, At,
        SetupSteps
  <2>2. call.fn \in SetupCalls
    BY <2>1 DEF OrderInv, StepInv
  <2> QED
    BY <2>1, <2>2 DEF Same, SetupSteps
<1> QED
  BY <1>1, <1>2, <1>3, <1>4, <1>5 DEF ThreadStep

\* Every step of the library is a step of the session, or none.
LEMMA SessionStep ==
    ASSUME Prepared, TypeOK, OrderInv, CountInv, [Next]_vars
    PROVE  [Session!SessionNext]_(Session!session)
<1> USE DEF Session!SessionNext, Session!session
<1>1. CASE Begins
  <2>1. rx_pkt_count = 0
    BY <1>1 DEF Begins, CountInv
  <2> QED
    BY <1>1, <2>1 DEF Begins, Session!Begin
<1>2. CASE Stops
  <2>1. state # "RECEIVER_TEST" => rx_pkt_count = 0
    BY DEF CountInv
  <2>2. state # "STOPPING"
    BY DEF TypeOK, States
  <2> QED
    BY <1>2, <2>1, <2>2 DEF Stops, Session!Stop
<1>3. CASE Ends
  BY <1>3 DEF Ends, Session!Stopped
<1>4. CASE Same
  BY <1>4 DEF Same
<1>5. CASE RadioHandler \/ AnomalyTimer \/ Peripherals \/ Heard \/ UNCHANGED vars
  <2>1. /\ UNCHANGED <<pc, call, state, pack_cnt>>
        /\ \/ rx_pkt_count' = rx_pkt_count
           \/ state = "RECEIVER_TEST" /\ rx_pkt_count' = CountUp
    BY <1>5, OthersCount
  <2>2. Stopping' = Stopping
    BY <2>1 DEF Stopping
  <2>3. CASE Stopping \/ rx_pkt_count' = rx_pkt_count
    BY <2>1, <2>2, <2>3
  <2>4. CASE ~Stopping /\ state = "RECEIVER_TEST" /\ rx_pkt_count' = CountUp
    BY <2>1, <2>2, <2>4 DEF Session!Count, CountUp
  <2> QED
    BY <2>1, <2>3, <2>4
<1> QED
  BY <1>1, <1>2, <1>3, <1>4, <1>5, ThreadSession DEF Next

\* The library, with its handler that counts while the thread stops the test,
\* its stop in many steps and a counter cleared in three places, keeps the
\* promise of DtmSession to every transport that prepares first: a test starts
\* from idle and from zero, counts one packet at a time, is stopped for good,
\* and hands out the count of that test.
THEOREM KeepsSession == Prepared => (Spec => ImplementsSession)
<1> SUFFICES ASSUME Prepared PROVE Spec => ImplementsSession
  OBVIOUS
<1>1. Init => Session!SessionInit
  BY DEF Init, Session!SessionInit, Stopping, SetupCalls
<1>2. TypeOK /\ OrderInv /\ CountInv /\ [Next]_vars => [Session!SessionNext]_(Session!session)
  BY SessionStep
<1> QED
  BY TypeCorrect, OrderInvariance, CountInvariance, <1>1, <1>2, PTL
  DEF Spec, ImplementsSession, Session!SessionSpec

-----------------------------------------------------------------------------
(***************************************************************************)
(* The transmitter.  Its channel is set up and handed to the timer in five *)
(* steps.  What earlier tests left in it must not matter: on DPPI a task   *)
(* that was not cleared would be fired too, and a one-shot timer would     *)
(* send a single packet.                                                   *)
(***************************************************************************)
PacketShorts == {"READY_START", "END_DISABLE"}

Sending ==
    /\ ppi.enabled /\ "COMPARE0" \in ppi.event /\ ppi.task = {"TXEN"}
    /\ timer /\ ~timerStop
    /\ shorts = PacketShorts

\* Nothing is left of a receiver test or of a one-shot start.
NothingLeft == ~timerStop /\ "RXEN" \notin ppi.task

ArmedInv ==
    /\ \/ pc = "tx_state"
       \/ state = "TRANSMITTER_TEST" /\ pc \in {"idle", "end_read", "done_timer"}
       => Sending
    /\ pc = "tx_start" => ppi.enabled /\ ppi.fork /\ "EGU" \in ppi.event /\ ppi.task = {"TXEN"}
    /\ pc \in {"tx_power", "tx_ppi", "tx_start"} => shorts = PacketShorts
    /\ ChannelCleared \/ (state = "IDLE" /\ pc \notin {"rx_state", "carrier_state"}) => NothingLeft
    /\ state \in {"TRANSMITTER_TEST", "CARRIER_TEST"} \/ pc = "carrier_state"
          => "RXEN" \notin ppi.task
    /\ state = "UNINITIALIZED" => ppi.task = {}

\* The steps before the channel is set up, and a test that begins.
LEMMA StartArmed ==
    ASSUME TypeOK, OrderInv, ArmedInv, Receive \/ Transmit \/ Carrier
    PROVE  ArmedInv'
<1> USE DEF ArmedInv, Sending, NothingLeft, ChannelCleared, ResetSteps, PacketShorts,
            hwVars, radioVars, loopVars, dtmVars
<1>1. pc \in RxSteps \cup TxSteps
  BY DEF Receive, RxSetup, RxPrepare, RxStart, RxState, Transmit, TxBusy, TxBadChannel,
         TxCheck, TxPrepare, TxPower, TxGainRefused, TxPpi, TxStart, TxState, Carrier,
         CarrierGainRefused, CarrierStart, CarrierState, At, RxSteps, TxSteps
<1>2. state = "IDLE"
  BY <1>1 DEF OrderInv, IdleInv, StepInv, RxSteps, TxSteps, StartCalls
<1>3. CASE Receive
  <2>1. CASE RxSetup \/ RxPrepare
    BY <1>2, <2>1 DEF RxSetup, RxPrepare, Prepare, Goto, Return, At
  <2>2. CASE RxStart \/ RxState
    BY <1>2, <2>2 DEF RxStart, RxState, Goto, Return, At
  <2> QED
    BY <1>3, <2>1, <2>2 DEF Receive
<1>4. CASE TxBusy \/ TxBadChannel \/ TxCheck
  BY <1>2, <1>4 DEF TxBusy, TxBadChannel, TxCheck, Goto, Return, At
<1>5. CASE TxPrepare \/ TxPower \/ TxGainRefused
  BY <1>2, <1>5 DEF TxPrepare, Prepare, TxPower, TxGainRefused, Goto, Return, At
<1>6. CASE TxPpi
  <2>1. /\ pc = "tx_ppi" /\ pc' = "tx_start" /\ UNCHANGED <<state, shorts, timerStop>>
        /\ ppi' = PpiConfigured("TXEN")
    BY <1>6 DEF TxPpi, At, Goto
  <2>2. ppi'.enabled /\ ppi'.fork /\ "EGU" \in ppi'.event /\ ppi'.task = {"TXEN"}
    BY <1>2, <2>1 DEF PpiConfigured, EndpointSetup, TypeOK, HwTypeOK
  <2> QED
    BY <1>2, <2>1, <2>2
<1>7. CASE TxStart
  <2>1. /\ pc = "tx_start" /\ pc' = "tx_state" /\ UNCHANGED <<state, shorts, timerStop>>
        /\ ppi' = PpiReconfigured /\ Channel(ppi, "EGU")
    BY <1>7 DEF TxStart, At, Goto
  <2>2. timer'
    BY <2>1 DEF Channel, Fires
  <2>3. ppi'.enabled /\ "COMPARE0" \in ppi'.event /\ ppi'.task = {"TXEN"}
    BY <2>1 DEF PpiReconfigured, EndpointSetup, EndpointClear
  <2> QED
    BY <1>2, <2>1, <2>2, <2>3
<1>8. CASE TxState
  BY <1>2, <1>8 DEF TxState, Return, At
<1>9. CASE CarrierGainRefused \/ CarrierState
  BY <1>2, <1>9 DEF CarrierGainRefused, CarrierState, Return, At
<1>10. CASE CarrierStart
  <2>1. /\ pc = "carrier_start" /\ pc' = "carrier_state" /\ UNCHANGED state
        /\ ppi' = ppi \/ ppi' = PpiConfigured("TXEN")
    BY <1>10 DEF CarrierStart, At, Goto
  <2>2. "RXEN" \notin ppi'.task
    BY <1>2, <2>1 DEF PpiConfigured, EndpointSetup
  <2> QED
    BY <1>2, <2>1, <2>2
<1> QED
  BY <1>3, <1>4, <1>5, <1>6, <1>7, <1>8, <1>9, <1>10 DEF Transmit, Carrier

\* dtm_test_done clears the endpoint of the test that the state names.
LEMMA StopArmed ==
    ASSUME TypeOK, OrderInv, ArmedInv, Done \/ Reset \/ Setup
    PROVE  ArmedInv'
<1> USE DEF ArmedInv, Sending, NothingLeft, ChannelCleared, ResetSteps, PacketShorts,
            hwVars, radioVars, loopVars, dtmVars
<1>1. CASE EndRead \/ DoneTimer
  BY <1>1 DEF EndRead, DoneTimer, Goto, At
<1>2. CASE DonePpi
  <2>1. /\ pc = "done_ppi" /\ pc' = "done_anomaly" /\ UNCHANGED state /\ timerStop' = FALSE
        /\ ppi' = PpiCleared
    BY <1>2 DEF DonePpi, At, Goto
  <2>2. "RXEN" \notin ppi'.task /\ (state = "UNINITIALIZED" => ppi'.task = {})
    BY <2>1 DEF PpiCleared, EndpointClear, TypeOK, States
  <2> QED
    BY <2>1, <2>2
<1>3. CASE DoneAnomaly \/ DoneState
  BY <1>3 DEF DoneAnomaly, DoneState, Goto, Return, At
<1>4. CASE Reset
  <2>1. /\ call' = call /\ pc \in ResetSteps /\ UNCHANGED <<state, ppi, timer, timerStop>>
        /\ pc' \in ResetSteps \cup (IF call.fn \in SetupCalls THEN {"idle"} ELSE {"done_state"})
    BY <1>4
    DEF Reset, ResetDisable, ResetWait, ResetIrqOff, Goto, Return, At, SetupCalls
  <2>2. call.fn \in SetupCalls => state = "IDLE"
    BY <2>1 DEF OrderInv, IdleInv
  <2> QED
    BY <2>1, <2>2
<1>5. CASE Setup
  <2>1. /\ call' = call /\ pc \in SetupSteps /\ UNCHANGED <<state, ppi, timer, timerStop>>
        /\ pc' \in SetupSteps \cup {"reset_disable"}
    BY <1>5
    DEF Setup, SetupReset, SetupPhy, ErrataOn, ErrataOff, ErrataTimer, ErrataFlag, Goto, At,
        SetupSteps
  <2>2. call.fn \in SetupCalls /\ state = "IDLE"
    BY <2>1 DEF OrderInv, StepInv, IdleInv, SetupSteps
  <2> QED
    BY <2>1, <2>2 DEF SetupSteps
<1> QED
  BY <1>1, <1>2, <1>3, <1>4, <1>5 DEF Done

LEMMA NextArmed ==
    ASSUME Prepared, TypeOK, OrderInv, ArmedInv, [Next]_vars
    PROVE  ArmedInv'
<1> USE DEF ArmedInv, Sending, NothingLeft, ChannelCleared, ResetSteps, PacketShorts,
            hwVars, radioVars, loopVars
<1>1. CASE NewCommand \/ NextCall
  <2>1. /\ pc = "idle" /\ pc' = Entry(call'.fn) /\ UNCHANGED <<state, hwVars>>
        /\ call'.fn \in StopCalls \/ (call'.fn \in SetupCalls \cup StartCalls /\ state = "IDLE")
    BY <1>1, InvokeInOrder DEF NewCommand, NextCall, Invoke
  <2>2. \/ pc' \in {"done_timer", "end_read"}
        \/ state = "IDLE" /\ pc' \in {"setup_reset", "setup_phy", "rx_setup", "tx_check"}
    BY <2>1 DEF Entry, StopCalls, SetupCalls, StartCalls
  <2> QED
    BY <2>1, <2>2
<1>2. CASE RadioHandler \/ AnomalyTimer \/ Peripherals \/ Heard \/ UNCHANGED vars
  <2>1. UNCHANGED <<pc, call, state, ppi>>
    BY <1>2, OthersLeaveThread
  <2>2. UNCHANGED <<shorts, timerStop>> /\ (timer /\ ~timerStop => timer')
    BY <1>2
    DEF RadioHandler, HandlerNoEnd, HandlerEnd, RadioStart, HandlerCheck, HandlerClear,
        HandlerReady,
        AnomalyTimer, AnomalyTimerExpires, AnomalyTimerHandler, Peripherals, Alone,
        HwQuiet, HwReady, HwAddress, HwTxEnd, HwDisabled,
        HwCompare0, HwCompare1, Channel, Heard, PacketEnds, HwRxEnd, vars
  <2> QED
    BY <2>1, <2>2
<1> QED
  BY <1>1, <1>2, StartArmed, StopArmed DEF Next, ThreadStep

\* A transmitter test between two calls has its next packet scheduled: the timer
\* runs on, its COMPARE0 fires TXEN and no task of an earlier receiver test, and
\* the shorts begin and end the packet; the handler disturbs none of it.
THEOREM TransmitterStaysArmed == Prepared => (Spec => []TransmitterArmed)
<1> SUFFICES ASSUME Prepared PROVE Spec => []TransmitterArmed
  OBVIOUS
<1>1. Init => ArmedInv
  BY DEF Init, HwInit, ArmedInv, NothingLeft, ChannelCleared, ResetSteps
<1>2. TypeOK /\ OrderInv /\ ArmedInv /\ [Next]_vars => ArmedInv'
  BY NextArmed
<1>3. ArmedInv => TransmitterArmed
  BY DEF ArmedInv, TransmitterArmed, Sending, PacketShorts
<1> QED
  BY TypeCorrect, OrderInvariance, <1>1, <1>2, <1>3, PTL DEF Spec

-----------------------------------------------------------------------------
(***************************************************************************)
(* A transport without carriers, as dtm_hci.c is.                          *)
(***************************************************************************)
NoCarriers == \A cmd \in Commands : NoCarrier(cmd)

CarrierSteps == {"carrier_start", "carrier_state"}

CarrierInv ==
    /\ call.arg # "carrier" /\ NoCarrier(script)
    /\ pc \in {"tx_prepare", "tx_power"} => ~Vendor
    /\ pc \notin CarrierSteps /\ state # "CARRIER_TEST"

LEMMA RestNoCarrier ==
    ASSUME NEW calls \in Seq(Calls), calls # <<>>, NoCarrier(calls)
    PROVE  Head(calls).arg # "carrier" /\ NoCarrier(Tail(calls))
<1>1. /\ Len(calls) \in Nat \ {0} /\ Head(calls) = calls[1] /\ Len(Tail(calls)) = Len(calls) - 1
      /\ \A i \in 1..(Len(calls) - 1) : Tail(calls)[i] = calls[i + 1]
  BY EmptySeq, HeadTailProperties
<1>2. PICK n \in Nat \ {0} : n = Len(calls)
  BY <1>1
<1>3. 1 \in 1..n
  BY ONLY <1>2
<1>4. ASSUME NEW i \in 1..Len(Tail(calls)) PROVE Tail(calls)[i].arg # "carrier"
  <2>1. PICK j \in 1..n : j = i + 1 /\ i \in 1..(n - 1)
    BY ONLY <1>1, <1>2, <1>4
  <2> QED
    BY <1>1, <1>2, <2>1 DEF NoCarrier
<1> QED
  BY <1>1, <1>2, <1>3, <1>4 DEF NoCarrier

LEMMA NextCarrier ==
    ASSUME NoCarriers, TypeOK, CarrierInv, [Next]_vars
    PROVE  CarrierInv'
<1> USE DEF CarrierInv, CarrierSteps
<1>1. CASE NewCommand \/ NextCall
  <2>1. PICK calls \in Seq(Calls) : Invoke(calls) /\ calls # <<>> /\ NoCarrier(calls)
    BY <1>1, ClientAssumption DEF NewCommand, NextCall, NoCarriers, TypeOK
  <2>2. call' = Head(calls) /\ script' = Tail(calls) /\ pc' = Entry(Head(calls).fn)
        /\ UNCHANGED state
    BY <2>1 DEF Invoke, dtmVars
  <2>3. call'.arg # "carrier" /\ NoCarrier(script')
    BY <2>1, <2>2, RestNoCarrier
  <2>4. pc' \notin CarrierSteps \cup {"tx_prepare", "tx_power"}
    BY <2>2 DEF Entry
  <2> QED
    BY <2>2, <2>3, <2>4 DEF NoCarrier
<1>2. CASE ThreadStep /\ ~NextCall
  <2>1. UNCHANGED call /\ script' \in {script, <<>>}
    BY <1>2
    DEF ThreadStep, Receive, RxSetup, RxPrepare, Prepare, RxStart, RxState,
        Transmit, TxBusy, TxBadChannel, TxCheck, TxPrepare, TxPower, TxGainRefused, TxPpi,
        TxStart, TxState, Carrier, CarrierGainRefused, CarrierStart, CarrierState,
        Done, EndRead, DoneTimer, DonePpi, DoneAnomaly, DoneState,
        Reset, ResetDisable, ResetWait, ResetIrqOff,
        Setup, SetupReset, SetupPhy, ErrataOn, ErrataOff, ErrataTimer, ErrataFlag, Goto, Return
  <2>2. NoCarrier(<<>>)
    BY DEF NoCarrier
  <2>3. call'.arg # "carrier" /\ NoCarrier(script')
    BY <2>1, <2>2
  <2>4. pc' \notin CarrierSteps /\ state' # "CARRIER_TEST"
        /\ (pc' \in {"tx_prepare", "tx_power"} => ~Vendor /\ UNCHANGED radio_mode)
    <3> USE DEF hwVars, dtmVars
    <3>1. CASE Receive
      BY <3>1 DEF Receive, RxSetup, RxPrepare, Prepare, RxStart, RxState, Goto, Return
    <3>2. CASE TxCheck \/ TxPrepare \/ TxPower
      BY <3>2 DEF TxCheck, TxPrepare, TxPower, Prepare, Goto, Return, At, Vendor
    <3>3. CASE TxBusy \/ TxBadChannel \/ TxGainRefused
      BY <3>3 DEF TxBusy, TxBadChannel, TxGainRefused, Return
    <3>4. CASE TxPpi \/ TxStart \/ TxState
      BY <3>4 DEF TxPpi, TxStart, TxState, Goto, Return
    <3>5. CASE Carrier
      BY <3>5 DEF Carrier, CarrierGainRefused, CarrierStart, CarrierState, At
    <3>6. CASE Done
      BY <3>6 DEF Done, EndRead, DoneTimer, DonePpi, DoneAnomaly, DoneState, Goto, Return
    <3>7. CASE Reset
      BY <3>7 DEF Reset, ResetDisable, ResetWait, ResetIrqOff, Goto, Return
    <3>8. CASE Setup
      BY <3>8 DEF Setup, SetupReset, SetupPhy, ErrataOn, ErrataOff, ErrataTimer, ErrataFlag, Goto
    <3> QED
      BY <1>2, <3>1, <3>2, <3>3, <3>4, <3>5, <3>6, <3>7, <3>8 DEF ThreadStep, Transmit
  <2> QED
    BY <2>1, <2>3, <2>4 DEF NoCarrier, Vendor
<1>3. CASE RadioHandler \/ AnomalyTimer \/ Peripherals \/ Heard \/ UNCHANGED vars
  BY <1>3, OthersLeaveThread DEF NoCarrier, Vendor
<1> QED
  BY <1>1, <1>2, <1>3 DEF Next, ThreadStep

LEMMA CarrierInvariance == NoCarriers => (Spec => []CarrierInv)
<1> SUFFICES ASSUME NoCarriers PROVE Spec => []CarrierInv
  OBVIOUS
<1>1. Init => CarrierInv
  BY DEF Init, CarrierInv, NoCarrier, CarrierSteps
<1>2. TypeOK /\ CarrierInv /\ [Next]_vars => CarrierInv'
  BY NextCarrier
<1> QED
  BY TypeCorrect, <1>1, <1>2, PTL DEF Spec

-----------------------------------------------------------------------------
(***************************************************************************)
(* The receiver.  The one channel serves both directions; a DPPI channel   *)
(* with TXEN and RXEN on it would fire both, which dtm_test_done prevents  *)
(* except after a carrier, whose endpoint it leaves.  So: one PPI channel, *)
(* or no FEM, or no carriers.                                              *)
(***************************************************************************)
OneTask == ~(Fem /\ Dppi) \/ NoCarriers

CarrierOnDppi == Fem /\ Dppi => CarrierInv

\* No packets are being sent, nor about to be.
NotSending ==
    \/ ChannelCleared
    \/ state # "TRANSMITTER_TEST" /\ pc \notin {"tx_start", "tx_state"}

ChannelInv ==
    NotSending => /\ "COMPARE0" \notin ppi.event
                  /\ ~Fem \/ Dppi => "TXEN" \notin ppi.task

\* The receiver has been started for a test and is not yet given up.
ReceiverPhase == pc = "rx_state" \/ state = "RECEIVER_TEST"

\* A valid packet that the handler has not counted yet: END is to be served,
\* or it is being checked.
Waiting == IF "END" \in events /\ pdu[current_pdu] = "valid" THEN 1 ELSE 0
Checked == IF isr = "check" /\ pdu[received_pdu] = "valid" THEN 1 ELSE 0

Arrived == {"valid", "other"}

ReceiverInv ==
    /\ radio \in {"DISABLED", "RXRU", "RX", "RXPACKET"}
    /\ ppi.enabled => "TXEN" \notin ppi.task
    /\ ~Disabling => shorts = PacketShorts
    /\ packetptr = current_pdu
    /\ radio \in {"RX", "RXPACKET"} => dma = packetptr
    /\ "END" \in events => radio = "DISABLED" /\ pdu[current_pdu] \in Arrived
    /\ rx_pkt_count + Checked + Waiting <= heard

ReceiveInv ==
    /\ ReceiverPhase => ReceiverInv
    /\ pc = "rx_start" => shorts = PacketShorts /\ packetptr = current_pdu
    /\ Handling => received_pdu # current_pdu
    /\ isr = "check" => pdu[received_pdu] \in Arrived

LEMMA CarrierOnDppiInvariance == OneTask => (Spec => []CarrierOnDppi)
<1>1. CASE NoCarriers
  <2>1. CarrierInv => CarrierOnDppi
    BY DEF CarrierOnDppi
  <2> QED
    BY <1>1, <2>1, CarrierInvariance, PTL
<1>2. CASE ~(Fem /\ Dppi)
  <2>1. CarrierOnDppi
    BY <1>2 DEF CarrierOnDppi
  <2>2. CarrierOnDppi'
    BY <1>2 DEF CarrierOnDppi
  <2>3. CarrierOnDppi /\ [Next]_vars => CarrierOnDppi'
    BY <2>2
  <2> QED
    BY <2>1, <2>3, PTL DEF Spec
<1> QED
  BY <1>1, <1>2 DEF OneTask

\* Where the thread is and what it does to the channel.
LEMMA NextChannel ==
    ASSUME TypeOK, OrderInv, CarrierOnDppi, ChannelInv, [Next]_vars
    PROVE  ChannelInv'
<1> USE DEF ChannelInv, NotSending, ChannelCleared, ResetSteps, EndpointSetup, EndpointClear,
            hwVars, radioVars, loopVars, dtmVars
<1>1. CASE UNCHANGED ppi /\ (NotSending' => NotSending)
  BY <1>1
<1>2. CASE NewCommand \/ NextCall
  <2>1. PICK calls : Invoke(calls)
    BY <1>2 DEF NewCommand, NextCall
  <2>2. Entry(Head(calls).fn) \notin ResetSteps \cup {"done_anomaly", "done_state"}
    BY DEF Entry
  <2> QED
    BY <2>1, <2>2 DEF Invoke, At
<1>3. CASE RxStart
  BY <1>3 DEF RxStart, PpiConfigured, Goto, At, TypeOK, HwTypeOK
<1>4. CASE RxSetup \/ RxPrepare \/ RxState
  <2>1. /\ pc \in RxSteps /\ pc' \in RxSteps \cup {"idle"} /\ UNCHANGED ppi
        /\ state' \in {state, "RECEIVER_TEST"}
    BY <1>4 DEF RxSetup, RxPrepare, Prepare, RxState, Goto, Return, At, RxSteps
  <2>2. state = "IDLE"
    BY <2>1 DEF OrderInv, IdleInv, StepInv, RxSteps, StartCalls
  <2> QED
    BY <2>1, <2>2 DEF RxSteps
<1>5. CASE TxPpi \/ TxStart \/ TxState
  BY <1>5 DEF TxPpi, TxStart, TxState, Goto, Return, At
<1>6. CASE TxBusy \/ TxBadChannel \/ TxCheck
  BY <1>6 DEF TxBusy, TxBadChannel, TxCheck, Goto, Return, At
<1>7. CASE TxPrepare \/ TxPower \/ TxGainRefused
  <2>1. /\ pc \in {"tx_prepare", "tx_power", "tx_ppi"}
        /\ pc' \in {"tx_power", "tx_ppi", "carrier_start", "idle"} /\ UNCHANGED <<ppi, state>>
    BY <1>7 DEF TxPrepare, Prepare, TxPower, TxGainRefused, Goto, Return, At
  <2> QED
    BY <2>1
<1>8. CASE CarrierGainRefused \/ CarrierState
  <2>1. pc \in CarrierSteps /\ pc' = "idle" /\ UNCHANGED ppi
    BY <1>8 DEF CarrierGainRefused, CarrierState, Return, At, CarrierSteps
  <2>2. state = "IDLE"
    BY <2>1 DEF OrderInv, IdleInv, StepInv, CarrierSteps, TxSteps, StartCalls
  <2> QED
    BY <2>1, <2>2 DEF CarrierSteps
<1>9. CASE CarrierStart
  <2>1. ~(Fem /\ Dppi)
    BY <1>9 DEF CarrierStart, At, CarrierOnDppi, CarrierInv, CarrierSteps
  <2> QED
    BY <1>9, <2>1 DEF CarrierStart, PpiConfigured, Goto, At
<1>10. CASE EndRead \/ DoneTimer
  BY <1>10 DEF EndRead, DoneTimer, Goto, At
<1>11. CASE DonePpi
  <2>1. /\ pc = "done_ppi" /\ UNCHANGED state /\ ppi' = PpiCleared
    BY <1>11 DEF DonePpi, At, Goto
  <2>2. "COMPARE0" \notin ppi'.event
    BY <2>1 DEF PpiCleared
  <2>3. ~Fem \/ Dppi => "TXEN" \notin ppi'.task
    BY <2>1 DEF PpiCleared, TypeOK, HwTypeOK
  <2> QED
    BY <2>1, <2>2, <2>3
<1>12. CASE DoneAnomaly \/ DoneState
  BY <1>12 DEF DoneAnomaly, DoneState, Goto, Return, At
<1>13. CASE Reset
  BY <1>13 DEF Reset, ResetDisable, ResetWait, ResetIrqOff, Goto, Return, At, SetupCalls
<1>14. CASE Setup
  <2>1. /\ call' = call /\ pc \in SetupSteps /\ UNCHANGED <<state, ppi>>
        /\ pc' \in SetupSteps \cup {"reset_disable"}
    BY <1>14
    DEF Setup, SetupReset, SetupPhy, ErrataOn, ErrataOff, ErrataTimer, ErrataFlag, Goto, At,
        SetupSteps
  <2>2. call.fn \in SetupCalls
    BY <2>1 DEF OrderInv, StepInv
  <2> QED
    BY <2>1, <2>2 DEF SetupSteps
<1>15. CASE RadioHandler \/ AnomalyTimer \/ Peripherals \/ Heard \/ UNCHANGED vars
  BY <1>15, OthersLeaveThread
<1> QED
  BY <1>2, <1>3, <1>4, <1>5, <1>6, <1>7, <1>8, <1>9, <1>10, <1>11, <1>12, <1>13, <1>14, <1>15
  DEF Next, ThreadStep, Receive, Transmit, Carrier, Done

\* The steps of the thread that start the receiver.
LEMMA ThreadReceive ==
    ASSUME TypeOK, LoopInv, RadioInv, OrderInv, CountInv, ChannelInv, ReceiveInv, Receive
    PROVE  ReceiveInv'
<1> USE DEF Handling, hwVars, radioVars, loopVars, dtmVars, isrVars, PacketShorts
<1>1. isr = "none" /\ isr' = "none" /\ pc \in RxSteps
  BY DEF Receive, RxSetup, RxPrepare, Prepare, RxStart, RxState, At, RxSteps
<1>2. state = "IDLE"
  BY <1>1 DEF OrderInv, IdleInv, StepInv, RxSteps, StartCalls
<1>3. CASE RxSetup \/ RxPrepare
  BY <1>1, <1>2, <1>3 DEF RxSetup, RxPrepare, Prepare, Goto, Return, At, ReceiveInv, ReceiverPhase
<1>4. CASE RxStart
  <2>1. /\ pc = "rx_start" /\ pc' = "rx_state" /\ UNCHANGED <<call, state, current_pdu>>
        /\ UNCHANGED <<shorts, packetptr, rx_pkt_count, heard>>
        /\ "END" \notin events' /\ RadioStart("RXEN", ppi')
        /\ ppi' = IF Fem THEN PpiConfigured("RXEN") ELSE ppi
    BY <1>4 DEF RxStart, Goto, At
  <2>2. radio = "DISABLED" /\ ~ppi.enabled
    BY <1>2, <2>1 DEF RadioInv, LoopInv, NoTest, AfterStart
  <2>3. ppi'.enabled => "TXEN" \notin ppi'.task
    BY <1>2, <2>1, <2>2
    DEF PpiConfigured, EndpointSetup, ChannelInv, NotSending
  <2>4. radio' \in {"DISABLED", "RXRU"}
    BY <2>1, <2>2, <2>3 DEF RadioStart, Channel, Fires, RadioAfter
  <2>5. shorts' = PacketShorts /\ packetptr' = current_pdu'
    BY <2>1 DEF ReceiveInv
  <2>6. rx_pkt_count' + Checked' + Waiting' <= heard'
    <3>1. rx_pkt_count' = 0 /\ heard' \in Nat
      BY <1>2, <2>1 DEF CountInv, TypeOK
    <3>2. Checked' = 0 /\ Waiting' = 0
      BY <1>1, <2>1 DEF Checked, Waiting
    <3> QED
      BY <3>1, <3>2
  <2> QED
    BY <1>1, <2>1, <2>3, <2>4, <2>5, <2>6 DEF ReceiveInv, ReceiverInv
<1>5. CASE RxState
  <2>1. /\ pc = "rx_state" /\ pc' = "idle" /\ UNCHANGED <<hwVars, rx_pkt_count, current_pdu>>
        /\ UNCHANGED <<heard, isr, received_pdu>>
    BY <1>5 DEF RxState, Return, At
  <2>2. ReceiverInv
    BY <2>1 DEF ReceiveInv, ReceiverPhase
  <2>3. Checked' = Checked /\ Waiting' = Waiting /\ ~Disabling
    BY <2>1 DEF Checked, Waiting, Disabling
  <2> QED
    BY <1>1, <2>1, <2>2, <2>3 DEF ReceiveInv, ReceiverInv
<1> QED
  BY <1>3, <1>4, <1>5 DEF Receive

LEMMA CountUpBound == ASSUME TypeOK PROVE CountUp <= rx_pkt_count + 1
  BY ClientAssumption DEF CountUp, TypeOK

\* The others: a stop may come at any point of a receiver test.
LEMMA StopReceive ==
    ASSUME TypeOK, OrderInv, ReceiveInv,
           NewCommand \/ NextCall \/ Transmit \/ Carrier \/ Done \/ Reset \/ Setup
    PROVE  ReceiveInv'
<1> USE DEF Handling, hwVars, radioVars, loopVars, dtmVars, isrVars
<1>1. isr' = "none"
  BY DEF NewCommand, NextCall, Invoke, Transmit, TxBusy, TxBadChannel, TxCheck, TxPrepare,
         TxPower, TxGainRefused, TxPpi, TxStart, TxState, Carrier, CarrierGainRefused,
         CarrierStart, CarrierState, Done, EndRead, DoneTimer, DonePpi, DoneAnomaly, DoneState,
         Reset, ResetDisable, ResetWait, ResetIrqOff, Setup, SetupReset, SetupPhy, ErrataOn,
         ErrataOff, ErrataTimer, ErrataFlag, Prepare, At
<1>2. pc' \notin {"rx_start", "rx_state"}
  <2>1. CASE NewCommand \/ NextCall
    <3>1. PICK calls : pc' = Entry(Head(calls).fn)
      BY <2>1 DEF NewCommand, NextCall, Invoke
    <3> QED
      BY <3>1 DEF Entry
  <2>2. CASE Transmit \/ Carrier
    BY <2>2 DEF Transmit, TxBusy, TxBadChannel, TxCheck, TxPrepare, Prepare, TxPower,
                TxGainRefused, TxPpi, TxStart, TxState, Carrier, CarrierGainRefused,
                CarrierStart, CarrierState, Goto, Return
  <2>3. CASE Done \/ Reset
    BY <2>3 DEF Done, EndRead, DoneTimer, DonePpi, DoneAnomaly, DoneState, Reset, ResetDisable,
                ResetWait, ResetIrqOff, Goto, Return
  <2>4. CASE Setup
    BY <2>4 DEF Setup, SetupReset, SetupPhy, ErrataOn, ErrataOff, ErrataTimer, ErrataFlag, Goto
  <2> QED
    BY <2>1, <2>2, <2>3, <2>4
<1>3. CASE state' # "RECEIVER_TEST"
  BY <1>1, <1>2, <1>3 DEF ReceiveInv, ReceiverPhase
<1>4. CASE state' = "RECEIVER_TEST"
  <2>1. state = "RECEIVER_TEST"
    BY <1>4
    DEF NewCommand, NextCall, Invoke, Transmit, TxBusy, TxBadChannel, TxCheck, TxPrepare, Prepare,
        TxPower, TxGainRefused, TxPpi, TxStart, TxState, Carrier, CarrierGainRefused,
        CarrierStart, CarrierState, Done, EndRead, DoneTimer, DonePpi, DoneAnomaly, DoneState,
        Reset, ResetDisable, ResetWait, ResetIrqOff, Setup, SetupReset, SetupPhy, ErrataOn,
        ErrataOff, ErrataTimer, ErrataFlag
  <2>2. ReceiverInv
    BY <2>1 DEF ReceiveInv, ReceiverPhase
  <2>3. pc = "idle" \/ call.fn \notin SetupCalls \cup StartCalls
    BY <2>1 DEF OrderInv, IdleInv
  <2>4. ~Transmit /\ ~Carrier /\ ~Setup
    <3>1. Transmit \/ Carrier => pc \in TxSteps
      BY DEF Transmit, TxBusy, TxBadChannel, TxCheck, TxPrepare, TxPower, TxGainRefused, TxPpi,
             TxStart, TxState, Carrier, CarrierGainRefused, CarrierStart, CarrierState, At, TxSteps
    <3>2. Setup => pc \in SetupSteps
      BY DEF Setup, SetupReset, SetupPhy, ErrataOn, ErrataOff, ErrataTimer, ErrataFlag, At,
             SetupSteps
    <3> QED
      BY <2>3, <3>1, <3>2 DEF OrderInv, StepInv, TxSteps, SetupSteps, StartCalls
  <2>5. /\ UNCHANGED <<packetptr, dma, current_pdu, pdu, heard, received_pdu>>
        /\ rx_pkt_count' = rx_pkt_count \/ rx_pkt_count' = 0
        /\ "END" \in events' <=> "END" \in events
        /\ ppi' = ppi \/ ~ppi'.enabled
        /\ isr = "none"
    <3>1. CASE NewCommand \/ NextCall
      BY <3>1 DEF NewCommand, NextCall, Invoke, At
    <3>2. CASE Done
      BY <3>2 DEF Done, EndRead, DoneTimer, DonePpi, PpiCleared, DoneAnomaly, DoneState, Goto, At
    <3>3. CASE Reset
      BY <3>3 DEF Reset, ResetDisable, ResetWait, ResetIrqOff, At
    <3> QED
      BY <2>4, <3>1, <3>2, <3>3
  <2>6. \/ UNCHANGED <<radio, shorts>> /\ (Disabling => Disabling')
        \/ radio' = DisableTask(radio) /\ Disabling'
    <3>1. CASE NewCommand \/ NextCall
      BY <3>1 DEF NewCommand, NextCall, Invoke, At, Disabling
    <3>2. CASE Done
      BY <1>4, <3>2 DEF Done, EndRead, DoneTimer, DonePpi, DoneAnomaly, DoneState, Goto, At,
                        Disabling
    <3>3. CASE Reset
      BY <2>3, <3>3 DEF Reset, ResetDisable, ResetWait, ResetIrqOff, Goto, Return, At, Disabling,
                        SetupCalls
    <3> QED
      BY <2>4, <3>1, <3>2, <3>3
  <2>7. Checked' = Checked /\ Waiting' = Waiting
    BY <1>1, <2>5 DEF Checked, Waiting
  <2>8. rx_pkt_count' + Checked' + Waiting' <= heard'
    <3>1. Checked \in {0, 1} /\ Waiting \in {0, 1} /\ rx_pkt_count \in Nat /\ heard \in Nat
      BY ClientAssumption DEF Checked, Waiting, TypeOK
    <3>2. rx_pkt_count + Checked + Waiting <= heard
      BY <2>2 DEF ReceiverInv
    <3> QED
      BY <2>5, <2>7, <3>1, <3>2
  <2>9. radio' \in {"DISABLED", "RXRU", "RX", "RXPACKET"}
        /\ (radio' = radio \/ radio' = "DISABLED")
    BY <2>2, <2>6 DEF ReceiverInv, DisableTask, Transmitting
  <2>10. ReceiverInv'
    BY <2>2, <2>5, <2>6, <2>8, <2>9 DEF ReceiverInv
  <2> QED
    BY <1>1, <1>2, <2>10 DEF ReceiveInv
<1> QED
  BY <1>3, <1>4

\* One that waited has been counted.
LEMMA OneCounted ==
    ASSUME NEW n \in Nat, NEW m \in Nat, NEW w \in Nat, NEW h \in Nat,
           n + 1 + w <= h, m <= n + 1
    PROVE  m + 0 + w <= h
  OBVIOUS

\* The receiver on its own, and its handler.
LEMMA HandlerReceive ==
    ASSUME TypeOK, ReceiverPhase, CountInv, ReceiveInv, RadioHandler
    PROVE  /\ ReceiverInv'
           /\ Handling' => received_pdu' # current_pdu'
           /\ isr' = "check" => pdu'[received_pdu'] \in Arrived
<1> USE DEF Handling, hwVars, radioVars, loopVars, dtmVars, isrVars
<1>1. ReceiverInv
  BY DEF ReceiveInv
<1>2. /\ Checked \in {0, 1} /\ Waiting \in {0, 1} /\ rx_pkt_count \in Nat /\ heard \in Nat
      /\ rx_pkt_count + Checked + Waiting <= heard
  BY <1>1, ClientAssumption DEF Checked, Waiting, TypeOK, ReceiverInv
<1>3. UNCHANGED <<pc, call, state, ppi, shorts, heard, dma>>
  BY OthersLeaveThread
  DEF RadioHandler, HandlerNoEnd, HandlerEnd, HandlerCheck, HandlerClear, HandlerReady
<1>4. Disabling' = Disabling
  BY <1>3 DEF Disabling
<1>5. CASE HandlerEnd
  <2>1. /\ "END" \in events /\ isr = "none" /\ isr' = "check" /\ "END" \notin events'
        /\ received_pdu' = current_pdu /\ current_pdu' = BufferSwap /\ packetptr' = BufferSwap
        /\ UNCHANGED <<pdu, rx_pkt_count>> /\ RadioStart("RXEN", ppi)
    BY <1>5 DEF HandlerEnd
  <2>2. /\ radio = "DISABLED" /\ pdu[current_pdu] \in Arrived
        /\ ppi.enabled => "TXEN" \notin ppi.task
    BY <1>1, <2>1 DEF ReceiverInv
  <2>3. radio' \in {"DISABLED", "RXRU"}
    BY <2>1, <2>2 DEF RadioStart, Channel, Fires, RadioAfter
  <2>4. received_pdu' # current_pdu' /\ pdu'[received_pdu'] \in Arrived
    BY <2>1, <2>2 DEF BufferSwap, TypeOK, Buffers
  <2>5. Checked = 0 /\ Waiting' = 0 /\ Checked' = Waiting
    BY <2>1 DEF Checked, Waiting
  <2>6. rx_pkt_count' + Checked' + Waiting' <= heard'
    BY <1>2, <1>3, <2>1, <2>5
  <2> QED
    BY <1>1, <1>3, <1>4, <2>1, <2>3, <2>4, <2>6 DEF ReceiverInv
<1>6. CASE HandlerCheck
  <2>1. /\ isr = "check" /\ isr' \in {"rssi", "clear"}
        /\ UNCHANGED <<radio, events, packetptr, current_pdu, received_pdu, pdu>>
        /\ \/ rx_pkt_count' = rx_pkt_count
           \/ rx_pkt_count' = CountUp /\ pdu[received_pdu] # "other"
    BY <1>6 DEF HandlerCheck, AfterCheck, CheckPdu
  <2>2. received_pdu # current_pdu /\ pdu[received_pdu] \in Arrived
    BY <2>1 DEF ReceiveInv
  <2>4. Checked' = 0 /\ Waiting' = Waiting
    BY <2>1 DEF Checked, Waiting
  <2>5. rx_pkt_count' + Checked' + Waiting' <= heard'
    <3>1. CASE rx_pkt_count' = rx_pkt_count
      BY <1>2, <1>3, <2>4, <3>1
    <3>2. CASE rx_pkt_count' = CountUp /\ pdu[received_pdu] # "other"
      <4>1. Checked = 1
        BY <2>1, <2>2, <3>2 DEF Checked, Arrived
      <4>2. rx_pkt_count' <= rx_pkt_count + 1 /\ rx_pkt_count' \in Nat
        BY <3>2, CountUpBound, CountUpType, ClientAssumption
      <4>3. heard' = heard
        BY <1>3
      <4>4. rx_pkt_count + 1 + Waiting <= heard
        BY <1>2, <4>1
      <4>5. Waiting \in Nat
        BY <1>2
      <4>6. rx_pkt_count' + 0 + Waiting <= heard
        BY <1>2, <4>2, <4>4, <4>5, OneCounted
      <4> QED
        BY <2>4, <4>3, <4>6
    <3> QED
      BY <2>1, <3>1, <3>2
  <2> QED
    BY <1>1, <1>3, <1>4, <2>1, <2>2, <2>5 DEF ReceiverInv
<1>8. CASE HandlerClear
  <2>1. /\ isr \in {"rssi", "clear"} /\ isr' = "ready"
        /\ pdu' = [pdu EXCEPT ![received_pdu] = "zero"]
        /\ UNCHANGED <<radio, events, packetptr, current_pdu, received_pdu, rx_pkt_count>>
    BY <1>8 DEF HandlerClear
  <2>2. received_pdu # current_pdu
    BY <2>1 DEF ReceiveInv
  <2>3. pdu'[current_pdu] = pdu[current_pdu]
    BY <2>1, <2>2 DEF TypeOK, HwTypeOK
  <2>4. Checked = 0 /\ Checked' = 0 /\ Waiting' = Waiting
    BY <2>1, <2>3 DEF Checked, Waiting
  <2>5. rx_pkt_count' + Checked' + Waiting' <= heard'
    BY <1>2, <1>3, <2>1, <2>4
  <2> QED
    BY <1>1, <1>3, <1>4, <2>1, <2>3, <2>5 DEF ReceiverInv
<1>7. CASE HandlerNoEnd \/ HandlerReady
  <2>1. /\ isr # "check" /\ ~Handling' /\ isr' # "check" /\ ("END" \in events' => "END" \in events)
        /\ UNCHANGED <<radio, packetptr, current_pdu, pdu, rx_pkt_count>>
    BY <1>7 DEF HandlerNoEnd, HandlerReady
  <2>2. Checked' = 0 /\ (Waiting' = Waiting \/ Waiting' = 0)
    BY <2>1 DEF Checked, Waiting
  <2>3. rx_pkt_count' + Checked' + Waiting' <= heard'
    BY <1>2, <1>3, <2>1, <2>2
  <2> QED
    BY <1>1, <1>3, <1>4, <2>1, <2>3 DEF ReceiverInv
<1> QED
  BY <1>5, <1>6, <1>7, <1>8 DEF RadioHandler

LEMMA AirReceive ==
    ASSUME TypeOK, ReceiverPhase, RadioInv, OrderInv, ChannelInv, ReceiveInv,
           AnomalyTimer \/ Peripherals \/ Heard \/ UNCHANGED vars
    PROVE  /\ ReceiverInv'
           /\ Handling' => received_pdu' # current_pdu'
           /\ isr' = "check" => pdu'[received_pdu'] \in Arrived
<1> USE DEF Handling, hwVars, radioVars, loopVars, dtmVars, isrVars
<1>1. ReceiverInv
  BY DEF ReceiveInv
<1>2. /\ Checked \in {0, 1} /\ Waiting \in {0, 1} /\ rx_pkt_count \in Nat /\ heard \in Nat
      /\ rx_pkt_count + Checked + Waiting <= heard
  BY <1>1, ClientAssumption DEF Checked, Waiting, TypeOK, ReceiverInv
<1>3. /\ UNCHANGED <<pc, call, state, ppi, shorts, packetptr>>
      /\ UNCHANGED <<received_pdu, current_pdu, rx_pkt_count>>
      /\ isr' = isr \/ (isr \in {"none", "timer"} /\ isr' \in {"none", "timer"})
  BY OthersLeaveThread
  DEF AnomalyTimer, AnomalyTimerExpires, AnomalyTimerHandler, Peripherals, Alone,
        HwQuiet, HwReady, HwAddress, HwTxEnd, HwDisabled,
      HwCompare0, HwCompare1, Heard, PacketEnds, HwRxEnd, vars
<1>4. Disabling' = Disabling /\ (Disabling => radio = "DISABLED")
  BY <1>1, <1>3 DEF Disabling, RadioInv, ReceiverInv
<1>5. "COMPARE0" \notin ppi.event
  <2>1. pc \in {"rx_state", "tx_start", "tx_state"} => state = "IDLE"
    BY DEF OrderInv, IdleInv, StepInv, RxSteps, TxSteps, StartCalls
  <2>2. NotSending
    BY <2>1 DEF ReceiverPhase, NotSending
  <2> QED
    BY <2>2 DEF ChannelInv
<1>6. CASE Heard
  <2>1. PICK pkt \in Packets : PacketEnds(pkt)
    BY <1>6 DEF Heard
  <2>2. radio = "RXPACKET" /\ ~Disabling /\ "END" \notin events /\ dma = current_pdu
    BY <1>1, <1>4, <2>1 DEF PacketEnds, HwRxEnd, ReceiverInv
  <2>3. shorts = PacketShorts
    BY <1>1, <2>2 DEF ReceiverInv
  <2>4. /\ radio' = "DISABLED" /\ "END" \in events'
        /\ pdu' = [pdu EXCEPT ![current_pdu] = StoredAs(pkt)]
        /\ heard' = IF pkt = "valid" THEN heard + 1 ELSE heard
    BY <2>1, <2>2, <2>3 DEF PacketEnds, HwRxEnd, PacketShorts
  <2>5. pdu'[current_pdu] = StoredAs(pkt) /\ StoredAs(pkt) \in Arrived
    BY <2>4 DEF TypeOK, HwTypeOK, StoredAs, Arrived
  <2>6. isr = "check" => /\ received_pdu # current_pdu /\ pdu'[received_pdu] = pdu[received_pdu]
                         /\ pdu[received_pdu] \in Arrived
    BY <2>4 DEF ReceiveInv, TypeOK, HwTypeOK
  <2>7. Waiting = 0 /\ Checked' = Checked
    BY <1>3, <2>2, <2>6 DEF Checked, Waiting
  <2>8. Waiting' = IF pkt = "valid" THEN 1 ELSE 0
    BY <1>3, <2>4, <2>5 DEF Waiting, StoredAs
  <2>9. rx_pkt_count' + Checked' + Waiting' <= heard'
    BY <1>2, <1>3, <2>4, <2>7, <2>8
  <2> QED
    BY <1>1, <1>3, <1>4, <2>3, <2>4, <2>5, <2>6, <2>9 DEF ReceiverInv, ReceiveInv
<1>7. CASE Peripherals \/ AnomalyTimer \/ UNCHANGED vars
  <2>1. UNCHANGED <<pdu, heard>>
    BY <1>7
    DEF AnomalyTimer, AnomalyTimerExpires, AnomalyTimerHandler, Peripherals, Alone,
        HwQuiet, HwReady, HwAddress, HwTxEnd, HwDisabled,
        HwCompare0, HwCompare1, vars
  <2>2. "END" \in events' <=> "END" \in events
    BY <1>1, <1>7
    DEF AnomalyTimer, AnomalyTimerExpires, AnomalyTimerHandler, Peripherals, Alone,
        HwQuiet, HwReady, HwAddress, HwTxEnd, HwDisabled,
        HwCompare0, HwCompare1, vars, ReceiverInv
  <2>3. \/ UNCHANGED <<radio, dma>>
        \/ radio = "RXRU" /\ radio' = "RX" /\ dma' = packetptr
        \/ radio = "RX" /\ radio' = "RXPACKET" /\ dma' = dma
    <3>1. CASE Alone(HwReady)
      <4>1. radio = "RXRU" /\ ~Disabling
        BY <1>1, <1>4, <3>1 DEF Alone, HwReady, ReceiverInv
      <4>2. "READY_START" \in shorts
        BY <1>1, <4>1 DEF ReceiverInv, PacketShorts
      <4> QED
        BY <3>1, <4>1, <4>2 DEF Alone, HwReady
    <3>2. CASE Alone(HwCompare0)
      BY <1>5, <3>2 DEF Alone, HwCompare0, Fires
    <3>3. CASE Alone(HwTxEnd) \/ Alone(HwDisabled)
      BY <1>1, <3>3 DEF Alone, HwTxEnd, HwDisabled, ReceiverInv
    <3>4. CASE Alone(HwAddress) \/ Alone(HwCompare1) \/ AnomalyTimer \/ UNCHANGED vars
      BY <3>4 DEF Alone, HwAddress, HwCompare1, AnomalyTimer, AnomalyTimerExpires,
                  AnomalyTimerHandler, vars
    <3> QED
      BY <1>7, <3>1, <3>2, <3>3, <3>4 DEF Peripherals, Alone, HwQuiet
  <2>4. Checked' = Checked /\ Waiting' = Waiting
    BY <1>3, <2>1, <2>2 DEF Checked, Waiting
  <2>5. rx_pkt_count' + Checked' + Waiting' <= heard'
    BY <1>2, <1>3, <2>1, <2>4
  <2> QED
    BY <1>1, <1>3, <1>4, <2>1, <2>2, <2>3, <2>5 DEF ReceiverInv, ReceiveInv
<1> QED
  BY <1>6, <1>7

LEMMA OthersReceive ==
    ASSUME TypeOK, RadioInv, OrderInv, CountInv, ChannelInv, ReceiveInv,
           RadioHandler \/ AnomalyTimer \/ Peripherals \/ Heard \/ UNCHANGED vars
    PROVE  ReceiveInv'
<1>1. UNCHANGED <<pc, call, state>>
  BY OthersLeaveThread
<1>2. ReceiverPhase' = ReceiverPhase
  BY <1>1 DEF ReceiverPhase
<1>3. CASE ReceiverPhase
  <2>1. pc # "rx_start"
    BY <1>3 DEF ReceiverPhase, OrderInv, IdleInv, StepInv, RxSteps, StartCalls
  <2> QED
    BY <1>1, <1>2, <1>3, <2>1, HandlerReceive, AirReceive DEF ReceiveInv
<1>4. CASE ~ReceiverPhase
  <2>1. state # "RECEIVER_TEST" /\ ~Handling
    BY <1>4 DEF ReceiverPhase, CountInv
  <2>2. ~Handling' /\ UNCHANGED <<shorts, packetptr, current_pdu>>
    BY <2>1
    DEF Handling, RadioHandler, HandlerNoEnd, HandlerEnd, HandlerCheck, HandlerClear,
                HandlerReady, Receiving,
        AnomalyTimer, AnomalyTimerExpires, AnomalyTimerHandler, Peripherals, Alone,
        HwQuiet, HwReady, HwAddress, HwTxEnd, HwDisabled,
        HwCompare0, HwCompare1, Heard, PacketEnds, HwRxEnd, vars, hwVars, radioVars, isrVars,
        dtmVars
  <2> QED
    BY <1>1, <1>2, <1>4, <2>2 DEF ReceiveInv, Handling
<1> QED
  BY <1>3, <1>4

ReceiverHypotheses == Prepared /\ OneTask /\ PromptHandler

LEMMA ChannelInvariance == Prepared /\ OneTask => (Spec => []ChannelInv)
<1> SUFFICES ASSUME Prepared, OneTask PROVE Spec => []ChannelInv
  OBVIOUS
<1>1. Init => ChannelInv
  BY DEF Init, HwInit, ChannelInv
<1>2. TypeOK /\ OrderInv /\ CarrierOnDppi /\ ChannelInv /\ [Next]_vars => ChannelInv'
  BY NextChannel
<1> QED
  BY TypeCorrect, OrderInvariance, CarrierOnDppiInvariance, <1>1, <1>2, PTL DEF Spec

LEMMA ReceiveInvariance == ReceiverHypotheses => (Spec => []ReceiveInv)
<1> SUFFICES ASSUME ReceiverHypotheses PROVE Spec => []ReceiveInv
  OBVIOUS
<1> USE DEF ReceiverHypotheses
<1>1. Init => ReceiveInv
  BY DEF Init, ReceiveInv, ReceiverPhase, Handling
<1>2. Inv /\ RadioInv /\ OrderInv /\ CountInv /\ ChannelInv /\ ReceiveInv /\ [Next]_vars
         => ReceiveInv'
  BY ThreadReceive, StopReceive, OthersReceive DEF Inv, Next, ThreadStep
<1> QED
  BY Invariance, RadioInvariance, OrderInvariance, CountInvariance, ChannelInvariance,
     <1>1, <1>2, PTL DEF Spec

\* A receiver test never turns the transmitter on: no task of an earlier test is
\* left on the channel that starts the receiver.  With FEM on DPPI this takes a
\* transport without carriers; hci_tx_test and hci_rx_test are one.
THEOREM ReceiverStaysSilent ==
    Prepared /\ (~(Fem /\ Dppi) \/ \A cmd \in Commands : NoCarrier(cmd)) /\ (Fem \/ ~IrqLatency)
        => (Spec => []ReceiverIsSilent)
<1> SUFFICES ASSUME ReceiverHypotheses PROVE Spec => []ReceiverIsSilent
  BY DEF ReceiverHypotheses, OneTask, NoCarriers, PromptHandler
<1>1. ReceiveInv => ReceiverIsSilent
  BY DEF ReceiveInv, ReceiverInv, ReceiverPhase, ReceiverIsSilent, Transmitting
<1> QED
  BY ReceiveInvariance, <1>1, PTL

\* rx_pkt_count counts valid packets of this test, each once: not one of an
\* earlier test or of a buffer that was read before or while it was filled.
\* Under the same hypotheses.
THEOREM EveryCountIsHeard ==
    Prepared /\ (~(Fem /\ Dppi) \/ \A cmd \in Commands : NoCarrier(cmd)) /\ (Fem \/ ~IrqLatency)
        => (Spec => []CountIsSound)
<1> SUFFICES ASSUME ReceiverHypotheses PROVE Spec => []CountIsSound
  BY DEF ReceiverHypotheses, OneTask, NoCarriers, PromptHandler
<1>1. TypeOK /\ ReceiveInv => CountIsSound
  <2> SUFFICES ASSUME TypeOK, ReceiveInv, state = "RECEIVER_TEST" PROVE rx_pkt_count <= heard
    BY DEF CountIsSound
  <2>1. rx_pkt_count + Checked + Waiting <= heard
    BY DEF ReceiveInv, ReceiverPhase, ReceiverInv
  <2>2. Checked \in {0, 1} /\ Waiting \in {0, 1} /\ rx_pkt_count \in Nat /\ heard \in Nat
    BY ClientAssumption DEF Checked, Waiting, TypeOK
  <2> QED
    BY ONLY <2>1, <2>2
<1> QED
  BY TypeCorrect, ReceiveInvariance, <1>1, PTL

\* The handler and the receiver it has restarted never work on the same packet
\* buffer, in the FEM build on DPPI as well, for a transport without carriers.
THEOREM BuffersApartOnDppi ==
    Prepared /\ (~(Fem /\ Dppi) \/ \A cmd \in Commands : NoCarrier(cmd)) /\ (Fem \/ ~IrqLatency)
        => (Spec => []BufferOwned)
<1> SUFFICES ASSUME ReceiverHypotheses PROVE Spec => []BufferOwned
  BY DEF ReceiverHypotheses, OneTask, NoCarriers, PromptHandler
<1>1. CountInv /\ ReceiveInv => BufferOwned
  BY DEF CountInv, ReceiveInv, ReceiverInv, ReceiverPhase, BufferOwned
<1> QED
  BY CountInvariance, ReceiveInvariance, <1>1, PTL DEF ReceiverHypotheses

-----------------------------------------------------------------------------
(***************************************************************************)
(* The commands of dtm_hci.c, for all of its PHYs.                         *)
(***************************************************************************)
LEMMA HciPrepares ==
    ASSUME NEW cmd \in HciSequences PROVE PreparesFirst(cmd) /\ NoCarrier(cmd)
<1> USE DEF PreparesFirst, NoCarrier, StopCalls, SetupCalls, StartCalls, PrepareCall, EndCall,
            PhyOfTest, StartOfTest
<1>1. CASE cmd \in {<<PrepareCall>>, <<EndCall>>}
  BY <1>1
<1>2. CASE cmd \in {<<PrepareCall, phy>> : phy \in PhyOfTest}
  <2>1. PICK phy \in PhyOfTest : cmd = <<PrepareCall, phy>>
    BY <1>2
  <2>2. phy.fn \in SetupCalls /\ phy.arg # "carrier"
    BY DEF Phys
  <2> QED
    BY <2>1, <2>2
<1>3. CASE cmd \in {<<PrepareCall, phy, start>> : phy \in PhyOfTest, start \in StartOfTest}
  <2>1. PICK phy \in PhyOfTest, start \in StartOfTest : cmd = <<PrepareCall, phy, start>>
    BY <1>3
  <2>2. phy.fn \in SetupCalls /\ phy.arg # "carrier"
    BY DEF Phys
  <2>3. start.fn \in StartCalls /\ start.arg # "carrier"
    OBVIOUS
  <2> QED
    BY <2>1, <2>2, <2>3
<1> QED
  BY <1>1, <1>2, <1>3 DEF HciSequences

\* What all of this is for: under the HCI test commands, in any number and order,
\* for tests without CTE, in every build whose handler is prompt, all these
\* properties hold together.
THEOREM HciTestsAreSafe ==
    Commands \subseteq HciSequences /\ (Fem \/ ~IrqLatency)
        => (Spec => /\ ImplementsSession
                    /\ [](/\ LoopStoppedWhenIdle /\ RadioOffWhenIdle
                          /\ UncodedIsPlain /\ TransmitterArmed /\ ReceiverIsSilent
                          /\ CountIsSound /\ BufferOwned))
<1> SUFFICES ASSUME Commands \subseteq HciSequences, Fem \/ ~IrqLatency
             PROVE  Spec => /\ ImplementsSession
                            /\ [](/\ LoopStoppedWhenIdle /\ RadioOffWhenIdle
                                  /\ UncodedIsPlain /\ TransmitterArmed /\ ReceiverIsSilent
                                  /\ CountIsSound /\ BufferOwned)
  OBVIOUS
<1>1. Prepared /\ \A cmd \in Commands : NoCarrier(cmd)
  BY HciPrepares DEF Prepared
<1> QED
  BY <1>1, LoopStopped, RadioIsOff, UncodedStaysPlain, TransmitterStaysArmed,
     ReceiverStaysSilent, EveryCountIsHeard, BuffersApartOnDppi, KeepsSession, PTL
=============================================================================
