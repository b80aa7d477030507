------------------------------ MODULE DtmProofs ------------------------------
(***************************************************************************)
(* Theorems about Dtm, for every build (Fem, Dppi, errata 172), every      *)
(* transport (Commands), counter width and interrupt latency.              *)
(***************************************************************************)
EXTENDS DtmProperties, TLAPS

ResetSteps == {"reset_disable", "reset_wait", "reset_irq_off"}

\* Steps after which the state is set to that of a started test.
AfterStart == {"rx_state", "tx_start", "tx_state", "carrier_state"}

\* dtm_test_done (or dtm_init) has stopped the timer; has cleared the channel.
\* radio_reset serves setup calls too, which stop neither.
ChannelCleared ==
    \/ pc \in {"done_anomaly", "done_state"}
    \/ pc \in ResetSteps /\ call.fn \notin SetupCalls
TimerDisabled == pc = "done_ppi" \/ ChannelCleared

\* Before a test is started and after it is ended the loop is stopped.
NoTest == state \in {"IDLE", "UNINITIALIZED"} /\ pc \notin AfterStart

LoopInv ==
    /\ NoTest \/ ChannelCleared => ~ppi.enabled
    /\ ~Fem /\ (NoTest \/ TimerDisabled) => ~timer

\* The steps of the setup calls are run by those calls only.
CallOfStep ==
    /\ pc = "setup_phy" => call.fn = "dtm_setup_set_phy"
    /\ pc \in {"setup_reset", "errata_on", "errata_off", "errata_timer", "errata_flag"}
           => call.fn \in SetupCalls
-----------------------------------------------------------------------------
\* What the tasks of the peripherals return.
LEMMA RadioAfterType ==
    ASSUME radio \in RadioStates, NEW tasks \in SUBSET {"TXEN", "RXEN"},
           NEW r \in RadioAfter(tasks)
    PROVE  r \in RadioStates
  BY DEF RadioAfter, RadioStates

\* radio_start leaves a radio state and a timer that is on or off.
LEMMA RadioStartType ==
    ASSUME TypeOK, NEW task \in {"TXEN", "RXEN"}, NEW p,
           p.task \in SUBSET {"TXEN", "RXEN"}, p.enabled \in BOOLEAN,
           p.fork \in BOOLEAN, RadioStart(task, p)
    PROVE  radio' \in RadioStates /\ timer' \in BOOLEAN
  BY RadioAfterType DEF RadioStart, Channel, Fires, TypeOK, HwTypeOK

\* radio_ppi_configure leaves a well-formed channel.
LEMMA PpiConfiguredType ==
    ASSUME TypeOK, NEW task \in {"TXEN", "RXEN"}
    PROVE  PpiConfigured(task) \in
               [enabled: BOOLEAN, event: SUBSET {"EGU", "COMPARE0"},
                task: SUBSET {"TXEN", "RXEN"}, fork: BOOLEAN]
  BY DEF PpiConfigured, EndpointSetup, TypeOK, HwTypeOK

\* Every call starts at a step of the thread.
LEMMA EntryType == ASSUME NEW fn PROVE Entry(fn) \in Steps
  BY DEF Entry, Steps

\* The counter stays in its width.
LEMMA CountUpType == ASSUME TypeOK PROVE CountUp \in 0..(CountMod - 1)
  BY ClientAssumption DEF CountUp, TypeOK

ThreadTypeOK ==
    /\ pc \in Steps /\ call \in Calls /\ script \in Seq(Calls)
    /\ ret \in {"0", "EINVAL", "EBUSY"} /\ pack_cnt \in 0..(CountMod - 1)

\* A call that returns leaves the thread well typed.
LEMMA ReturnType ==
    ASSUME TypeOK, NEW err \in {"0", "EINVAL", "EBUSY"}, Return(err)
    PROVE  ThreadTypeOK'
  BY DEF TypeOK, ThreadTypeOK, Return, Steps

\* So does a step to the next one.
LEMMA GotoType ==
    ASSUME TypeOK, NEW step \in Steps, Goto(step)
    PROVE  ThreadTypeOK'
  BY DEF TypeOK, ThreadTypeOK, Goto

\* Power-on is well typed.
LEMMA InitTypeOK == Init => TypeOK
<1> SUFFICES ASSUME Init PROVE TypeOK
  OBVIOUS
<1>1. HwTypeOK
  BY DEF Init, HwInit, HwTypeOK, RadioStates, Shorts, Events, Buffers, Contents
<1>2. call \in Calls
  BY DEF Init, Calls
<1>3. state \in States /\ radio_mode \in Phys /\ current_pdu \in Buffers
      /\ pc \in Steps /\ received_pdu \in Buffers
  BY DEF Init, States, Phys, Buffers, Steps
<1>5. script \in Seq(Calls)
  BY DEF Init
<1>4. rx_pkt_count \in 0..(CountMod - 1) /\ pack_cnt \in 0..(CountMod - 1)
  BY ClientAssumption DEF Init
<1> QED
  BY <1>1, <1>2, <1>3, <1>4, <1>5 DEF TypeOK, Init, Handlers

\* Every step keeps the types.  CallOfStep gives dtm_setup_set_phy its PHY.
LEMMA NextTypeOK == TypeOK /\ CallOfStep /\ [Next]_vars => TypeOK'
<1> SUFFICES ASSUME TypeOK, CallOfStep, [Next]_vars PROVE TypeOK'
  OBVIOUS
<1> USE DEF hwVars, radioVars, loopVars, dtmVars, errataVars, threadVars, isrVars
<1>1. CASE NewCommand
  <2>1. HwTypeOK'
    BY <1>1 DEF TypeOK, HwTypeOK, NewCommand, Invoke
  <2> QED
    BY <1>1, <2>1, EntryType, ClientAssumption DEF TypeOK, NewCommand, Invoke
<1>2. CASE NextCall
  <2>1. HwTypeOK'
    BY <1>2 DEF TypeOK, HwTypeOK, NextCall, Invoke
  <2> QED
    BY <1>2, <2>1, EntryType, ClientAssumption DEF TypeOK, NextCall, Invoke
<1>3. CASE RxSetup
  <2>1. HwTypeOK'
    BY <1>3 DEF TypeOK, HwTypeOK, RxSetup, Buffers, Contents
  <2>2. rx_pkt_count' \in 0..(CountMod - 1) /\ heard' \in Nat /\ current_pdu' \in Buffers
    BY <1>3, ClientAssumption DEF TypeOK, RxSetup, Buffers
  <2>3. ThreadTypeOK'
    BY <1>3, ReturnType, GotoType DEF RxSetup, Steps
  <2> QED
    BY <1>3, <2>1, <2>2, <2>3 DEF TypeOK, ThreadTypeOK, RxSetup
<1>4. CASE RxPrepare
  BY <1>4 DEF TypeOK, HwTypeOK, RxPrepare, Prepare, Goto, Steps, Shorts
<1>5. CASE RxStart
  <2>1. HwTypeOK'
    BY <1>5, PpiConfiguredType, RadioStartType DEF TypeOK, HwTypeOK, RxStart, Events
  <2> QED
    BY <1>5, <2>1 DEF TypeOK, RxStart, Goto, Steps
<1>6. CASE RxState
  BY <1>6 DEF TypeOK, HwTypeOK, RxState, Return, States, Steps
<1>7. CASE TxBusy
  BY <1>7 DEF TypeOK, HwTypeOK, TxBusy, Return, Steps
<1>8. CASE TxBadChannel
  BY <1>8 DEF TypeOK, HwTypeOK, TxBadChannel, Return, Steps, Buffers
<1>9. CASE TxCheck
  <2>1. HwTypeOK'
    BY <1>9 DEF TypeOK, HwTypeOK, TxCheck, Buffers, Contents
  <2>2. rx_pkt_count' \in 0..(CountMod - 1) /\ current_pdu' \in Buffers
    BY <1>9, ClientAssumption DEF TypeOK, TxCheck, Buffers
  <2>3. ThreadTypeOK'
    BY <1>9, ReturnType, GotoType DEF TxCheck, Steps
  <2> QED
    BY <1>9, <2>1, <2>2, <2>3 DEF TypeOK, ThreadTypeOK, TxCheck
<1>10. CASE TxPrepare
  BY <1>10 DEF TypeOK, HwTypeOK, TxPrepare, Prepare, Goto, Steps, Shorts
<1>11. CASE TxPower
  BY <1>11 DEF TypeOK, HwTypeOK, TxPower, Goto, Steps
<1>12. CASE TxGainRefused
  BY <1>12 DEF TypeOK, HwTypeOK, TxGainRefused, Return, Steps
<1>13. CASE TxPpi
  <2>1. HwTypeOK'
    BY <1>13, PpiConfiguredType DEF TypeOK, HwTypeOK, TxPpi
  <2> QED
    BY <1>13, <2>1 DEF TypeOK, TxPpi, Goto, Steps
<1>14. CASE TxStart
  <2>1. HwTypeOK'
    BY <1>14, RadioAfterType
    DEF TypeOK, HwTypeOK, TxStart, Channel, Fires, PpiReconfigured, EndpointSetup,
          EndpointClear
  <2> QED
    BY <1>14, <2>1 DEF TypeOK, TxStart, Goto, Steps
<1>15. CASE TxState
  BY <1>15 DEF TypeOK, HwTypeOK, TxState, Return, States, Steps
<1>16. CASE CarrierGainRefused
  BY <1>16 DEF TypeOK, HwTypeOK, CarrierGainRefused, Return, Steps, Shorts
<1>17. CASE CarrierStart
  <2>1. HwTypeOK'
    BY <1>17, PpiConfiguredType, RadioStartType DEF TypeOK, HwTypeOK, CarrierStart, Shorts
  <2> QED
    BY <1>17, <2>1 DEF TypeOK, CarrierStart, Goto, Steps
<1>18. CASE CarrierState
  BY <1>18 DEF TypeOK, HwTypeOK, CarrierState, Return, States, Steps
<1>19. CASE EndRead
  BY <1>19 DEF TypeOK, HwTypeOK, EndRead, Steps
<1>20. CASE DoneTimer
  <2>1. HwTypeOK'
    BY <1>20 DEF TypeOK, HwTypeOK, DoneTimer
  <2> QED
    BY <1>20, <2>1 DEF TypeOK, DoneTimer, Goto, Steps
<1>21. CASE DonePpi
  <2>1. HwTypeOK'
    BY <1>21 DEF TypeOK, HwTypeOK, DonePpi, PpiCleared, EndpointClear
  <2> QED
    BY <1>21, <2>1 DEF TypeOK, DonePpi, Goto, Steps
<1>22. CASE DoneAnomaly
  <2>1. HwTypeOK'
    BY <1>22 DEF TypeOK, HwTypeOK, DoneAnomaly
  <2> QED
    BY <1>22, <2>1 DEF TypeOK, DoneAnomaly, Goto, Steps
<1>23. CASE DoneState
  BY <1>23 DEF TypeOK, HwTypeOK, DoneState, Return, States, Steps
<1>24. CASE ResetDisable
  BY <1>24
  DEF TypeOK, HwTypeOK, ResetDisable, Goto, Steps, DisableTask, RadioStates, Events, Shorts
<1>25. CASE ResetWait
  <2>1. HwTypeOK'
    BY <1>25 DEF TypeOK, HwTypeOK, ResetWait
  <2> QED
    BY <1>25, <2>1 DEF TypeOK, ResetWait, Goto, Steps
<1>26. CASE ResetIrqOff
  <2>1. HwTypeOK'
    BY <1>26 DEF TypeOK, HwTypeOK, ResetIrqOff
  <2> QED
    BY <1>26, <2>1, ClientAssumption DEF TypeOK, ResetIrqOff, Return, Goto, Steps
<1>27. CASE SetupReset
  BY <1>27 DEF TypeOK, HwTypeOK, SetupReset, Goto, Steps, Phys
<1>28. CASE SetupPhy
  <2>1. HwTypeOK'
    BY <1>28 DEF TypeOK, HwTypeOK, SetupPhy
  <2>2. radio_mode' \in Phys
    BY <1>28 DEF TypeOK, SetupPhy, At, CallOfStep, Calls
  <2>3. pc' \in Steps
    BY <1>28 DEF SetupPhy, Goto, Steps
  <2> QED
    BY <1>28, <2>1, <2>2, <2>3 DEF TypeOK, SetupPhy, Goto
<1>29. CASE ErrataOn
  <2>1. HwTypeOK'
    BY <1>29 DEF TypeOK, HwTypeOK, ErrataOn
  <2> QED
    BY <1>29, <2>1 DEF TypeOK, ErrataOn, Goto, Steps
<1>30. CASE ErrataOff
  <2>1. HwTypeOK'
    BY <1>30 DEF TypeOK, HwTypeOK, ErrataOff
  <2> QED
    BY <1>30, <2>1 DEF TypeOK, ErrataOff, Goto, Steps
<1>40. CASE ErrataTimer
  <2>1. HwTypeOK'
    BY <1>40 DEF TypeOK, HwTypeOK, ErrataTimer
  <2> QED
    BY <1>40, <2>1 DEF TypeOK, ErrataTimer, Goto, Steps
<1>31. CASE ErrataFlag
  <2>1. HwTypeOK'
    BY <1>31 DEF TypeOK, HwTypeOK, ErrataFlag
  <2> QED
    BY <1>31, <2>1 DEF TypeOK, ErrataFlag, Goto, Steps
<1>32. CASE HandlerNoEnd
  BY <1>32 DEF TypeOK, HwTypeOK, HandlerNoEnd, Handlers
<1>33. CASE HandlerEnd
  <2>1. radio' \in RadioStates /\ timer' \in BOOLEAN
    BY <1>33, RadioStartType DEF HandlerEnd, TypeOK, HwTypeOK
  <2>2. BufferSwap \in Buffers
    BY DEF BufferSwap, TypeOK, Buffers
  <2>3. (anomaly \/ wa_enabled) \in BOOLEAN
    OBVIOUS
  <2>4. HwTypeOK'
    BY <1>33, <2>1, <2>2, <2>3 DEF TypeOK, HwTypeOK, HandlerEnd
  <2>5. current_pdu' \in Buffers /\ received_pdu' \in Buffers /\ crc_ok' \in BOOLEAN
        /\ isr' \in Handlers
    BY <1>33, <2>2 DEF TypeOK, HwTypeOK, HandlerEnd, Handlers
  <2> QED
    BY <1>33, <2>4, <2>5 DEF TypeOK, HandlerEnd
<1>34. CASE HandlerCheck
  <2>1. HwTypeOK' /\ rx_pkt_count' \in 0..(CountMod - 1) /\ isr' \in Handlers
    BY <1>34, CountUpType DEF TypeOK, HwTypeOK, HandlerCheck, AfterCheck, Handlers
  <2> QED
    BY <1>34, <2>1 DEF TypeOK, HandlerCheck
<1>41. CASE HandlerClear
  <2>1. HwTypeOK' /\ isr' \in Handlers
    BY <1>41 DEF TypeOK, HwTypeOK, HandlerClear, Contents, Handlers
  <2> QED
    BY <1>41, <2>1 DEF TypeOK, HandlerClear
<1>35. CASE HandlerReady
  BY <1>35 DEF TypeOK, HwTypeOK, HandlerReady, Handlers
<1>36. CASE AnomalyTimer
  BY <1>36
  DEF TypeOK, HwTypeOK, AnomalyTimer, AnomalyTimerExpires, AnomalyTimerHandler, Handlers
<1>37. CASE Peripherals
  <2> SUFFICES HwTypeOK'
    BY <1>37 DEF TypeOK, Peripherals, Alone
  <2>1. CASE HwReady
    BY <2>1 DEF TypeOK, HwTypeOK, HwReady, RadioStates, Events
  <2>2. CASE HwAddress
    BY <2>2 DEF TypeOK, HwTypeOK, HwAddress, RadioStates, Events
  <2>3. CASE HwTxEnd
    BY <2>3 DEF TypeOK, HwTypeOK, HwTxEnd, RadioStates, Events
  <2>4. CASE HwDisabled
    BY <2>4 DEF TypeOK, HwTypeOK, HwDisabled, RadioStates, Events
  <2>5. CASE HwCompare0
    BY <2>5, RadioAfterType DEF TypeOK, HwTypeOK, HwCompare0, Channel, Fires
  <2>6. CASE HwCompare1
    BY <2>6 DEF TypeOK, HwTypeOK, HwCompare1
  <2> QED
    BY <1>37, <2>1, <2>2, <2>3, <2>4, <2>5, <2>6 DEF Peripherals, Alone, HwQuiet
<1>38. CASE Heard
  <2>1. HwTypeOK'
    BY <1>38
    DEF TypeOK, HwTypeOK, Heard, PacketEnds, HwRxEnd, RadioStates, Events, StoredAs,
          Contents, Packets
  <2> QED
    BY <1>38, <2>1 DEF TypeOK, Heard, PacketEnds, Packets
<1>39. CASE UNCHANGED vars
  BY <1>39 DEF vars, TypeOK, HwTypeOK
<1> QED
  BY <1>1, <1>2, <1>3, <1>4, <1>5, <1>6, <1>7, <1>8, <1>9, <1>10, <1>11, <1>12, <1>13,
     <1>14, <1>15, <1>16, <1>17, <1>18, <1>19, <1>20, <1>21, <1>22, <1>23, <1>24, <1>25,
     <1>26, <1>27, <1>28, <1>29, <1>30, <1>31, <1>32, <1>33, <1>34, <1>35, <1>36, <1>37,
     <1>38, <1>39, <1>40, <1>41
  DEF Next, ThreadStep, Receive, Transmit, Carrier, Done, Reset, Setup, RadioHandler

\* Calls enter their own steps only.
LEMMA NextCallOfStep == TypeOK /\ CallOfStep /\ [Next]_vars => CallOfStep'
<1> SUFFICES ASSUME TypeOK, CallOfStep, [Next]_vars PROVE CallOfStep'
  OBVIOUS
<1> USE DEF CallOfStep, SetupCalls
<1>1. CASE NewCommand
  BY <1>1 DEF NewCommand, Invoke, Entry
<1>2. CASE NextCall
  BY <1>2 DEF NextCall, Invoke, Entry
<1>3. CASE Receive
  BY <1>3 DEF Receive, RxSetup, RxPrepare, Prepare, RxStart, RxState, Goto, Return
<1>4. CASE Transmit \/ Carrier
  BY <1>4 DEF Transmit, TxBusy, TxBadChannel, TxCheck, TxPrepare, Prepare, TxPower,
              TxGainRefused, TxPpi, TxStart, TxState, Carrier, CarrierGainRefused,
              CarrierStart, CarrierState, Goto, Return
<1>5. CASE Done
  BY <1>5 DEF Done, EndRead, DoneTimer, DonePpi, DoneAnomaly, DoneState, Goto, Return
<1>6. CASE Reset
  BY <1>6 DEF Reset, ResetDisable, ResetWait, ResetIrqOff, Goto, Return
<1>7. CASE Setup
  BY <1>7 DEF Setup, SetupReset, SetupPhy, ErrataOn, ErrataOff, ErrataTimer, ErrataFlag, At, Goto
<1>8. CASE RadioHandler \/ AnomalyTimer \/ Peripherals \/ Heard \/ UNCHANGED vars
  BY <1>8 DEF RadioHandler, HandlerNoEnd, HandlerEnd, HandlerCheck, HandlerClear, HandlerReady,
              AnomalyTimer, AnomalyTimerExpires, AnomalyTimerHandler, Peripherals, Alone, Heard,
              PacketEnds, vars, threadVars
<1> QED
  BY <1>1, <1>2, <1>3, <1>4, <1>5, <1>6, <1>7, <1>8 DEF Next, ThreadStep

\* Nobody but the thread moves pc, call, state or the channel; without FEM
\* nobody but the thread starts the timer.
LEMMA NextLoopInv ==
    TypeOK /\ CallOfStep /\ LoopInv /\ [Next]_vars => LoopInv'
<1> SUFFICES ASSUME TypeOK, CallOfStep, LoopInv, [Next]_vars PROVE LoopInv'
  OBVIOUS
<1> USE DEF LoopInv, NoTest, AfterStart, ChannelCleared, TimerDisabled, ResetSteps, SetupCalls,
            hwVars, radioVars, loopVars, dtmVars, threadVars
<1> DEFINE Kept == /\ UNCHANGED <<pc, call, state, ppi>>
                   /\ ~Fem /\ ~timer => ~timer'
<1>1. CASE NewCommand \/ NextCall
  <2>1. PICK calls : Invoke(calls)
    BY <1>1 DEF NewCommand, NextCall
  <2>2. Entry(Head(calls).fn) \in {"done_timer", "setup_reset", "setup_phy", "rx_setup",
                                   "tx_check", "end_read", "idle"}
    BY DEF Entry
  <2>3. pc = "idle" /\ pc' \in {"done_timer", "setup_reset", "setup_phy", "rx_setup",
                                "tx_check", "end_read", "idle"} /\ UNCHANGED <<ppi, timer, state>>
    BY <2>1, <2>2 DEF Invoke, At
  <2> QED
    BY <2>3
<1>2. CASE Receive
  <2>1. CASE RxSetup \/ RxPrepare \/ RxState
    BY <1>2, <2>1 DEF RxSetup, RxPrepare, Prepare, RxState, Goto, Return, At
  <2>2. CASE RxStart
    BY <2>2 DEF RxStart, RadioStart, Goto, At
  <2> QED
    BY <1>2, <2>1, <2>2 DEF Receive
<1>3. CASE Transmit
  BY <1>3 DEF Transmit, TxBusy, TxBadChannel, TxCheck, TxPrepare, Prepare, TxPower,
              TxGainRefused, TxPpi, TxStart, TxState, Goto, Return, At
<1>4. CASE Carrier
  BY <1>4 DEF Carrier, CarrierGainRefused, CarrierStart, CarrierState, RadioStart,
              Goto, Return, At
<1>5. CASE Done
  BY <1>5 DEF Done, EndRead, DoneTimer, DonePpi, PpiCleared, DoneAnomaly, DoneState,
              Goto, Return, At
<1>6. CASE Reset
  BY <1>6 DEF Reset, ResetDisable, ResetWait, ResetIrqOff, Goto, Return, At
<1>7. CASE Setup
  <2>1. /\ pc \notin AfterStart /\ call.fn \in SetupCalls
        /\ pc' \in {"errata_on", "errata_off", "errata_timer", "errata_flag", "reset_disable"}
        /\ UNCHANGED <<call, state, ppi, timer>>
    BY <1>7
    DEF Setup, SetupReset, SetupPhy, ErrataOn, ErrataOff, ErrataTimer, ErrataFlag, CallOfStep,
        At, Goto
  <2> QED
    BY <2>1
<1>8. CASE RadioHandler
  <2>1. Kept
    BY <1>8 DEF RadioHandler, HandlerNoEnd, HandlerEnd, RadioStart, HandlerCheck, HandlerClear,
                HandlerReady
  <2> QED
    BY <2>1
<1>9. CASE AnomalyTimer \/ Peripherals \/ Heard
  <2>1. Kept
    BY <1>9 DEF AnomalyTimer, AnomalyTimerExpires, AnomalyTimerHandler, Peripherals, Alone,
                HwQuiet, HwReady, HwAddress, HwTxEnd, HwDisabled, HwCompare0, HwCompare1,
                Channel, Heard, PacketEnds, HwRxEnd
  <2> QED
    BY <2>1
<1>10. CASE UNCHANGED vars
  BY <1>10 DEF vars
<1> QED
  BY <1>1, <1>2, <1>3, <1>4, <1>5, <1>6, <1>7, <1>8, <1>9, <1>10 DEF Next, ThreadStep

-----------------------------------------------------------------------------
\* The inductive invariant.
Inv == TypeOK /\ CallOfStep /\ LoopInv

\* Inv is an invariant.
LEMMA Invariance == Spec => []Inv
<1>1. Init => Inv
  BY InitTypeOK DEF Init, HwInit, Inv, CallOfStep, LoopInv, NoTest, AfterStart,
                    ChannelCleared, TimerDisabled, ResetSteps, SetupCalls
<1>2. Inv /\ [Next]_vars => Inv'
  BY NextTypeOK, NextCallOfStep, NextLoopInv DEF Inv
<1> QED
  BY <1>1, <1>2, PTL DEF Spec

\* Type correctness: every variable of the library and of the peripherals
\* stays in its range; in particular rx_pkt_count wraps and the buffer index
\* never leaves the two buffers of dtm_inst.
THEOREM TypeCorrect == Spec => []TypeOK
<1>1. Inv => TypeOK
  BY DEF Inv
<1> QED
  BY Invariance, <1>1, PTL

\* An idle library keeps the channel that starts the radio disabled, and the
\* DTM timer stopped in a build without FEM: dtm_test_done stops both before
\* it sets STATE_IDLE, and no refused or unfinished start leaves them on.
THEOREM LoopStopped == Spec => []LoopStoppedWhenIdle
<1>1. Inv => LoopStoppedWhenIdle
  BY DEF Inv, LoopInv, LoopStoppedWhenIdle, NoTest, AfterStart
<1> QED
  BY Invariance, <1>1, PTL

-----------------------------------------------------------------------------
(***************************************************************************)
(* Buffer ownership.  Between END and the swap the receiver is off: RXEN   *)
(* is given by the thread and by on_radio_end_event only, which both clear *)
(* END, and never by the timer, where the channel holds one endpoint of    *)
(* each kind (PPI) or is not used for receiving (no FEM).                  *)
(***************************************************************************)
ReceiverOn == radio \in {"RXRU", "RX", "RXPACKET"}

OneEndpoint == ~(Fem /\ Dppi)

BufferInv ==
    /\ ~("RXEN" \in ppi.task /\ "COMPARE0" \in ppi.event)
    /\ ~Fem \/ pc = "tx_start" => "RXEN" \notin ppi.task
    /\ "END" \in events => ~ReceiverOn
    /\ Handling => packetptr # received_pdu
    /\ BufferOwned

\* Only RxStart puts RXEN on the channel, and EGU with it.
LEMMA EndpointsStep ==
    ASSUME OneEndpoint, TypeOK, BufferInv, [Next]_vars
    PROVE  /\ ~("RXEN" \in ppi'.task /\ "COMPARE0" \in ppi'.event)
           /\ ~Fem \/ pc' = "tx_start" => "RXEN" \notin ppi'.task
<1> USE DEF BufferInv, OneEndpoint, hwVars, radioVars, loopVars, EndpointSetup, EndpointClear
<1>1. CASE RxStart \/ CarrierStart
  BY <1>1 DEF RxStart, CarrierStart, PpiConfigured, Goto
<1>2. CASE TxPpi \/ TxStart
  BY <1>2 DEF TxPpi, TxStart, PpiConfigured, PpiReconfigured, Goto
<1>3. CASE DonePpi
  BY <1>3 DEF DonePpi, PpiCleared, Goto, TypeOK, HwTypeOK
<1>4. CASE UNCHANGED ppi /\ (pc' = "tx_start" => pc = "tx_start")
  BY <1>4
<1>5. CASE NewCommand \/ NextCall
  BY <1>5 DEF NewCommand, NextCall, Invoke, Entry
<1> QED
  BY <1>1, <1>2, <1>3, <1>4, <1>5
  DEF Next, ThreadStep, Receive, RxSetup, RxPrepare, Prepare, RxState,
      Transmit, TxBusy, TxBadChannel, TxCheck, TxPrepare, TxPower, TxGainRefused, TxState,
      Carrier, CarrierGainRefused, CarrierState, Done, EndRead, DoneTimer, DoneAnomaly, DoneState,
      Reset, ResetDisable, ResetWait, ResetIrqOff, Setup, SetupReset, SetupPhy, ErrataOn,
      ErrataOff, ErrataTimer, ErrataFlag, RadioHandler, HandlerNoEnd, HandlerEnd, HandlerCheck,
      HandlerClear, HandlerReady, AnomalyTimer, AnomalyTimerExpires, AnomalyTimerHandler,
      Peripherals, Alone, HwQuiet, HwReady, HwAddress, HwTxEnd, HwDisabled,
      HwCompare0, HwCompare1, Heard, PacketEnds, HwRxEnd, vars, threadVars, Goto, Return

\* The thread: it gives RXEN with END cleared, and touches neither the buffers'
\* pointer nor END while the handler is in its second half.
LEMMA ThreadBufferStep ==
    ASSUME OneEndpoint, TypeOK, BufferInv, NewCommand \/ ThreadStep
    PROVE  isr' = "none" /\ ("END" \in events' => ~ReceiverOn')
<1> USE DEF BufferInv, OneEndpoint, hwVars, radioVars, loopVars, isrVars, At, ReceiverOn
<1>1. isr' = "none"
  BY
  DEF NewCommand, ThreadStep, NextCall, Invoke, Receive, RxSetup, RxPrepare, Prepare,
        RxStart,
         RxState, Transmit, TxBusy, TxBadChannel, TxCheck, TxPrepare, TxPower, TxGainRefused, TxPpi,
         TxStart, TxState, Carrier, CarrierGainRefused, CarrierStart, CarrierState, Done, EndRead,
         DoneTimer, DonePpi, DoneAnomaly, DoneState, Reset, ResetDisable, ResetWait, ResetIrqOff,
         Setup, SetupReset, SetupPhy, ErrataOn, ErrataOff, ErrataTimer, ErrataFlag
<1>2. CASE RxStart
  BY <1>1, <1>2 DEF RxStart
<1>3. CASE TxStart
  BY <1>1, <1>3 DEF TxStart, Channel, RadioAfter, TypeOK, HwTypeOK
<1>4. CASE CarrierStart
  BY <1>1, <1>4 DEF CarrierStart, RadioStart, Channel, RadioAfter, PpiConfigured, EndpointSetup
<1>5. CASE ResetDisable
  BY <1>1, <1>5 DEF ResetDisable, DisableTask
<1>6. CASE radio' = radio /\ ("END" \in events' => "END" \in events)
  BY <1>1, <1>6
<1> QED
  BY <1>1, <1>2, <1>3, <1>4, <1>5, <1>6
  DEF NewCommand, ThreadStep, NextCall, Invoke, Receive, RxSetup, RxPrepare, Prepare,
      RxState, Transmit, TxBusy, TxBadChannel, TxCheck, TxPrepare, TxPower, TxGainRefused, TxPpi,
      TxState, Carrier, CarrierGainRefused, CarrierState, Done, EndRead,
      DoneTimer, DonePpi, DoneAnomaly, DoneState, Reset, ResetWait, ResetIrqOff,
      Setup, SetupReset, SetupPhy, ErrataOn, ErrataOff, ErrataTimer, ErrataFlag

\* Every step keeps buffer ownership.
LEMMA NextBufferInv ==
    OneEndpoint /\ TypeOK /\ BufferInv /\ [Next]_vars => BufferInv'
<1> SUFFICES ASSUME OneEndpoint, TypeOK, BufferInv, [Next]_vars
             PROVE  /\ "END" \in events' => ~ReceiverOn'
                    /\ Handling' => packetptr' # received_pdu'
                    /\ BufferOwned'
  BY EndpointsStep DEF BufferInv
<1> USE DEF BufferInv, BufferOwned, Handling, ReceiverOn, hwVars, radioVars, loopVars, dtmVars,
            isrVars
<1>1. CASE NewCommand \/ ThreadStep
  BY <1>1, ThreadBufferStep
<1>2. CASE HandlerEnd
  BY <1>2 DEF HandlerEnd, BufferSwap, RadioStart, Channel, RadioAfter, TypeOK, Buffers
<1>3. CASE HandlerNoEnd \/ HandlerCheck \/ HandlerClear \/ HandlerReady
  BY <1>3 DEF HandlerNoEnd, HandlerCheck, AfterCheck, HandlerClear, HandlerReady
<1>4. CASE AnomalyTimer
  BY <1>4 DEF AnomalyTimer, AnomalyTimerExpires, AnomalyTimerHandler
<1>5. CASE Alone(HwReady) \/ Alone(HwAddress)
  BY <1>5 DEF Alone, HwReady, HwAddress
<1>6. CASE Alone(HwTxEnd) \/ Alone(HwDisabled) \/ Alone(HwCompare1)
  BY <1>6 DEF Alone, HwTxEnd, HwDisabled, HwCompare1
<1>7. CASE Alone(HwCompare0)
  BY <1>7 DEF Alone, HwCompare0, Channel, Fires, RadioAfter, TypeOK, HwTypeOK
<1>8. CASE Heard
  BY <1>8 DEF Heard, PacketEnds, HwRxEnd
<1>9. CASE UNCHANGED vars
  BY <1>9 DEF vars
<1> QED
  BY <1>1, <1>2, <1>3, <1>4, <1>5, <1>6, <1>7, <1>8, <1>9
  DEF Next, RadioHandler, Peripherals, Alone, HwQuiet

\* The handler and the receiver it has restarted never work on the same packet
\* buffer, whatever the transport does and however late the interrupt is, in
\* every build but FEM with DPPI (where TXEN and RXEN can share the channel).
THEOREM BuffersApart == ~(Fem /\ Dppi) => (Spec => []BufferOwned)
<1> SUFFICES ASSUME OneEndpoint PROVE Spec => []BufferOwned
  BY DEF OneEndpoint
<1>1. Init => BufferInv
  BY DEF Init, HwInit, BufferInv, BufferOwned, Handling
<1>2. TypeOK /\ BufferInv /\ [Next]_vars => BufferInv'
  BY NextBufferInv
<1>3. BufferInv => BufferOwned
  BY DEF BufferInv
<1> QED
  BY TypeCorrect, <1>1, <1>2, <1>3, PTL DEF Spec

-----------------------------------------------------------------------------
(***************************************************************************)
(* The radio of an idle library.  dtm_test_done disables the radio with    *)
(* its interrupt still on: the handler could start it again by RXEN, were  *)
(* an END still to be served.  Without interrupt latency there is none     *)
(* when radio_reset begins and the stopped radio raises no other; with FEM *)
(* the handler's EGU event meets a channel that is already disabled.       *)
(***************************************************************************)
Disabling ==
    \/ pc = "done_state"
    \/ pc \in {"reset_wait", "reset_irq_off"} /\ call.fn \notin SetupCalls

RadioInv ==
    /\ NoTest => radio = "DISABLED"
    /\ Disabling =>
          /\ radio \in {"DISABLED", "TXDISABLE"}
          /\ irqOn /\ ~Fem => "END" \notin events
          /\ pc # "reset_wait" \/ "DISABLED" \in events => radio = "DISABLED"

PromptHandler == Fem \/ ~IrqLatency

\* What the thread does to the radio: it is started on the way to a test, and
\* stopped by radio_reset.
LEMMA ThreadRadioStep ==
    ASSUME PromptHandler, TypeOK, CallOfStep, LoopInv, RadioInv, NewCommand \/ ThreadStep
    PROVE  RadioInv'
<1> USE DEF RadioInv, NoTest, AfterStart, Disabling, SetupCalls, hwVars, radioVars, loopVars,
            dtmVars, threadVars
<1>1. CASE NewCommand \/ NextCall
  <2>1. PICK calls : Invoke(calls)
    BY <1>1 DEF NewCommand, NextCall
  <2>2. Entry(Head(calls).fn) \in {"done_timer", "setup_reset", "setup_phy", "rx_setup",
                                   "tx_check", "end_read", "idle"}
    BY DEF Entry
  <2>3. /\ pc = "idle" /\ UNCHANGED <<radio, state>>
        /\ pc' \in {"done_timer", "setup_reset", "setup_phy", "rx_setup", "tx_check", "end_read",
                    "idle"}
    BY <2>1, <2>2 DEF Invoke, At
  <2> QED
    BY <2>3
<1>2. CASE Receive
  BY <1>2 DEF Receive, RxSetup, RxPrepare, Prepare, RxStart, RxState, Goto, Return, At
<1>3. CASE Transmit
  <2>1. CASE TxBusy \/ TxBadChannel \/ TxCheck \/ TxGainRefused
    BY <2>1 DEF TxBusy, TxBadChannel, TxCheck, TxGainRefused, Goto, Return, At
  <2>2. CASE TxPrepare \/ TxPower \/ TxPpi \/ TxStart \/ TxState
    BY <2>2 DEF TxPrepare, Prepare, TxPower, TxPpi, TxStart, TxState, Goto, Return, At
  <2> QED
    BY <1>3, <2>1, <2>2 DEF Transmit
<1>4. CASE Carrier
  BY <1>4 DEF Carrier, CarrierGainRefused, CarrierStart, CarrierState, Goto, Return, At
<1>5. CASE Done
  BY <1>5 DEF Done, EndRead, DoneTimer, DonePpi, DoneAnomaly, DoneState, Goto, Return, At
<1>6. CASE ResetDisable
  <2>1. /\ irqOn /\ ~Fem => "END" \notin events
        /\ pc = "reset_disable" /\ pc' = "reset_wait" /\ UNCHANGED <<call, state, irqOn>>
    BY <1>6 DEF ResetDisable, Goto, At, IrqPending, IntMask, PromptHandler
  <2>2. /\ radio' = DisableTask(radio)
        /\ events' = IF radio' = "DISABLED" THEN events \cup {"DISABLED"}
                     ELSE events \ {"DISABLED"}
    BY <1>6 DEF ResetDisable
  <2>3. radio' \in {"DISABLED", "TXDISABLE"} /\ (radio = "DISABLED" => radio' = "DISABLED")
    BY <2>2 DEF DisableTask, Transmitting
  <2>4. "DISABLED" \in events' => radio' = "DISABLED"
    BY <2>2
  <2>5. "END" \in events' => "END" \in events
    BY <2>2
  <2> QED
    BY <2>1, <2>3, <2>4, <2>5
<1>7. CASE ResetWait \/ ResetIrqOff
  BY <1>7 DEF ResetWait, ResetIrqOff, Goto, Return, At
<1>8. CASE Setup
  BY <1>8 DEF Setup, SetupReset, SetupPhy, ErrataOn, ErrataOff, ErrataTimer, ErrataFlag, Goto, At,
              CallOfStep
<1> QED
  BY <1>1, <1>2, <1>3, <1>4, <1>5, <1>6, <1>7, <1>8 DEF ThreadStep, Reset

\* A radio that is disabled, or on its way, is left so by the handlers and the
\* peripherals, where no END waits and the channel is disabled.
LEMMA OthersRadioStep ==
    ASSUME TypeOK, LoopInv, RadioInv,
           RadioHandler \/ AnomalyTimer \/ Peripherals \/ Heard \/ UNCHANGED vars
    PROVE  RadioInv'
<1>1. UNCHANGED <<pc, call, state, irqOn>>
  BY DEF RadioHandler, HandlerNoEnd, HandlerEnd, HandlerCheck, HandlerClear, HandlerReady,
         AnomalyTimer, AnomalyTimerExpires, AnomalyTimerHandler,
         Peripherals, Alone, HwQuiet, HwReady, HwAddress, HwTxEnd, HwDisabled, HwCompare0,
         HwCompare1, Heard, PacketEnds, HwRxEnd, vars, threadVars, dtmVars, hwVars, radioVars
<1>2. Disabling => ~ppi.enabled
  BY DEF LoopInv, Disabling, ChannelCleared, ResetSteps
<1>3. NoTest => ~ppi.enabled /\ state # "RECEIVER_TEST"
  BY DEF LoopInv, NoTest
<1>4. ASSUME NoTest \/ Disabling, radio \in {"DISABLED", "TXDISABLE"},
             Disabling /\ irqOn /\ ~Fem => "END" \notin events
      PROVE  /\ radio' \in {"DISABLED", "TXDISABLE"} /\ (radio = "DISABLED" => radio' = "DISABLED")
             /\ "END" \in events' => "END" \in events
             /\ "DISABLED" \in events' => "DISABLED" \in events \/ radio' = "DISABLED"
  <2> USE <1>2, <1>3, <1>4 DEF hwVars, radioVars, loopVars
  <2>1. CASE HandlerEnd
    <3>1. Disabling /\ "END" \in events /\ irqOn
      BY <2>1 DEF HandlerEnd, Receiving, IrqPending
    <3>2. radio' = radio
      BY <2>1, <3>1 DEF HandlerEnd, RadioStart, Channel, Fires, RadioAfter
    <3>3. events' \subseteq events
      BY <2>1 DEF HandlerEnd
    <3> QED
      BY <3>2, <3>3
  <2>2. CASE HandlerNoEnd \/ HandlerCheck \/ HandlerClear \/ HandlerReady \/ AnomalyTimer
    BY <2>2 DEF HandlerNoEnd, HandlerCheck, HandlerClear, HandlerReady, AnomalyTimer,
                AnomalyTimerExpires, AnomalyTimerHandler
  <2>3. CASE Peripherals
    BY <2>3 DEF Peripherals, Alone, HwQuiet, HwReady, HwAddress, HwTxEnd, HwDisabled, HwCompare0,
                HwCompare1, Channel, Fires, RadioAfter
  <2>4. CASE Heard \/ UNCHANGED vars
    BY <2>4 DEF Heard, PacketEnds, HwRxEnd, vars
  <2> QED
    BY <2>1, <2>2, <2>3, <2>4 DEF RadioHandler
<1>5. NoTest' = NoTest /\ Disabling' = Disabling
  BY <1>1 DEF NoTest, Disabling
<1>6. NoTest => radio' = "DISABLED"
  <2> SUFFICES ASSUME NoTest PROVE radio' = "DISABLED"
    OBVIOUS
  <2>1. radio = "DISABLED" /\ (Disabling /\ irqOn /\ ~Fem => "END" \notin events)
    BY DEF RadioInv
  <2> QED
    BY <1>4, <2>1
<1>7. ASSUME Disabling
      PROVE  /\ radio' \in {"DISABLED", "TXDISABLE"}
             /\ irqOn' /\ ~Fem => "END" \notin events'
             /\ pc' # "reset_wait" \/ "DISABLED" \in events' => radio' = "DISABLED"
  <2>1. /\ radio \in {"DISABLED", "TXDISABLE"}
        /\ irqOn /\ ~Fem => "END" \notin events
        /\ pc # "reset_wait" \/ "DISABLED" \in events => radio = "DISABLED"
    BY <1>7 DEF RadioInv
  <2> QED
    BY <1>1, <1>4, <1>7, <2>1
<1> QED
  BY <1>5, <1>6, <1>7 DEF RadioInv

LEMMA RadioInvariance == PromptHandler => (Spec => []RadioInv)
<1> SUFFICES ASSUME PromptHandler PROVE Spec => []RadioInv
  OBVIOUS
<1>1. Init => RadioInv
  BY DEF Init, HwInit, RadioInv, NoTest, Disabling
<1>2. Inv /\ RadioInv /\ [Next]_vars => RadioInv'
  BY ThreadRadioStep, OthersRadioStep DEF Inv, Next
<1> QED
  BY Invariance, <1>1, <1>2, PTL DEF Spec

\* STATE_IDLE means a radio that is off, for every transport, every order of its
\* calls and refused starts among them; in a build without FEM this takes that
\* the handler is not delayed past the next step of the thread.
THEOREM RadioIsOff == Fem \/ ~IrqLatency => (Spec => []RadioOffWhenIdle)
<1> SUFFICES ASSUME PromptHandler PROVE Spec => []RadioOffWhenIdle
  BY DEF PromptHandler
<1>1. RadioInv => RadioOffWhenIdle
  BY DEF RadioInv, RadioOffWhenIdle, NoTest, AfterStart
<1> QED
  BY RadioInvariance, <1>1, PTL
=============================================================================
