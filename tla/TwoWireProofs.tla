---------------------------- MODULE TwoWireProofs ----------------------------
(***************************************************************************)
(* On both two-wire transports no command is ever made of octets that do   *)
(* not belong together, for every delay, read interval and pause that      *)
(* TwoWireAssumption allows and however many octets are lost.              *)
(***************************************************************************)
EXTENDS TwoWire, SequenceTheorems, TLAPS

First == Octet(request, 1)
Second == Octet(request, 2)

\* What dtm_tr_get holds cannot be taken for the first half of the command.
Harmless == msb = NoOctet \/ (transport = "uart" /\ Late(age))

\* The parts of the inductive invariant: how far a command has come.
Idle == half = 0 /\ line = <<>> /\ msb = NoOctet /\ cmd = NoCmd
FirstSent == half = 1 /\ line \in {<<First>>, <<>>} /\ Harmless /\ cmd = NoCmd
FirstHeld == half = 1 /\ line = <<>> /\ msb = First /\ age <= quiet /\ cmd = NoCmd
BothSent ==
    half = 2 /\ line = <<First, Second>> /\ Harmless /\ quiet <= unread /\ cmd = NoCmd
SecondAlone ==
    half = 2 /\ line = <<Second>> /\ Harmless /\ quiet <= unread /\ cmd = NoCmd
SecondSent ==
    /\ half = 2 /\ line = <<Second>> /\ msb = First /\ cmd = NoCmd
    /\ age <= Spread + unread /\ quiet <= age + Gap
\* An octet was lost: the other one grows too old before the tester goes on.
Broken ==
    /\ half = 2 /\ line = <<>> /\ cmd = NoCmd
    /\ \/ msb = NoOctet
       \/ /\ quiet <= age + Gap \/ Late(age)
          /\ transport = "rtt" => quiet <= Delay + Gap + unread
Returned ==
    /\ half = 2 /\ line = <<>> /\ msb = NoOctet /\ cmd = <<First, Second>>
    /\ quiet <= Delay + Gap + unread
    /\ transport = "uart" => pc = "wait"

Times ==
    /\ transport \in {"uart", "rtt"}
    /\ quiet \in Nat /\ age \in Nat /\ unread \in Nat
    /\ unread <= Gap
    /\ half = 1 => quiet <= Spread
    /\ request = None <=> half = 0

IInv ==
    /\ Times
    /\ \/ Idle \/ FirstSent \/ FirstHeld \/ BothSent \/ SecondAlone \/ SecondSent
       \/ Broken \/ Returned

\* Lines of at most two octets.
LEMMA AppendOne == ASSUME NEW a PROVE Append(<<>>, a) = <<a>>
  OBVIOUS

LEMMA AppendTwo == ASSUME NEW a, NEW b PROVE Append(<<a>>, b) = <<a, b>>
  <1>1. <<a>> \in Seq({a, b}) /\ <<a, b>> \in Seq({a, b})
    OBVIOUS
  <1>2. Append(<<a>>, b) \in Seq({a, b}) /\ Len(Append(<<a>>, b)) = 2
    BY <1>1
  <1>3. Append(<<a>>, b)[1] = a /\ Append(<<a>>, b)[2] = b
    BY <1>1
  <1>4. Len(<<a, b>>) = 2 /\ <<a, b>>[1] = a /\ <<a, b>>[2] = b /\ 1..2 = {1, 2}
    OBVIOUS
  <1> QED
    BY <1>1, <1>2, <1>3, <1>4, SeqEqual, Zenon

LEMMA EmptyLine == Len(<<>>) = 0
  OBVIOUS

LEMMA LineOfOne ==
    ASSUME NEW a
    PROVE  Head(<<a>>) = a /\ Tail(<<a>>) = <<>> /\ Len(<<a>>) = 1 /\ <<a>> # <<>> /\ <<a>>[1] = a
  OBVIOUS

LEMMA LineOfTwo ==
    ASSUME NEW a, NEW b
    PROVE  /\ Head(<<a, b>>) = a /\ Tail(<<a, b>>) = <<b>> /\ Len(<<a, b>>) = 2
           /\ <<a, b>> # <<>> /\ <<a, b>>[1] = a /\ <<a, b>>[2] = b
  OBVIOUS

LEMMA Octets == ASSUME NEW id, NEW half_ PROVE Octet(id, half_) # NoOctet
  BY DEF Octet, NoOctet

LEMMA Returns == First # NoOctet /\ Second # NoOctet /\ <<First, Second>> # NoCmd
  BY Octets DEF First, Second, NoCmd

LEMMA InitIInv == Init => IInv
  BY TwoWireAssumption DEF Init, IInv, Times, Idle

\* The tester never sends while an octet of its own is still on the line or
\* being answered, and not before what is held has grown harmless.
LEMMA QuietLine ==
    ASSUME IInv, half = 2, quiet = Pause
    PROVE  line = <<>> /\ Harmless /\ cmd = NoCmd
  <1> USE TwoWireAssumption DEF IInv, Times
  <1>1. ~BothSent /\ ~SecondAlone /\ ~SecondSent /\ ~Returned
    BY DEF BothSent, SecondAlone, SecondSent, Returned
  <1>2. Broken
    BY <1>1 DEF Idle, FirstSent, FirstHeld
  <1> QED
    BY <1>2 DEF Broken, Harmless, Late

LEMMA SendKeepsIInv == IInv /\ (SendNew \/ SendAgain) => IInv'
  <1> SUFFICES ASSUME IInv, SendNew \/ SendAgain PROVE IInv'
    OBVIOUS
  <1>1. line = <<>> /\ Harmless /\ cmd = NoCmd /\ Times
    <2>1. CASE SendNew
      BY <2>1 DEF IInv, Times, SendNew, Idle, FirstSent, FirstHeld, BothSent, SecondAlone,
                  SecondSent, Broken, Returned, Harmless
    <2>2. CASE SendAgain
      BY <2>2, QuietLine DEF SendAgain, IInv
    <2> QED
      BY <2>1, <2>2
  <1>2. PICK id : id # None /\ SendFirst(id)
    BY <1>1 DEF SendNew, SendAgain, Ids, None, Times
  <1>3. line' = <<First'>>
    BY <1>1, <1>2, AppendOne DEF SendFirst, First
  <1>4. FirstSent'
    BY <1>1, <1>2, <1>3 DEF FirstSent, SendFirst, Harmless, get
  <1>5. Times'
    BY <1>1, <1>2, TwoWireAssumption DEF Times, SendFirst, get
  <1> QED
    BY <1>4, <1>5 DEF IInv

LEMMA SendSecondKeepsIInv == IInv /\ SendSecond => IInv'
  <1> SUFFICES ASSUME IInv, SendSecond PROVE IInv'
    OBVIOUS
  <1> USE TwoWireAssumption DEF SendSecond, get
  <1>1. Times'
    BY DEF IInv, Times
  <1>2. First' = First /\ Second' = Second
    BY DEF First, Second
  <1>3. line' = Append(line, Second)
    BY DEF Second
  <1>4. FirstSent \/ FirstHeld
    BY DEF IInv, Idle, FirstSent, FirstHeld, BothSent, SecondAlone, SecondSent, Broken, Returned
  <1>5. CASE FirstSent /\ line = <<First>>
    <2>1. line' = <<First', Second'>>
      BY <1>2, <1>3, <1>5, AppendTwo
    <2>2. half' = 2 /\ Harmless' /\ quiet' <= unread' /\ cmd' = NoCmd
      BY <1>1, <1>5 DEF Times, FirstSent, Harmless, Late
    <2> QED
      BY <1>1, <1>5, <2>1, <2>2 DEF IInv, BothSent
  <1>6. CASE FirstSent /\ line = <<>>
    <2>1. line' = <<Second'>>
      BY <1>2, <1>3, <1>6, AppendOne
    <2> QED
      BY <1>1, <1>6, <2>1 DEF IInv, Times, FirstSent, SecondAlone, Harmless, Late
  <1>7. CASE FirstHeld
    <2>1. line' = <<Second'>>
      BY <1>2, <1>3, <1>7, AppendOne DEF FirstHeld
    <2> QED
      BY <1>1, <1>2, <1>7, <2>1 DEF IInv, Times, FirstHeld, SecondSent
  <1> QED
    BY <1>4, <1>5, <1>6, <1>7 DEF FirstSent

LEMMA LoseKeepsIInv == IInv /\ Lose => IInv'
  <1> SUFFICES ASSUME IInv, Lose PROVE IInv'
    OBVIOUS
  <1> USE TwoWireAssumption DEF Lose, tester, get
  <1>1. Times'
    BY DEF IInv, Times
  <1>2. First' = First /\ Second' = Second
    BY DEF First, Second
  <1>3. CASE FirstSent
    BY <1>1, <1>2, <1>3, LineOfOne DEF IInv, FirstSent, Harmless
  <1>4. CASE BothSent
    BY <1>1, <1>2, <1>4, LineOfTwo DEF IInv, BothSent, SecondAlone, Harmless
  <1>5. CASE SecondAlone
    <2>1. line' = <<>>
      BY <1>5, LineOfOne DEF SecondAlone
    <2> QED
      BY <1>1, <1>5, <2>1 DEF IInv, Times, SecondAlone, Broken, Harmless, Late
  <1>6. CASE SecondSent
    <2>1. line' = <<>>
      BY <1>6, LineOfOne DEF SecondSent
    <2> QED
      BY <1>1, <1>6, <2>1 DEF IInv, Times, SecondSent, Broken
  <1> QED
    BY <1>3, <1>4, <1>5, <1>6 DEF IInv, Idle, FirstHeld, Broken, Returned

LEMMA TickKeepsIInv == IInv /\ Tick => IInv'
  <1> SUFFICES ASSUME IInv, Tick PROVE IInv'
    OBVIOUS
  <1> USE TwoWireAssumption DEF Tick
  <1>1. /\ quiet \in Nat /\ age \in Nat /\ quiet' \in Nat /\ age' \in Nat
        /\ quiet' <= quiet + 1 /\ age' <= age + 1
        /\ age' = age + 1 \/ Late(age')
        /\ quiet <= Pause => quiet <= quiet'
    BY DEF IInv, Times, Later, Late
  <1>2. Late(age) => Late(age')
    BY DEF IInv, Times, Later, Late
  <1>3. Times'
    BY <1>1 DEF IInv, Times, Later
  <1>4. First' = First /\ Second' = Second
    BY DEF First, Second
  <1>5. Harmless => Harmless'
    BY <1>2 DEF Harmless
  <1>6. CASE Idle
    BY <1>3, <1>6 DEF IInv, Idle
  <1>7. CASE FirstSent
    BY <1>3, <1>4, <1>5, <1>7 DEF IInv, FirstSent
  <1>8. CASE FirstHeld
    <2>1. age' <= quiet'
      BY <1>8 DEF IInv, Times, FirstHeld, Later
    <2> QED
      BY <1>3, <1>4, <1>8, <2>1 DEF IInv, FirstHeld
  <1>9. CASE BothSent
    BY <1>1, <1>3, <1>4, <1>5, <1>9 DEF IInv, Times, BothSent
  <1>10. CASE SecondAlone
    BY <1>1, <1>3, <1>4, <1>5, <1>10 DEF IInv, Times, SecondAlone
  <1>11. CASE SecondSent
    <2>1. age <= Delay
      BY <1>11 DEF IInv, Times, SecondSent
    <2>2. age' = age + 1
      BY <2>1 DEF IInv, Times, Later
    <2> QED
      BY <1>1, <1>3, <1>4, <1>11, <2>2 DEF IInv, Times, SecondSent
  <1>12. CASE Broken
    <2>1. quiet <= age + Gap => quiet' <= age' + Gap \/ Late(age')
      BY <1>1 DEF IInv, Times
    <2>2. quiet <= Delay + Gap + unread => quiet' <= Delay + Gap + unread'
      BY <1>1 DEF IInv, Times
    <2>3. Broken'
      BY <1>2, <1>12, <2>1, <2>2 DEF Broken
    <2> QED
      BY <1>3, <2>3 DEF IInv
  <1>13. CASE Returned
    BY <1>1, <1>3, <1>4, <1>13 DEF IInv, Times, Returned
  <1> QED
    BY <1>6, <1>7, <1>8, <1>9, <1>10, <1>11, <1>12, <1>13 DEF IInv

LEMMA WaitKeepsIInv == IInv /\ (DtmUartWait \/ WaitTimerHandler \/ SemTake) => IInv'
  <1> SUFFICES ASSUME IInv, DtmUartWait \/ WaitTimerHandler \/ SemTake PROVE IInv'
    OBVIOUS
  <1>1. /\ UNCHANGED <<transport, tester, line, get, unread, cmd>>
        /\ cmd # NoCmd => ~DtmUartWait
        /\ pc = "wait" => pc' = pc \/ DtmUartWait
    BY DEF DtmUartWait, WaitTimerHandler, SemTake, wait, get
  <1>2. Returned => Returned'
    BY <1>1, Returns DEF Returned, First, Second, tester, get
  <1>3. Times' /\ (Harmless => Harmless')
    BY <1>1 DEF IInv, Times, Harmless, Late, tester, get
  <1> QED
    BY <1>1, <1>2, <1>3 DEF IInv, Idle, FirstSent, FirstHeld, BothSent, SecondAlone, SecondSent,
                            Broken, First, Second, Late, tester, get

LEMMA UartReadKeepsIInv == IInv /\ UartRead => IInv'
  <1> SUFFICES ASSUME IInv, UartRead PROVE IInv'
    OBVIOUS
  <1> USE TwoWireAssumption DEF UartRead, Hold, Return, AfterLate, tester, get
  <1>1. First' = First /\ Second' = Second
    BY DEF First, Second
  <1>2. Times'
    BY DEF IInv, Times
  <1>3. ~Returned
    BY DEF Returned
  <1>4. CASE line = <<>>
    BY <1>1, <1>2, <1>4, <1>3, LineOfOne, LineOfTwo
       DEF IInv, Idle, FirstSent, FirstHeld, BothSent, SecondAlone, SecondSent, Broken, Harmless,
           Late
  <1>5. CASE FirstSent /\ line = <<First>>
    <2>1. line' = <<>> /\ msb' = First /\ age' = 0 /\ cmd' = NoCmd
      BY <1>5, LineOfOne DEF FirstSent, Harmless
    <2> QED
      BY <1>1, <1>2, <1>5, <2>1 DEF IInv, Times, FirstSent, FirstHeld
  <1>6. CASE BothSent
    <2>1. line' = <<Second>> /\ msb' = First /\ age' = 0 /\ cmd' = NoCmd
      BY <1>6, LineOfTwo DEF BothSent, Harmless
    <2> QED
      BY <1>1, <1>2, <1>6, <2>1 DEF IInv, Times, BothSent, SecondSent
  <1>7. CASE SecondAlone
    <2>1. line' = <<>> /\ msb' = Second /\ age' = 0 /\ cmd' = NoCmd
      BY <1>7, LineOfOne DEF SecondAlone, Harmless
    <2> QED
      BY <1>2, <1>7, <2>1 DEF IInv, Times, SecondAlone, Broken
  <1>8. CASE SecondSent
    <2>1. ~Late(age)
      BY <1>8 DEF IInv, Times, SecondSent, Late
    <2>2. line' = <<>> /\ msb' = NoOctet /\ cmd' = <<First, Second>>
      BY <1>8, <2>1, LineOfOne, Returns DEF SecondSent
    <2> QED
      BY <1>1, <1>2, <1>8, <2>2 DEF IInv, Times, SecondSent, Returned
  <1> QED
    BY <1>3, <1>4, <1>5, <1>6, <1>7, <1>8 DEF IInv, Idle, FirstSent, FirstHeld, Broken

LEMMA RttReadKeepsIInv == IInv /\ RttRead => IInv'
  <1> SUFFICES ASSUME IInv, RttRead PROVE IInv'
    OBVIOUS
  <1> USE TwoWireAssumption DEF RttRead, Hold, Return, tester, get
  <1>1. First' = First /\ Second' = Second
    BY DEF First, Second
  <1>2. CASE Idle
    BY <1>2, EmptyLine DEF IInv, Times, Idle
  <1>3. CASE FirstSent /\ line = <<>>
    BY <1>1, <1>3, EmptyLine DEF IInv, Times, FirstSent, Harmless
  <1>4. CASE FirstSent /\ line = <<First>>
    <2>1. line' = <<>> /\ msb' = First /\ age' = 0 /\ cmd' = NoCmd
      BY <1>4, LineOfOne DEF FirstSent, Harmless
    <2> QED
      BY <1>1, <1>4, <2>1 DEF IInv, Times, FirstSent, FirstHeld
  <1>5. CASE FirstHeld
    <2>1. ~Late(age) /\ line' = line /\ age' = age /\ cmd' = NoCmd
      BY <1>5, EmptyLine DEF IInv, Times, FirstHeld, Late
    <2> QED
      BY <1>1, <1>5, <2>1, EmptyLine, Returns DEF IInv, Times, FirstHeld
  <1>6. CASE BothSent
    <2>1. line' = <<>> /\ msb' = NoOctet /\ cmd' = <<First, Second>>
      BY <1>6, LineOfTwo, LineOfOne DEF BothSent, Harmless
    <2> QED
      BY <1>1, <1>6, <2>1 DEF IInv, Times, BothSent, Returned
  <1>7. CASE SecondAlone
    <2>1. line' = <<>> /\ msb' = Second /\ age' = 0 /\ cmd' = NoCmd
      BY <1>7, LineOfOne DEF SecondAlone, Harmless
    <2> QED
      BY <1>7, <2>1 DEF IInv, Times, SecondAlone, Broken
  <1>8. CASE SecondSent
    <2>1. line' = <<>> /\ msb' = NoOctet /\ cmd' = <<First, Second>>
      BY <1>8, LineOfOne, Returns DEF SecondSent
    <2> QED
      BY <1>1, <1>8, <2>1 DEF IInv, Times, SecondSent, Returned
  <1>9. CASE Broken
    <2>1. line' = <<>> /\ age' = age /\ cmd' = NoCmd /\ (msb' = NoOctet \/ ~Late(age))
      BY <1>9, EmptyLine DEF Broken
    <2> QED
      BY <1>9, <2>1 DEF IInv, Times, Broken, Late
  <1>10. ~Returned
    BY Returns DEF Returned
  <1> QED
    BY <1>2, <1>3, <1>4, <1>5, <1>6, <1>7, <1>8, <1>9, <1>10 DEF IInv, FirstSent

LEMMA ProcessKeepsIInv == IInv /\ DtmTrProcess => IInv'
  <1> SUFFICES ASSUME IInv, DtmTrProcess PROVE IInv'
    OBVIOUS
  <1>1. Returned
    BY DEF DtmTrProcess, IInv, Idle, FirstSent, FirstHeld, BothSent, SecondAlone, SecondSent, Broken
  <1> QED
    BY <1>1, TwoWireAssumption DEF DtmTrProcess, IInv, Times, Returned, Idle, get

LEMMA StepIInv == IInv /\ [Next]_vars => IInv'
  <1> SUFFICES ASSUME IInv, [Next]_vars PROVE IInv'
    OBVIOUS
  <1>1. CASE UNCHANGED vars
    BY <1>1 DEF vars, tester, wait, get, IInv, Times, Idle, FirstSent, FirstHeld, BothSent,
                SecondAlone, SecondSent, Broken, Returned, Harmless, Late, First, Second
  <1> QED
    BY <1>1, SendKeepsIInv, SendSecondKeepsIInv, LoseKeepsIInv, TickKeepsIInv, WaitKeepsIInv,
       UartReadKeepsIInv, RttReadKeepsIInv, ProcessKeepsIInv DEF Next

\* WholeCommands (TwoWire.tla), for every value of the constants: neither
\* dtm_tr_get makes a command of octets that do not belong together.
THEOREM CommandsAreWhole == Spec => []WholeCommands
  <1>1. IInv => WholeCommands
    BY DEF IInv, Idle, FirstSent, FirstHeld, BothSent, SecondAlone, SecondSent, Broken, Returned,
           WholeCommands, First, Second
  <1> QED
    BY InitIInv, StepIInv, <1>1, PTL DEF Spec

\* EachWaitIsOneCycle (TwoWire.tla) for every value of the constants.
THEOREM WaitsAreCycles == Spec => []EachWaitIsOneCycle
  <1>1. Init => EachWaitIsOneCycle
    BY DEF Init, EachWaitIsOneCycle
  <1>2. EachWaitIsOneCycle /\ [Next]_vars => EachWaitIsOneCycle'
    <2> SUFFICES ASSUME EachWaitIsOneCycle, [Next]_vars PROVE EachWaitIsOneCycle'
      OBVIOUS
    <2> USE DEF EachWaitIsOneCycle, wait
    <2>1. ASSUME UNCHANGED <<wait, pc>> PROVE EachWaitIsOneCycle'
      BY <2>1
    <2>2. CASE SendNew \/ SendAgain \/ SendSecond \/ Lose \/ Tick \/ RttRead \/ DtmTrProcess
               \/ UNCHANGED vars
      BY <2>1, <2>2 DEF SendNew, SendAgain, SendFirst, SendSecond, Lose, Tick, RttRead,
                        DtmTrProcess, vars
    <2>3. CASE DtmUartWait
      BY <2>3 DEF DtmUartWait
    <2>4. CASE WaitTimerHandler
      BY <2>4 DEF WaitTimerHandler, AfterShot
    <2>5. CASE SemTake
      BY <2>5 DEF SemTake
    <2>6. CASE UartRead
      BY <2>6 DEF UartRead
    <2> QED
      BY <2>2, <2>3, <2>4, <2>5, <2>6 DEF Next
  <1> QED
    BY <1>1, <1>2, PTL DEF Spec
=============================================================================
