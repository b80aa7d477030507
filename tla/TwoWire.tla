------------------------------- MODULE TwoWire -------------------------------
(***************************************************************************)
(* How the two-wire transports make commands of octets:                    *)
(* dtm_uart_twowire.c with the poll timer of dtm_uart_wait.c, and          *)
(* dtm_rtt_twowire.c.  A command is two octets; time alone tells a first   *)
(* octet from a second.  On RTT channel 0 the shell reads, too.            *)
(*                                                                         *)
(* What a command does is module CmdCore.  An octet is the command it      *)
(* belongs to and which half of it; time is in milliseconds.  Nothing in   *)
(* the repository calls dtm_tr_get and dtm_tr_process; here they alternate.*)
(***************************************************************************)
EXTENDS Naturals, Sequences

CONSTANTS
    Transports,   \* subset of {"uart", "rtt"}
    Delay,        \* DTM_UART_/DTM_RTT_SECOND_BYTE_MAX_DELAY
    Gap,          \* the device reads at least that often
    Spread,       \* the tester sends the second octet within that time
    Pause,        \* the tester sends again after that time with no answer
    MaxLost       \* bound of the model: octets lost

ASSUME TwoWireAssumption ==
    /\ Transports \subseteq {"uart", "rtt"}
    /\ Delay \in Nat /\ Gap \in Nat /\ Spread \in Nat /\ Pause \in Nat /\ MaxLost \in Nat
    /\ Spread + Gap <= Delay
    \* RTT: only a read that finds nothing forgets the first octet.
    /\ Delay + 2 * Gap < Pause

Ids == {1, 2}
None == 0
NoOctet == <<>>
Octet(id, half) == <<id, half>>

VARIABLES
    transport,   \* which transport is built in
    request,     \* tester: the command under way
    half,        \* tester: octets of it sent
    answered,    \* tester: the command before
    quiet,       \* tester: time since its last octet
    line,        \* octets sent and not yet read
    lost,        \* octets lost
    pc,          \* dtm_tr_get: "wait" before and "block" in dtm_uart_wait, "read"
    timer_on,    \* wait_timer
    wait_sem,    \* wait_sem
    msb,         \* dtm_tr_get: the first octet, once is_msb_read
    age,         \* time since msb_time
    unread,      \* time since the last read
    cmd          \* the command dtm_tr_get returned

tester == <<request, half, answered, quiet>>
wait == <<timer_on, wait_sem>>
get == <<msb, age>>
vars == <<transport, tester, line, lost, pc, wait, get, unread, cmd>>

NoCmd == <<>>
Start(t) == IF t = "uart" THEN "wait" ELSE "read"

\* dtm_tr_init has returned.
Init ==
    /\ transport \in Transports
    /\ request = None /\ half = 0 /\ answered = None /\ quiet = Pause
    /\ line = <<>> /\ lost = 0
    /\ pc = Start(transport) /\ timer_on = FALSE /\ wait_sem = 0
    /\ msb = NoOctet /\ age = 0 /\ unread = 0 /\ cmd = NoCmd

-----------------------------------------------------------------------------
(***************************************************************************)
(* The tester, the line and the time.                                      *)
(***************************************************************************)
SendFirst(id) ==
    /\ request' = id /\ half' = 1 /\ quiet' = 0
    /\ line' = Append(line, Octet(id, 1))
    /\ UNCHANGED <<transport, answered, lost, pc, wait, get, unread, cmd>>

SendNew == request = None /\ \E id \in Ids \ {answered} : SendFirst(id)
SendAgain == half = 2 /\ quiet = Pause /\ SendFirst(request)

SendSecond ==
    /\ half = 1
    /\ half' = 2 /\ quiet' = 0
    /\ line' = Append(line, Octet(request, 2))
    /\ UNCHANGED <<transport, request, answered, lost, pc, wait, get, unread, cmd>>

\* The UART overruns, or the shell takes the octet from RTT channel 0.
Lose ==
    /\ lost < MaxLost /\ line # <<>>
    /\ lost' = lost + 1 /\ line' = Tail(line)
    /\ UNCHANGED <<transport, tester, pc, wait, get, unread, cmd>>

\* Beyond the largest value it is compared with, a time does not matter.
Later(time, max) == IF time < max THEN time + 1 ELSE max
Tick ==
    /\ half = 1 => quiet < Spread
    /\ unread < Gap
    /\ quiet' = Later(quiet, Pause) /\ age' = Later(age, Delay + 1)
    /\ unread' = unread + 1
    /\ UNCHANGED <<transport, request, half, answered, line, lost, pc, wait, msb, cmd>>

-----------------------------------------------------------------------------
(***************************************************************************)
(* dtm_uart_wait: start the timer, block on the semaphore.                 *)
(***************************************************************************)
DtmUartWait ==
    /\ pc = "wait" /\ cmd = NoCmd
    /\ timer_on' = TRUE /\ pc' = "block"
    /\ UNCHANGED <<transport, tester, line, lost, wait_sem, get, unread, cmd>>

\* nrfx_timer_disable.
StillOn(on) == on               \* mutant: it goes on, to the next COMPARE0
AfterShot(on) == FALSE

WaitTimerHandler ==
    /\ timer_on
    /\ timer_on' = AfterShot(timer_on) /\ wait_sem' = 1
    /\ UNCHANGED <<transport, tester, line, lost, pc, get, unread, cmd>>

SemTake ==
    /\ pc = "block" /\ wait_sem = 1
    /\ wait_sem' = 0 /\ pc' = "read"
    /\ UNCHANGED <<transport, tester, line, lost, timer_on, get, unread, cmd>>

-----------------------------------------------------------------------------
(***************************************************************************)
(* dtm_tr_get.                                                             *)
(***************************************************************************)
NeverLate(time) == FALSE        \* mutant: no time limit
Late(time) == time > Delay
NotTaken(octet) == NoOctet      \* mutant: the late octet is dropped, too
AfterLate(octet) == octet

Hold(octet) == msb' = octet /\ age' = 0 /\ UNCHANGED cmd
Return(first, second) == cmd' = <<first, second>> /\ msb' = NoOctet /\ UNCHANGED age

\* uart_poll_in and what follows, to the next turn of the loop.
UartRead ==
    /\ transport = "uart" /\ pc = "read"
    /\ pc' = "wait" /\ unread' = 0
    /\ \/ line = <<>> /\ UNCHANGED <<line, get, cmd>>
       \/ /\ line # <<>> /\ line' = Tail(line)
          /\ \/ msb = NoOctet /\ Hold(Head(line))
             \/ msb # NoOctet /\ Late(age) /\ Hold(AfterLate(Head(line)))
             \/ msb # NoOctet /\ ~Late(age) /\ Return(msb, Head(line))
    /\ UNCHANGED <<transport, tester, lost, wait>>

\* SEGGER_RTT_Read: both octets, one, or none; the time of the second is not
\* looked at.
RttRead ==
    /\ transport = "rtt" /\ cmd = NoCmd
    /\ unread' = 0
    /\ \/ /\ line = <<>> /\ msb' = IF Late(age) THEN NoOctet ELSE msb
          /\ UNCHANGED <<line, age, cmd>>
       \/ /\ msb = NoOctet /\ Len(line) >= 2
          /\ line' = Tail(Tail(line)) /\ Return(line[1], line[2])
       \/ msb = NoOctet /\ Len(line) = 1 /\ line' = <<>> /\ Hold(line[1])
       \/ msb # NoOctet /\ line # <<>> /\ line' = Tail(line) /\ Return(msb, Head(line))
    /\ UNCHANGED <<transport, tester, lost, pc, wait>>

\* dtm_tr_process: dtm_cmd_put and the two octets of its answer.
DtmTrProcess ==
    /\ cmd # NoCmd
    /\ cmd' = NoCmd
    /\ request' = None /\ half' = 0 /\ answered' = request
    /\ UNCHANGED <<transport, quiet, line, lost, pc, wait, get, unread>>

-----------------------------------------------------------------------------
Next ==
    \/ SendNew \/ SendAgain \/ SendSecond \/ Lose \/ Tick
    \/ DtmUartWait \/ WaitTimerHandler \/ SemTake
    \/ UartRead \/ RttRead \/ DtmTrProcess

\* Time and the timer go on, the thread runs, and the tester repeats a command
\* until it is answered.
Fairness ==
    /\ WF_vars(Tick) /\ WF_vars(SendAgain) /\ WF_vars(SendSecond)
    /\ WF_vars(DtmUartWait) /\ WF_vars(WaitTimerHandler) /\ WF_vars(SemTake)
    /\ WF_vars(UartRead) /\ WF_vars(RttRead) /\ WF_vars(DtmTrProcess)

Spec == Init /\ [][Next]_vars /\ Fairness

-----------------------------------------------------------------------------
(***************************************************************************)
(* Properties.                                                             *)
(***************************************************************************)
\* Each wait of dtm_uart_wait is one poll cycle: no time-out of the timer and no
\* give of the semaphore is left over for the next (dtm_uart_wait.c:49-55).
EachWaitIsOneCycle ==
    /\ wait_sem \in 0..1
    /\ timer_on => pc = "block" /\ wait_sem = 0
    /\ wait_sem = 1 => pc = "block"

\* After an octet is lost the two sides are one octet apart.  A command made of
\* halves that do not belong together is never carried out, on either transport
\* (dtm_uart_twowire.c:774-795, dtm_rtt_twowire.c:98-139): the tester's pause
\* always separates them.
WholeCommands == cmd # NoCmd => cmd = <<Octet(request, 1), Octet(request, 2)>>

\* The two sides find together again: a command is answered in the end, however
\* many of its octets were lost before.
Answered == request # None ~> request = None
=============================================================================
