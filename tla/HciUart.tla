------------------------------- MODULE HciUart -------------------------------
(***************************************************************************)
(* The way of a packet between tester and device: src/src/transport/       *)
(* hci_uart.c with its two buffer pools, the H4 parser in the UART         *)
(* interrupt and the tx thread; the queue and the buffer handling of       *)
(* dtm_hci.c; and, on two cores, the nRF RPC layer between them,           *)
(* hci_uart_remote.c on the network core and remote_hci/src/main.c on the  *)
(* application core.                                                       *)
(*                                                                         *)
(* Octets are numbers as on the wire.  What a command does is module       *)
(* DtmHci: here it is answered by one event.  Nothing in the repository    *)
(* calls dtm_tr_get and dtm_tr_process; Serve... is the loop that would.   *)
(***************************************************************************)
EXTENDS Naturals, Sequences

CONSTANTS
    Builds,       \* subset of {"local", "remote"}: one core or two
    Shapes,       \* parameters of the commands: sequences of octets
    Others,       \* what else comes in: packets of other types, stray octets
    MaxOthers,    \* bound of the model: how many of them
    QueueCount,   \* QUEUE_COUNT: buffers of each pool
    QueueSize,    \* QUEUE_SIZE: octets in a buffer; every event fits
    MaxIqs        \* bound of the model: IQ reports made

H4_TYPE_CMD == 1
H4_TYPE_ACL == 2
H4_TYPE_EVT == 4
H4_TYPE_ISO == 5
Octets == 0..255

ASSUME UartAssumption ==
    /\ Builds \subseteq {"local", "remote"}
    /\ Shapes \subseteq Seq(Octets) /\ Others \subseteq Seq(Octets)
    /\ \A shape \in Shapes : Len(shape) <= 255      \* its length is one octet
    /\ QueueSize \in Nat /\ QueueSize >= 4          \* every header fits
    /\ QueueCount \in Nat /\ MaxOthers \in Nat /\ MaxIqs \in Nat

\* Two identities tell a command from the one before; they stand for the
\* opcode.
Ids == {10, 11}
NoId == 0
Command(id, shape) == <<H4_TYPE_CMD, id, 32, Len(shape)>> \o shape
Commands == {Command(id, shape) : id \in Ids, shape \in Shapes}

VARIABLES
    build,       \* which build runs
    request,     \* tester: the command it waits for an answer to
    answered,    \* tester: the last one it got an answer to
    others,      \* tester: packets of other types it may still send
    wire,        \* octets sent and not yet received
    rx_enabled,  \* whether the UART receives
    dma,         \* octets the UART interrupt is handing to h4_read
    h4,          \* h4_read: state, rem and the octets in its buffer
    rx_free,     \* free buffers of hci_rx_buf
    put_queue,   \* application core: dtm_put_queue
    putting,     \* application core: the buffer dtm_put_thread holds
    rpc_evts,    \* RPC events on their way to the network core
    net_free,    \* network core: free buffers of tx_buf
    astray,      \* network core: whether a type was written where it matters
    rx_queue,    \* hci_rx_queue
    serving,     \* the packet dtm_tr_process has, and where it is
    rpc_cmd,     \* the RPC command of hci_uart_write and its response
    tx_free,     \* free buffers of hci_tx_buf
    tx_queue,    \* hci_tx_queue
    uart_tx,     \* the event the UART is sending
    iqs,         \* IQ reports made
    halted       \* an assertion, a NULL pointer or a broken link

tester == <<request, answered, others>>
rx == <<dma, h4, rx_free>>
remoteVars == <<put_queue, putting, rpc_evts, net_free, astray>>
server == <<rx_queue, serving, rpc_cmd>>
tx == <<tx_free, tx_queue, uart_tx>>
vars == <<build, tester, wire, rx_enabled, rx, remoteVars, server, tx, iqs, halted>>

-----------------------------------------------------------------------------
Parser(state, rem, data) == [state |-> state, rem |-> rem, data |-> data]
None == <<>>
IqReport == 255
Serving(pc, packet) == [pc |-> pc, packet |-> packet]

\* hci_uart_init has returned.
Init ==
    /\ build \in Builds
    /\ request = NoId /\ answered = NoId /\ others = MaxOthers
    /\ wire = <<>> /\ rx_enabled = TRUE /\ dma = <<>>
    /\ h4 = Parser("TYPE", 0, <<>>)
    /\ rx_free = QueueCount /\ net_free = QueueCount /\ tx_free = QueueCount
    /\ put_queue = <<>> /\ putting = None /\ rpc_evts = <<>> /\ astray = FALSE
    /\ rx_queue = <<>> /\ serving = Serving("get", None) /\ rpc_cmd = NoId
    /\ tx_queue = <<>> /\ uart_tx = NoId
    /\ iqs = 0 /\ halted = FALSE

\* The interrupt keeps the threads of its core from running.
AppThread == dma = <<>> /\ ~halted
DtmThread == (build = "local" => dma = <<>>) /\ ~halted

-----------------------------------------------------------------------------
(***************************************************************************)
(* The tester: one command at a time, and at times something else.         *)
(***************************************************************************)
SendCommand ==
    /\ request = NoId
    /\ \E id \in Ids \ {answered}, shape \in Shapes :
          request' = id /\ wire' = wire \o Command(id, shape)
    /\ UNCHANGED <<build, answered, others, rx_enabled, rx, remoteVars, server, tx, iqs, halted>>

SendOther ==
    /\ others > 0
    /\ others' = others - 1
    /\ \E other \in Others : wire' = wire \o other
    /\ UNCHANGED <<build, request, answered, rx_enabled, rx, remoteVars, server, tx, iqs, halted>>

-----------------------------------------------------------------------------
(***************************************************************************)
(* The UART interrupt, uart_cb.                                            *)
(***************************************************************************)
\* UART_RX_RDY, after the line was quiet or a DMA buffer full: any number of
\* octets.
RxReady ==
    /\ rx_enabled /\ ~halted /\ dma = <<>>
    /\ \E n \in 1..Len(wire) :
          dma' = SubSeq(wire, 1, n) /\ wire' = SubSeq(wire, n + 1, Len(wire))
    /\ UNCHANGED <<build, tester, rx_enabled, h4, rx_free, remoteVars, server, tx, iqs, halted>>

\* UART_RX_STOPPED, UART_RX_DISABLED: a line error; it is only logged.
RxStopped ==
    /\ rx_enabled /\ ~halted /\ dma = <<>>
    /\ rx_enabled' = FALSE
    /\ UNCHANGED <<build, tester, wire, rx, remoteVars, server, tx, iqs, halted>>

HdrLen(type) == CASE type = H4_TYPE_CMD -> 3 [] type \in {H4_TYPE_ACL, H4_TYPE_ISO} -> 4
NoPld(data) == 0        \* mutant: no case for the type, as for an event
PldLen(data) ==
    IF data[1] = H4_TYPE_CMD THEN data[4] ELSE data[4] + 256 * data[5]
RxTypes == {H4_TYPE_CMD, H4_TYPE_ACL, H4_TYPE_ISO}

\* What else comes in: a whole packet, as long as Bluetooth has its header say, or
\* an octet that opens none.
DataPacket(packet) ==
    /\ Len(packet) >= 5 /\ packet[1] \in {H4_TYPE_ACL, H4_TYPE_ISO}
    /\ Len(packet) = 5 + packet[4] + 256 * packet[5]
Stray(packet) == Len(packet) = 1 /\ packet[1] \notin RxTypes
ASSUME TesterAssumption == \A other \in Others : DataPacket(other) \/ Stray(other)

\* The loop of h4_read, one turn at a time.  data holds the type, too, which
\* the code keeps in the buffer's user data.
H4Type ==
    /\ ~halted /\ dma # <<>> /\ h4.state = "TYPE"
    /\ dma' = Tail(dma)
    /\ \/ /\ Head(dma) \in RxTypes /\ rx_free > 0
          /\ rx_free' = rx_free - 1
          /\ h4' = Parser("HEADER", HdrLen(Head(dma)), <<Head(dma)>>)
          /\ UNCHANGED halted
       \/ Head(dma) \in RxTypes /\ rx_free = 0 /\ halted' = TRUE /\ UNCHANGED <<rx_free, h4>>
       \/ Head(dma) \notin RxTypes /\ UNCHANGED <<rx_free, h4, halted>>
    /\ UNCHANGED <<build, tester, wire, rx_enabled, remoteVars, server, tx, iqs>>

\* buf_read: as much as is needed, or as there is.
ReadLen(len, rem) == IF rem > len THEN len ELSE rem

\* dtm_hci_put: the queue of dtm_hci.c, or of the remote application.
Put(packet) ==
    /\ h4' = Parser("TYPE", 0, <<>>)
    /\ \/ build = "local" /\ rx_queue' = Append(rx_queue, packet) /\ UNCHANGED put_queue
       \/ build = "remote" /\ put_queue' = Append(put_queue, packet) /\ UNCHANGED rx_queue

KeepQueues == UNCHANGED <<rx_queue, put_queue>>

H4Header ==
    /\ ~halted /\ dma # <<>> /\ h4.state = "HEADER"
    /\ LET n == ReadLen(Len(dma), h4.rem)
           data == h4.data \o SubSeq(dma, 1, n)
       IN  /\ dma' = SubSeq(dma, n + 1, Len(dma))
           /\ \/ h4.rem # n /\ h4' = Parser("HEADER", h4.rem - n, data) /\ KeepQueues
              \/ h4.rem = n /\ PldLen(data) = 0 /\ Put(data)
              \/ /\ h4.rem = n /\ PldLen(data) # 0
                 /\ h4' = Parser("PAYLOAD", PldLen(data), data) /\ KeepQueues
    /\ UNCHANGED <<build, tester, wire, rx_enabled, rx_free, putting, rpc_evts, net_free, astray,
                   serving, rpc_cmd, tx, iqs, halted>>

\* net_buf_tailroom, asserted in buf_read before it copies.
Tailroom == QueueSize - (Len(h4.data) - 1)

H4Payload ==
    /\ ~halted /\ dma # <<>> /\ h4.state = "PAYLOAD"
    /\ LET n == ReadLen(Len(dma), h4.rem)
           data == h4.data \o SubSeq(dma, 1, n)
       IN  /\ Tailroom >= n
           /\ dma' = SubSeq(dma, n + 1, Len(dma))
           /\ \/ h4.rem # n /\ h4' = Parser("PAYLOAD", h4.rem - n, data) /\ KeepQueues
              \/ h4.rem = n /\ Put(data)
    /\ UNCHANGED <<build, tester, wire, rx_enabled, rx_free, putting, rpc_evts, net_free, astray,
                   serving, rpc_cmd, tx, iqs, halted>>

H4Overflow ==
    /\ ~halted /\ dma # <<>> /\ h4.state = "PAYLOAD"
    /\ Tailroom < ReadLen(Len(dma), h4.rem)
    /\ halted' = TRUE
    /\ UNCHANGED <<build, tester, wire, rx_enabled, rx, remoteVars, server, tx, iqs>>

-----------------------------------------------------------------------------
(***************************************************************************)
(* Two cores: dtm_put_thread sends the packet as an RPC event and frees    *)
(* the buffer; the network core copies it into one of its own.             *)
(***************************************************************************)
PutThreadSend ==
    /\ AppThread /\ putting = None /\ put_queue # <<>>
    /\ putting' = Head(put_queue) /\ put_queue' = Tail(put_queue)
    /\ rpc_evts' = Append(rpc_evts, Head(put_queue))
    /\ UNCHANGED <<build, tester, wire, rx_enabled, rx, net_free, astray, server, tx, iqs, halted>>

PutThreadUnref ==
    /\ AppThread /\ putting # None
    /\ putting' = None /\ rx_free' = rx_free + 1
    /\ UNCHANGED <<build, tester, wire, rx_enabled, dma, h4, put_queue, rpc_evts, net_free,
                   astray, server, tx, iqs, halted>>

\* The elements of tx_buf have no user data: the type is written into what
\* follows the element and read from there, the first word of the next one,
\* its link in a queue or in the list of free buffers.  That is harmless while
\* the next element has never been used: as long as no two packets are on this
\* core at a time and the pool's last element is not in use.
NextInUse == rx_queue # <<>> \/ serving.pc # "get" \/ net_free = 1

\* dtm_hci_put_handler; net_buf_alloc's result is not looked at.
DtmHciPutHandler ==
    /\ ~halted /\ rpc_evts # <<>>
    /\ rpc_evts' = Tail(rpc_evts)
    /\ \/ /\ net_free > 0 /\ net_free' = net_free - 1
          /\ rx_queue' = Append(rx_queue, Head(rpc_evts)) /\ UNCHANGED halted
          /\ astray' = (astray \/ NextInUse)
       \/ net_free = 0 /\ halted' = TRUE /\ UNCHANGED <<net_free, rx_queue, astray>>
    /\ UNCHANGED <<build, tester, wire, rx_enabled, rx, put_queue, putting, serving, rpc_cmd,
                   tx, iqs>>

\* Once astray, net_buf_alloc or net_buf_get may follow a link that is none.
BrokenLink ==
    /\ ~halted /\ astray
    /\ rpc_evts # <<>> \/ (serving.pc = "get" /\ rx_queue # <<>>)
    /\ halted' = TRUE
    /\ UNCHANGED <<build, tester, wire, rx_enabled, rx, remoteVars, server, tx, iqs>>

-----------------------------------------------------------------------------
(***************************************************************************)
(* hci_uart_write, on the core that has the UART: an event is queued, or   *)
(* -ENOMEM.                                                                *)
(***************************************************************************)
HciUartWriteTwice(event) ==      \* mutant: queued once more, as hci_reset's answer
    /\ tx_free > 1 /\ tx_free' = tx_free - 2 /\ tx_queue' = tx_queue \o <<event, event>>
    /\ UNCHANGED uart_tx
HciUartWrite(event) ==
    /\ \/ tx_free > 0 /\ tx_free' = tx_free - 1 /\ tx_queue' = Append(tx_queue, event)
       \/ tx_free = 0 /\ UNCHANGED <<tx_free, tx_queue>>
    /\ UNCHANGED uart_tx

\* dtm_tr_get.
ServeGet ==
    /\ DtmThread /\ serving.pc = "get" /\ rx_queue # <<>>
    /\ rx_queue' = Tail(rx_queue)
    /\ serving' = Serving("process", Head(rx_queue))
    /\ UNCHANGED <<build, tester, wire, rx_enabled, rx, remoteVars, rpc_cmd, tx, iqs, halted>>

\* dtm_tr_process of a command: hci_cmd and the answer, written here or by an
\* RPC command that is waited for.
ServeCommand ==
    /\ DtmThread /\ serving.pc = "process" /\ serving.packet[1] = H4_TYPE_CMD
    /\ \/ /\ build = "local" /\ HciUartWrite(serving.packet[2])
          /\ serving' = [serving EXCEPT !.pc = "unref"] /\ UNCHANGED rpc_cmd
       \/ /\ build = "remote" /\ rpc_cmd' = serving.packet[2]
          /\ serving' = [serving EXCEPT !.pc = "wait"] /\ UNCHANGED tx
    /\ UNCHANGED <<build, tester, wire, rx_enabled, rx, remoteVars, rx_queue, iqs, halted>>

\* hci_uart_write_handler on the application core, and its response.
HciUartWriteHandler ==
    /\ AppThread /\ rpc_cmd # NoId
    /\ HciUartWrite(rpc_cmd)
    /\ rpc_cmd' = NoId
    /\ serving' = [serving EXCEPT !.pc = "unref"]
    /\ UNCHANGED <<build, tester, wire, rx_enabled, rx, remoteVars, rx_queue, iqs, halted>>

\* net_buf_unref, after the answer.
FreeForgotten == UNCHANGED <<rx_free, net_free>>        \* mutant: no unref
Free ==
    \/ build = "local" /\ rx_free' = rx_free + 1 /\ UNCHANGED net_free
    \/ build = "remote" /\ net_free' = net_free + 1 /\ UNCHANGED rx_free
ServeUnref ==
    /\ DtmThread /\ serving.pc = "unref"
    /\ Free
    /\ serving' = Serving("get", None)
    /\ UNCHANGED <<build, tester, wire, rx_enabled, dma, h4, put_queue, putting, rpc_evts,
                   astray, rx_queue, rpc_cmd, tx, iqs, halted>>

\* A packet that is no command, or no longer: what went astray reads as a type
\* that is none, a link's lowest octet.  It is refused, and its buffer kept.
ServeOther ==
    /\ DtmThread /\ serving.pc = "process"
    /\ serving.packet[1] # H4_TYPE_CMD \/ astray
    /\ serving' = Serving("get", None)
    /\ UNCHANGED <<build, tester, wire, rx_enabled, rx, remoteVars, rx_queue, rpc_cmd, tx,
                   iqs, halted>>

\* iq_report_evt in the radio interrupt, on one core; its errors are logged.
IqReportEvt ==
    /\ build = "local" /\ ~halted /\ iqs < MaxIqs
    /\ iqs' = iqs + 1
    /\ HciUartWrite(IqReport)
    /\ UNCHANGED <<build, tester, wire, rx_enabled, rx, remoteVars, server, halted>>

-----------------------------------------------------------------------------
(***************************************************************************)
(* The tx thread and UART_TX_DONE.                                         *)
(***************************************************************************)
\* uart_tx refuses while it is sending; the thread does not look.
TxThread ==
    /\ AppThread /\ tx_queue # <<>>
    /\ tx_queue' = Tail(tx_queue)
    /\ uart_tx' = IF uart_tx = NoId THEN Head(tx_queue) ELSE uart_tx
    /\ UNCHANGED <<build, tester, wire, rx_enabled, rx, remoteVars, server, tx_free, iqs, halted>>

NotReleased(free) == free        \* mutant: the event's buffer is kept
Released(free) == free + 1

\* The last octet is out; the interrupt runs before any thread does.
TxDone ==
    /\ uart_tx # NoId /\ ~halted /\ dma = <<>>
    /\ uart_tx' = NoId /\ tx_free' = Released(tx_free)
    /\ \/ uart_tx = IqReport /\ UNCHANGED <<request, answered>>
       \/ uart_tx # IqReport /\ answered' = uart_tx /\ request' = NoId
    /\ UNCHANGED <<build, others, wire, rx_enabled, rx, remoteVars, server, tx_queue, iqs, halted>>

-----------------------------------------------------------------------------
H4Read == H4Type \/ H4Header \/ H4Payload \/ H4Overflow
Next ==
    \/ SendCommand \/ SendOther
    \/ RxReady \/ RxStopped \/ H4Read
    \/ PutThreadSend \/ PutThreadUnref \/ DtmHciPutHandler \/ BrokenLink
    \/ ServeGet \/ ServeCommand \/ HciUartWriteHandler \/ ServeUnref \/ ServeOther
    \/ IqReportEvt \/ TxThread \/ TxDone

\* Interrupts, RPC and threads go on; each thread but the idle one sleeps, so
\* none keeps another from running.  The tester need not send.
Fairness ==
    /\ WF_vars(RxReady) /\ WF_vars(H4Read)
    /\ WF_vars(PutThreadSend) /\ WF_vars(PutThreadUnref) /\ WF_vars(DtmHciPutHandler)
    /\ WF_vars(ServeGet) /\ WF_vars(ServeCommand) /\ WF_vars(ServeUnref) /\ WF_vars(ServeOther)
    /\ WF_vars(HciUartWriteHandler) /\ WF_vars(TxThread) /\ WF_vars(TxDone)

Spec == Init /\ [][Next]_vars /\ Fairness

-----------------------------------------------------------------------------
(***************************************************************************)
(* Properties.                                                             *)
(***************************************************************************)
\* The parser (hci_uart.c:114-183) cuts the stream where the tester did, however
\* the driver chops it into interrupts: what is queued or served on one core, and
\* what is handed to RPC on two, is a packet that was sent, its type included.
\* On the network core that holds while its packets come one at a time: then
\* only packets that are no command are refused.
Elements(seq) == {seq[i] : i \in 1..Len(seq)}
PacketsIntact ==
    LET Sent == Commands \cup Others
        TypeKept == build = "remote" => ~astray
    IN  /\ Elements(put_queue) \cup Elements(rpc_evts) \subseteq Sent
        /\ putting # None => putting \in Sent
        /\ TypeKept => Elements(rx_queue) \subseteq Sent
        /\ TypeKept /\ serving.pc # "get" => serving.packet \in Sent

\* Every packet that is no command keeps a buffer for ever (dtm_hci.c:768), and a
\* command's buffer is freed only after its answer is out, when the next command
\* may already come in: the allocations nobody checks (hci_uart.c:131,
\* hci_uart_remote.c:56) succeed as long as two buffers are left, no packet is
\* longer than a buffer (hci_uart.c:107) and no type went astray.
TooLong == h4.state = "PAYLOAD" /\ Tailroom < h4.rem
NeverOutOfBuffers ==
    (MaxOthers - others) + 2 <= QueueCount /\ ~TooLong /\ ~astray => ~halted

\* As long as no IQ report is made, tx_thread (hci_uart.c:243-259) never meets a
\* busy UART: every event's buffer comes back, no answer is dropped.
EventsKept ==
    iqs = 0 => tx_free + Len(tx_queue) + (IF uart_tx = NoId THEN 0 ELSE 1) = QueueCount

\* The link keeps what HciLink promises: every answer is the one to the command
\* that waits, none comes twice, and each comes in the end unless an IQ report
\* takes its place, the receiver stops, the device halts or a type went astray.
Link == INSTANCE HciLink WITH
    Ids <- Ids, NoId <- NoId, disturbed <- iqs > 0 \/ ~rx_enabled \/ halted \/ astray
ImplementsLink == Link!LinkSpec
=============================================================================
