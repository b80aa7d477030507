---------------------------- MODULE HciUartProofs ----------------------------
(***************************************************************************)
(* The HCI link keeps packets whole, does not halt while two buffers are   *)
(* left, every packet fits and no type goes astray, drops no event without *)
(* an IQ report, and answers each command at most once and with its own    *)
(* answer: for all commands, all other packets that are whole, of whatever *)
(* length, all numbers and sizes of buffers and both builds.               *)
(***************************************************************************)
EXTENDS HciUart, SequenceTheorems, TLAPS

Packets == Commands \cup Others
IsCommand(packet) == packet[1] = H4_TYPE_CMD

(***************************************************************************)
(* The octets between tester and queues, cut into the packets they are     *)
(* made of: at[i] octets stand before the i-th.                            *)
(***************************************************************************)
Stream == h4.data \o dma \o wire

CutAt(s, packets, at) ==
    /\ at[1] = 0 /\ at[Len(packets) + 1] = Len(s)
    /\ \A i, j \in 1..Len(packets) + 1 : i <= j => at[i] <= at[j]
    /\ \A i \in 1..Len(packets) :
          /\ at[i + 1] = at[i] + Len(packets[i])
          /\ \A k \in 1..Len(packets[i]) : s[at[i] + k] = packets[i][k]
Cut(s, packets) ==
    \E at \in [1..Len(packets) + 1 -> 0..Len(s)] : CutAt(s, packets, at)

\* To the parser a packet is as long as its header says.
Whole(packet) ==
    /\ Len(packet) > HdrLen(packet[1])
    /\ Len(packet) = 1 + HdrLen(packet[1]) + PldLen(packet)

\* What h4_read holds is the beginning of a packet, and rem what its header, or
\* its payload, still lacks.
Parsing ==
    \/ h4.state = "TYPE" /\ h4.data = <<>>
    \/ /\ h4.state \in {"HEADER", "PAYLOAD"} /\ h4.data # <<>> /\ h4.rem > 0
       /\ h4.data[1] \in RxTypes
       /\ h4.state = "HEADER" => Len(h4.data) + h4.rem = 1 + HdrLen(h4.data[1])
       /\ h4.state = "PAYLOAD" =>
             /\ Len(h4.data) > HdrLen(h4.data[1])
             /\ Len(h4.data) + h4.rem = 1 + HdrLen(h4.data[1]) + PldLen(h4.data)

(***************************************************************************)
(* Where the command that waits for an answer is; its answer, in the end.  *)
(***************************************************************************)
Places == {"stream", "put", "rpc", "rx", "process", "wait", "tx", "uart", "nowhere"}
AsPacket == {"stream", "put", "rpc", "rx", "process"}

\* The only command in the queue, if it is here, is the one that waits; and the
\* only answer is its own.
Carries(queue, here, id) ==
    \A i \in 1..Len(queue) : IsCommand(queue[i]) =>
       /\ here /\ queue[i][2] = id
       /\ \A j \in 1..Len(queue) : IsCommand(queue[j]) => j = i
Answers(queue, here, id) ==
    \A i \in 1..Len(queue) : queue[i] # IqReport =>
       /\ here /\ queue[i] = id
       /\ \A j \in 1..Len(queue) : queue[j] # IqReport => j = i

OneCommand(place, packets) ==
    /\ request = NoId => place = "nowhere"
    /\ ~halted => Carries(packets, place = "stream", request)
    /\ Carries(put_queue, place = "put", request)
    /\ Carries(rpc_evts, place = "rpc", request)
    /\ Carries(rx_queue, place = "rx", request)
    /\ serving.pc = "process" /\ IsCommand(serving.packet) =>
          place = "process" /\ serving.packet[2] = request
    /\ rpc_cmd # NoId => place = "wait" /\ rpc_cmd = request
    /\ Answers(tx_queue, place = "tx", request)
    /\ uart_tx \notin {NoId, IqReport} => place = "uart" /\ uart_tx = request

(***************************************************************************)
(* The buffers: every one that is not free holds a packet of its own, the  *)
(* last command, or a packet that was no command.                          *)
(***************************************************************************)
One(holds) == IF holds THEN 1 ELSE 0
Reading == One(h4.state # "TYPE")
Putting == One(putting # None)
Unref == One(serving.pc = "unref")
Kept == One(serving.pc \in {"wait", "unref"})
Packet(place) == One(place \in AsPacket)
Ahead(place) == One(place \in {"stream", "put"})
OthersSent == MaxOthers - others

LocalBuffers(place, n) ==
    n + QueueCount <= rx_free + OthersSent + Packet(place) + Reading + Unref
RemoteBuffers(place, n) ==
    /\ rx_free + Len(put_queue) + Putting + Reading = QueueCount
    /\ n + Len(put_queue) <= OthersSent + Ahead(place)
    /\ n + Len(put_queue) + Len(rpc_evts) + QueueCount <=
          net_free + OthersSent + Packet(place) + Kept
Buffers(place, n) ==
    /\ build = "local" => LocalBuffers(place, n)
    /\ build = "remote" => RemoteBuffers(place, n)

\* Events: without an IQ report only the answer uses a buffer.
Events ==
    iqs = 0 =>
       /\ uart_tx # IqReport
       /\ \A i \in 1..Len(tx_queue) : tx_queue[i] # IqReport
       /\ tx_free + Len(tx_queue) + One(uart_tx # NoId) = QueueCount

StreamTypes ==
    /\ wire \in Seq(Octets) /\ dma \in Seq(Octets)
    /\ h4 \in [state : {"TYPE", "HEADER", "PAYLOAD"}, rem : Nat, data : Seq(Octets)]
PoolTypes == rx_free \in Nat /\ net_free \in Nat /\ tx_free \in Nat
QueueTypes ==
    /\ put_queue \in Seq(Packets) /\ rpc_evts \in Seq(Packets) /\ rx_queue \in Seq(Packets)
    /\ putting \in Packets \cup {None}
ServerTypes ==
    /\ serving \in [pc : {"get", "process", "wait", "unref"}, packet : Packets \cup {None}]
    /\ serving.pc # "get" => serving.packet \in Packets
    /\ serving.pc = "wait" <=> rpc_cmd # NoId
    /\ rpc_cmd \in Ids \cup {NoId}
EventTypes == tx_queue \in Seq(Ids \cup {IqReport}) /\ uart_tx \in Ids \cup {IqReport, NoId}
OneCore == put_queue = <<>> /\ putting = None /\ rpc_evts = <<>> /\ rpc_cmd = NoId
Types ==
    /\ build \in {"local", "remote"}
    /\ request \in Ids \cup {NoId} /\ others \in 0..MaxOthers
    /\ iqs \in Nat /\ halted \in BOOLEAN /\ astray \in BOOLEAN
    /\ StreamTypes /\ PoolTypes /\ QueueTypes /\ ServerTypes /\ EventTypes
    /\ build = "local" => OneCore

\* Buffers lost to what is no command are all that can use the pools up; a
\* packet too long for its buffer and a broken link halt the device, too.
Spare == halted => OthersSent + 2 > QueueCount \/ TooLong \/ astray

Flow(place, packets) ==
    /\ OneCommand(place, packets)
    /\ ~halted => Cut(Stream, packets) /\ Parsing /\ Buffers(place, Len(packets))
IInv ==
    /\ Types /\ Events /\ Spare
    /\ \E place \in Places, packets \in Seq(Packets) : Flow(place, packets)

-----------------------------------------------------------------------------
(***************************************************************************)
(* Packets and the stream they make.                                       *)
(***************************************************************************)
LEMMA FourOctets ==
    ASSUME NEW S, NEW a \in S, NEW b \in S, NEW c \in S, NEW d \in S
    PROVE  <<a, b, c, d>> \in Seq(S) /\ Len(<<a, b, c, d>>) = 4
  OBVIOUS

LEMMA CommandFacts ==
    ASSUME NEW id \in Ids, NEW shape \in Shapes
    PROVE  /\ Command(id, shape) \in Seq(Octets) /\ Len(Command(id, shape)) = 4 + Len(shape)
           /\ Command(id, shape)[1] = H4_TYPE_CMD /\ Command(id, shape)[2] = id
           /\ Command(id, shape)[4] = Len(shape)
  <1> DEFINE head == <<H4_TYPE_CMD, id, 32, Len(shape)>>
  <1>1. shape \in Seq(Octets) /\ Len(shape) \in Octets
    <2>1. shape \in Seq(Octets) /\ Len(shape) <= 255
      BY UartAssumption
    <2>2. PICK l \in Nat : l = Len(shape)
      BY <2>1
    <2>3. l <= 255
      BY <2>1, <2>2
    <2>4. l \in Octets
      BY <2>3 DEF Octets
    <2> QED
      BY <2>1, <2>2, <2>4
  <1>2. head \in Seq(Octets) /\ Len(head) = 4
    <2>1. H4_TYPE_CMD \in Octets /\ id \in Octets /\ 32 \in Octets
      BY DEF Ids, Octets, H4_TYPE_CMD
    <2> QED
      BY <1>1, <2>1, FourOctets
  <1>3. head[1] = H4_TYPE_CMD /\ head[2] = id /\ head[4] = Len(shape)
    OBVIOUS
  <1> HIDE DEF head
  <1>4. /\ head \o shape \in Seq(Octets) /\ Len(head \o shape) = 4 + Len(shape)
        /\ (head \o shape)[1] = head[1] /\ (head \o shape)[2] = head[2]
        /\ (head \o shape)[4] = head[4]
    <2>1. /\ head \o shape \in Seq(Octets) /\ Len(head \o shape) = Len(head) + Len(shape)
          /\ \A i \in 1..Len(head) + Len(shape) : (head \o shape)[i] =
                IF i <= Len(head) THEN head[i] ELSE shape[i - Len(head)]
      BY <1>1, <1>2, ConcatProperties, Zenon
    <2>2. Len(shape) \in Nat
      BY <1>1
    <2> QED
      BY <2>1, <2>2, <1>2
  <1>5. Command(id, shape) = head \o shape
    BY DEF Command, head
  <1> QED
    BY <1>3, <1>4, <1>5

LEMMA PacketFacts ==
    ASSUME NEW packet \in Packets
    PROVE  /\ packet \in Seq(Octets) /\ Len(packet) \in Nat \ {0} /\ packet # <<>>
           /\ packet[1] \in RxTypes => Whole(packet)
           /\ packet[1] \notin RxTypes => Len(packet) = 1
           /\ IsCommand(packet) => packet[2] \in Ids
  <1>1. CASE packet \in Commands
    <2>1. PICK id \in Ids, shape \in Shapes : packet = Command(id, shape)
      BY <1>1 DEF Commands
    <2>2. packet[1] = 1 /\ packet[2] = id /\ packet[4] = Len(shape)
      BY <2>1, CommandFacts DEF H4_TYPE_CMD
    <2>3. packet \in Seq(Octets) /\ Len(packet) = 4 + Len(shape) /\ Len(shape) \in Nat
      BY <2>1, CommandFacts, UartAssumption
    <2>4. HdrLen(packet[1]) = 3 /\ PldLen(packet) = Len(shape)
      BY <2>2 DEF HdrLen, PldLen, H4_TYPE_CMD, H4_TYPE_ACL, H4_TYPE_ISO
    <2> QED
      BY <2>2, <2>3, <2>4, EmptySeq DEF Whole, RxTypes, H4_TYPE_CMD
  <1>2. CASE packet \in Others
    <2>1. packet \in Seq(Octets)
      BY <1>2, UartAssumption
    <2>2. CASE Stray(packet)
      BY <2>1, <2>2 DEF Stray, RxTypes, IsCommand
    <2>3. CASE DataPacket(packet)
      <3>1. packet[1] \in RxTypes /\ ~IsCommand(packet) /\ Len(packet) >= 5
        BY <2>3 DEF DataPacket, IsCommand, RxTypes, H4_TYPE_CMD, H4_TYPE_ACL, H4_TYPE_ISO
      <3>2. Len(packet) \in Nat /\ Len(packet) # 0 /\ packet # <<>>
        BY <3>1, <2>1, EmptySeq
      <3>3. HdrLen(packet[1]) = 4 /\ PldLen(packet) = packet[4] + 256 * packet[5]
        BY <2>3 DEF DataPacket, HdrLen, PldLen, H4_TYPE_CMD, H4_TYPE_ACL, H4_TYPE_ISO
      <3>4. packet[4] \in Octets /\ packet[5] \in Octets
        <4>1. 4 \in 1..Len(packet) /\ 5 \in 1..Len(packet)
          BY <3>1, <3>2
        <4> QED
          BY <4>1, <2>1
      <3>5. Whole(packet)
        <4>1. PICK low \in Nat, high \in Nat : low = packet[4] /\ high = packet[5]
          <5>1. Octets \subseteq Nat
            BY DEF Octets
          <5> QED
            BY <5>1, <3>4
        <4>2. Len(packet) = 5 + low + 256 * high
          BY <2>3, <4>1 DEF DataPacket
        <4>3. HdrLen(packet[1]) = 4 /\ PldLen(packet) = low + 256 * high
          BY <3>3, <4>1
        <4> QED
          BY <4>2, <4>3 DEF Whole
      <3> QED
        BY <2>1, <3>1, <3>2, <3>5
    <2> QED
      BY <1>2, <2>2, <2>3, TesterAssumption
  <1> QED
    BY <1>1, <1>2 DEF Packets

LEMMA CutNothing == Cut(<<>>, <<>>)
  <1> DEFINE at == [i \in 1..1 |-> 0]
  <1>1. CutAt(<<>>, <<>>, at) /\ at \in [1..1 -> 0..0]
    BY DEF CutAt
  <1> QED
    BY <1>1 DEF Cut

\* A packet sent stands behind all the others.
LEMMA CutAppend ==
    ASSUME NEW s \in Seq(Octets), NEW packets \in Seq(Packets), Cut(s, packets),
           NEW packet \in Packets
    PROVE  Cut(s \o packet, Append(packets, packet))
  <1>len. PICK n \in Nat : n = Len(packets)
    OBVIOUS
  <1>t. PICK t : t = s \o packet
    OBVIOUS
  <1>more. PICK more : more = Append(packets, packet)
    OBVIOUS
  <1>1. PICK at \in [1..n + 1 -> 0..Len(s)] : CutAt(s, packets, at)
    BY <1>len DEF Cut
  <1>then. PICK then : then = [i \in 1..n + 2 |-> IF i = n + 2 THEN Len(t) ELSE at[i]]
    OBVIOUS
  <1>2. packet \in Seq(Octets) /\ Len(packet) \in Nat /\ n \in Nat /\ Len(s) \in Nat
    BY PacketFacts
  <1>3. /\ t \in Seq(Octets) /\ Len(t) = Len(s) + Len(packet)
        /\ \A k \in 1..Len(s) : t[k] = s[k]
        /\ \A k \in 1..Len(packet) : t[Len(s) + k] = packet[k]
    BY <1>2, <1>t, ConcatProperties
  <1>4. /\ Len(more) = n + 1 /\ more[n + 1] = packet
        /\ \A i \in 1..n : more[i] = packets[i]
    BY <1>len, <1>more, AppendProperties
  <1>5. /\ at[1] = 0 /\ at[n + 1] = Len(s)
        /\ \A i \in 1..n + 1 : at[i] \in 0..Len(s)
        /\ \A i, j \in 1..n + 1 : i <= j => at[i] <= at[j]
        /\ \A i \in 1..n : /\ at[i + 1] = at[i] + Len(packets[i])
                           /\ \A k \in 1..Len(packets[i]) : s[at[i] + k] = packets[i][k]
    BY <1>1, <1>len DEF CutAt
  <1>6. /\ \A i \in 1..n + 1 : then[i] = at[i]
        /\ then[n + 2] = Len(t)
    BY <1>2, <1>then
  <1>7. \A i \in 1..n : Len(packets[i]) \in Nat
    <2> SUFFICES ASSUME NEW i \in 1..n PROVE Len(packets[i]) \in Nat
      OBVIOUS
    <2>1. packets[i] \in Packets
      BY <1>len, ElementOfSeq
    <2> QED
      BY <2>1, PacketFacts
  <1>8. ASSUME NEW i \in 1..n + 2 PROVE then[i] \in 0..Len(t)
    <2>1. CASE i = n + 2
      BY <2>1, <1>2, <1>3, <1>6
    <2>2. CASE i # n + 2
      <3>1. i \in 1..n + 1
        BY <2>2, <1>2
      <3>2. then[i] = at[i] /\ at[i] \in 0..Len(s)
        BY <3>1, <1>5, <1>6
      <3> QED
        BY <3>2, <1>2, <1>3
    <2> QED
      BY <2>1, <2>2
  <1>9. then[1] = 0 /\ then[n + 2] = Len(t)
    BY <1>2, <1>5, <1>6
  <1>10. ASSUME NEW i \in 1..n + 2, NEW j \in 1..n + 2, i <= j
         PROVE  then[i] <= then[j]
    <2>1. CASE j = n + 2
      BY <2>1, <1>8, <1>9
    <2>2. CASE j # n + 2
      <3>1. i \in 1..n + 1 /\ j \in 1..n + 1
        BY <2>2, <1>10, <1>2
      <3>2. then[i] = at[i] /\ then[j] = at[j] /\ at[i] <= at[j]
        BY <3>1, <1>10, <1>5, <1>6
      <3> QED
        BY <3>2
    <2> QED
      BY <2>1, <2>2
  <1>11. ASSUME NEW i \in 1..n + 1
         PROVE  /\ then[i + 1] = then[i] + Len(more[i])
                /\ \A k \in 1..Len(more[i]) : t[then[i] + k] = more[i][k]
    <2>1. CASE i = n + 1
      <3>1. i + 1 = n + 2 /\ then[i] = Len(s) /\ more[i] = packet
        BY <2>1, <1>2, <1>4, <1>5, <1>6
      <3> QED
        BY <3>1, <1>3, <1>9
    <2>2. CASE i # n + 1
      <3>1. i \in 1..n /\ i + 1 \in 1..n + 1
        BY <2>2, <1>2
      <3>2. more[i] = packets[i] /\ then[i] = at[i] /\ then[i + 1] = at[i + 1]
        BY <3>1, <1>4, <1>6
      <3>3. at[i + 1] = at[i] + Len(packets[i]) /\ at[i + 1] <= Len(s) /\ at[i] \in Nat
        BY <3>1, <1>2, <1>5
      <3>4. \A k \in 1..Len(packets[i]) : at[i] + k \in 1..Len(s)
        <4>1. PICK l \in Nat : l = Len(packets[i])
          BY <3>1, <1>7
        <4>2. PICK a \in Nat : a = at[i]
          BY <3>3
        <4>3. PICK m \in Nat : m = Len(s)
          BY <1>2
        <4>4. a + l <= m
          BY ONLY <3>3, <4>1, <4>2, <4>3
        <4>5. \A k \in 1..l : a + k \in 1..m
          BY ONLY <4>1, <4>2, <4>3, <4>4
        <4> QED
          BY ONLY <4>1, <4>2, <4>3, <4>5
      <3>5. \A k \in 1..Len(packets[i]) : s[at[i] + k] = packets[i][k]
        BY <3>1, <1>5
      <3> QED
        BY <3>2, <3>3, <3>4, <3>5, <1>3
    <2> QED
      BY <2>1, <2>2
  <1>12. Len(more) + 1 = n + 2
    BY <1>2, <1>4
  <1>13. then \in [1..n + 2 -> 0..Len(t)]
    BY <1>8, <1>then
  <1>14. CutAt(t, more, then)
    BY <1>4, <1>9, <1>10, <1>11, <1>12 DEF CutAt
  <1> QED
    BY <1>12, <1>13, <1>14, <1>more, <1>t DEF Cut

\* Octets there are begin with the first packet.
LEMMA CutFirst ==
    ASSUME NEW s \in Seq(Octets), NEW packets \in Seq(Packets), Cut(s, packets), s # <<>>
    PROVE  /\ packets # <<>> /\ Len(packets) > 0 /\ packets[1] \in Packets
           /\ Len(packets[1]) <= Len(s)
           /\ \A k \in 1..Len(packets[1]) : s[k] = packets[1][k]
  <1>1. PICK at \in [1..Len(packets) + 1 -> 0..Len(s)] : CutAt(s, packets, at)
    BY DEF Cut
  <1>2. Len(packets) \in Nat /\ Len(s) \in Nat \ {0}
    BY EmptySeq
  <1>3. Len(packets) > 0
    BY <1>1, <1>2 DEF CutAt
  <1>4. packets[1] \in Packets /\ packets # <<>> /\ Len(packets[1]) \in Nat
    BY <1>3, PacketFacts
  <1>5. /\ at[2] = Len(packets[1]) /\ at[2] <= Len(s)
        /\ \A k \in 1..Len(packets[1]) : s[0 + k] = packets[1][k]
    BY <1>1, <1>2, <1>3, <1>4 DEF CutAt
  <1> QED
    BY <1>3, <1>4, <1>5

\* A packet is taken from the front.
LEMMA CutTail ==
    ASSUME NEW s \in Seq(Octets), NEW rest \in Seq(Octets), NEW packets \in Seq(Packets),
           s # <<>>, Cut(s, packets), s = packets[1] \o rest
    PROVE  Cut(rest, Tail(packets))
  <1>first. packets # <<>> /\ Len(packets) > 0 /\ packets[1] \in Packets
    BY CutFirst, Zenon
  <1>len. PICK n \in Nat : n = Len(packets)
    OBVIOUS
  <1>m. PICK m \in Nat : m = Len(packets[1])
    BY <1>first, PacketFacts
  <1>less. PICK less : less = Tail(packets)
    OBVIOUS
  <1>1. PICK at \in [1..n + 1 -> 0..Len(s)] : CutAt(s, packets, at)
    BY <1>len DEF Cut
  <1>then. PICK then : then = [i \in 1..n |-> at[i + 1] - m]
    OBVIOUS
  <1>2. n > 0 /\ packets[1] \in Seq(Octets) /\ Len(rest) \in Nat
    BY <1>first, <1>len, PacketFacts
  <1>3. /\ Len(s) = m + Len(rest)
        /\ \A k \in 1..Len(rest) : s[m + k] = rest[k]
    BY <1>2, <1>m, ConcatProperties
  <1>4. /\ less \in Seq(Packets) /\ Len(less) = n - 1
        /\ \A i \in 1..n - 1 : less[i] = packets[i + 1]
    BY <1>first, <1>len, <1>less, HeadTailProperties
  <1>5. /\ at[1] = 0 /\ at[n + 1] = Len(s)
        /\ \A i \in 1..n + 1 : at[i] \in 0..Len(s)
        /\ \A i, j \in 1..n + 1 : i <= j => at[i] <= at[j]
        /\ \A i \in 1..n : /\ at[i + 1] = at[i] + Len(packets[i])
                           /\ \A k \in 1..Len(packets[i]) : s[at[i] + k] = packets[i][k]
    BY <1>1, <1>len DEF CutAt
  <1>6. \A i \in 1..n : then[i] = at[i + 1] - m
    BY <1>then
  <1>7. \A i \in 1..n - 1 : Len(less[i]) \in Nat
    <2> SUFFICES ASSUME NEW i \in 1..n - 1 PROVE Len(less[i]) \in Nat
      OBVIOUS
    <2>1. less[i] \in Packets
      BY <1>4, ElementOfSeq
    <2> QED
      BY <2>1, PacketFacts
  <1>8. at[2] = m
    <2>1. 1 \in 1..n /\ at[1 + 1] = at[1] + Len(packets[1])
      BY <1>2, <1>5
    <2> QED
      BY <2>1, <1>m, <1>5
  <1>9. \A i \in 1..n : at[i + 1] >= m /\ at[i + 1] \in 0..Len(s)
    BY <1>2, <1>5, <1>8
  <1>10. then \in [1..n -> 0..Len(rest)]
    <2>1. ASSUME NEW i \in 1..n PROVE then[i] \in 0..Len(rest)
      <3>1. then[i] = at[i + 1] - m /\ at[i + 1] >= m /\ at[i + 1] \in 0..Len(s)
        BY <1>6, <1>9
      <3> QED
        BY <3>1, <1>2, <1>3
    <2> QED
      BY <2>1, <1>then
  <1>11. then[1] = 0 /\ then[n] = Len(rest)
    BY <1>2, <1>3, <1>5, <1>6, <1>8
  <1>12. \A i, j \in 1..n : i <= j => then[i] <= then[j]
    BY <1>2, <1>5, <1>6, <1>9
  <1>13. ASSUME NEW i \in 1..n - 1
         PROVE  /\ then[i + 1] = then[i] + Len(less[i])
                /\ \A k \in 1..Len(less[i]) : rest[then[i] + k] = less[i][k]
    <2>1. less[i] = packets[i + 1] /\ i + 1 \in 1..n /\ i \in 1..n
      <3>1. i + 1 \in 1..n /\ i \in 1..n
        OBVIOUS
      <3> QED
        BY <3>1, <1>4
    <2>2. /\ at[i + 1 + 1] = at[i + 1] + Len(less[i])
          /\ \A k \in 1..Len(less[i]) : s[at[i + 1] + k] = less[i][k]
      BY <2>1, <1>5
    <2>3. then[i] = at[i + 1] - m /\ then[i + 1] = at[i + 1 + 1] - m
      BY <2>1, <1>6
    <2>4. at[i + 1 + 1] \in 0..Len(s) /\ at[i + 1] \in Nat /\ at[i + 1] >= m
      BY <2>1, <1>9, <1>2
    <2>5. Len(less[i]) \in Nat
      BY <1>7
    <2>6. \A k \in 1..Len(less[i]) :
             then[i] + k \in 1..Len(rest) /\ m + (then[i] + k) = at[i + 1] + k
      <3>1. PICK l \in Nat : l = Len(less[i])
        BY <2>5
      <3>2. PICK a \in Nat : a = at[i + 1]
        BY <2>4
      <3>3. PICK b \in Nat : b = then[i]
        BY <2>3, <2>4
      <3>4. a + l <= m + Len(rest) /\ m + b = a
        BY <3>1, <3>2, <3>3, <2>2, <2>3, <2>4, <1>3
      <3>5. \A k \in 1..l : b + k \in 1..Len(rest) /\ m + (b + k) = a + k
        BY <3>4, <1>2
      <3> QED
        BY <3>1, <3>2, <3>3, <3>5
    <2>7. \A k \in 1..Len(less[i]) : rest[then[i] + k] = less[i][k]
      BY <2>2, <2>6, <1>3
    <2>8. then[i + 1] = then[i] + Len(less[i])
      <3>1. PICK a \in Nat : a = at[i + 1]
        BY <2>4
      <3>2. PICK l \in Nat : l = Len(less[i])
        BY <2>5
      <3>3. then[i] = a - m /\ then[i + 1] = (a + l) - m
        BY <3>1, <3>2, <2>2, <2>3
      <3>4. (a + l) - m = (a - m) + l
        OBVIOUS
      <3> QED
        BY <3>2, <3>3, <3>4
    <2> QED
      BY <2>7, <2>8
  <1>14. Len(less) + 1 = n
    BY <1>2, <1>4
  <1>15. CutAt(rest, less, then)
    BY <1>4, <1>11, <1>12, <1>13, <1>14 DEF CutAt
  <1> QED
    BY <1>10, <1>14, <1>15, <1>less DEF Cut

-----------------------------------------------------------------------------
(***************************************************************************)
(* Sequences: octets handed on, commands and answers in queues.            *)
(***************************************************************************)
LEMMA FrontAndRest ==
    ASSUME NEW S, NEW s \in Seq(S), NEW n \in 0..Len(s)
    PROVE  /\ SubSeq(s, 1, n) \in Seq(S) /\ Len(SubSeq(s, 1, n)) = n
           /\ SubSeq(s, n + 1, Len(s)) \in Seq(S)
           /\ SubSeq(s, 1, n) \o SubSeq(s, n + 1, Len(s)) = s
  <1>1. Len(s) \in Nat /\ n \in Nat
    OBVIOUS
  <1>2. SubSeq(s, 1, n) \o SubSeq(s, n + 1, Len(s)) = SubSeq(s, 1, Len(s))
    <2>1. 1 \in 1..Len(s) + 1 /\ n \in 1 - 1..Len(s) /\ Len(s) \in n..Len(s)
      BY <1>1
    <2> QED
      BY <2>1, ConcatAdjacentSubSeq, Zenon
  <1>3. SubSeq(s, 1, Len(s)) = s
    BY SubSeqFull
  <1>4. SubSeq(s, 1, n) \in Seq(S) /\ Len(SubSeq(s, 1, n)) = n
    BY <1>1, SubSeqProperties
  <1>5. SubSeq(s, n + 1, Len(s)) \in Seq(S)
    BY <1>1, SubSeqProperties
  <1> QED
    BY <1>2, <1>3, <1>4, <1>5

\* Octets that move from dma to the parser stay where they are in the stream.
LEMMA HandedOn ==
    ASSUME NEW a \in Seq(Octets), NEW b \in Seq(Octets), NEW c \in Seq(Octets),
           NEW n \in 0..Len(b)
    PROVE  /\ (a \o SubSeq(b, 1, n)) \o SubSeq(b, n + 1, Len(b)) \o c = a \o b \o c
           /\ a \o SubSeq(b, 1, n) \in Seq(Octets)
           /\ Len(a \o SubSeq(b, 1, n)) = Len(a) + n
           /\ \A i \in 1..Len(a) : (a \o SubSeq(b, 1, n))[i] = a[i]
           /\ SubSeq(b, n + 1, Len(b)) \in Seq(Octets)
  <1>1. PICK front \in Seq(Octets) : front = SubSeq(b, 1, n) /\ Len(front) = n
    BY FrontAndRest
  <1>2. PICK rest \in Seq(Octets) : rest = SubSeq(b, n + 1, Len(b))
    BY FrontAndRest
  <1>3. front \o rest = b
    <2>1. SubSeq(b, 1, n) \o SubSeq(b, n + 1, Len(b)) = b
      BY FrontAndRest
    <2> QED
      BY <2>1, <1>1, <1>2
  <1>4. (a \o front) \o rest = a \o (front \o rest)
    BY ConcatAssociative
  <1>5. /\ a \o front \in Seq(Octets) /\ Len(a \o front) = Len(a) + n
        /\ \A i \in 1..Len(a) : (a \o front)[i] = a[i]
    BY <1>1, ConcatProperties
  <1> QED
    BY <1>1, <1>2, <1>3, <1>4, <1>5

\* n octets of b are handed on to a, with c behind them.
Begins(d, a) == \A i \in 1..Len(a) : d[i] = a[i]
Handed(a, b, c, n, d, rest) ==
    /\ d = a \o SubSeq(b, 1, n) /\ rest = SubSeq(b, n + 1, Len(b))
    /\ Len(d) = Len(a) + n /\ Begins(d, a)
    /\ d \o rest \o c = a \o b \o c
LEMMA HandedTo ==
    ASSUME NEW a \in Seq(Octets), NEW b \in Seq(Octets), NEW c \in Seq(Octets),
           NEW n \in 0..Len(b)
    PROVE  \E d, rest \in Seq(Octets) : Handed(a, b, c, n, d, rest)
  <1>1. a \o SubSeq(b, 1, n) \in Seq(Octets) /\ SubSeq(b, n + 1, Len(b)) \in Seq(Octets)
    BY HandedOn, Zenon
  <1>2. Len(a \o SubSeq(b, 1, n)) = Len(a) + n
    BY HandedOn, Zenon
  <1>3. (a \o SubSeq(b, 1, n)) \o SubSeq(b, n + 1, Len(b)) \o c = a \o b \o c
    BY HandedOn, Zenon
  <1>4. ASSUME NEW i \in 1..Len(a) PROVE (a \o SubSeq(b, 1, n))[i] = a[i]
    BY HandedOn
  <1>5. Begins(a \o SubSeq(b, 1, n), a)
    BY <1>4 DEF Begins
  <1> QED
    BY <1>1, <1>2, <1>3, <1>5, Zenon DEF Handed

LEMMA HeadTailIsAll ==
    ASSUME NEW S, NEW s \in Seq(S), s # <<>>
    PROVE  s = <<Head(s)>> \o Tail(s)
  <1>1. 1 \in 1..Len(s) /\ Len(s) \in 1..Len(s) /\ Head(s) = s[1]
    BY EmptySeq
  <1>2. SubSeq(s, 1, Len(s)) = <<s[1]>> \o SubSeq(s, 1 + 1, Len(s))
    BY <1>1, SubSeqRecursiveFirst, Zenon
  <1> QED
    BY <1>1, <1>2, SubSeqFull, TailIsSubSeq

LEMMA HeadTailConcat ==
    ASSUME NEW S, NEW s \in Seq(S), NEW t \in Seq(S), s # <<>>
    PROVE  Head(s \o t) = Head(s) /\ Tail(s \o t) = Tail(s) \o t
  <1>1. PICK a \in S : a = Head(s)
    BY HeadTailProperties
  <1>2. PICK tail \in Seq(S) : tail = Tail(s)
    BY HeadTailProperties
  <1>3. PICK u \in Seq(S) : u = tail \o t
    BY ConcatProperties
  <1>4. s \o t = <<a>> \o u
    <2>1. s = <<a>> \o tail /\ <<a>> \in Seq(S)
      BY <1>1, <1>2, HeadTailIsAll
    <2>2. (<<a>> \o tail) \o t = <<a>> \o (tail \o t)
      BY <2>1, ConcatAssociative
    <2> QED
      BY <2>1, <2>2, <1>3
  <1>5. PICK v \in Seq(S) : v = <<a>> \o u
    <2>1. <<a>> \in Seq(S)
      OBVIOUS
    <2> QED
      BY <2>1, ConcatProperties
  <1>6. Len(v) = 1 + Len(u) /\ v[1] = a /\ \A i \in 1..Len(u) : v[i + 1] = u[i]
    BY <1>5, ConcatProperties
  <1>7. v # <<>> /\ Len(u) \in Nat
    BY <1>6, EmptySeq
  <1>8. Head(v) = a /\ Tail(v) \in Seq(S) /\ Len(Tail(v)) = Len(u)
    BY <1>6, <1>7, HeadTailProperties
  <1>9. \A i \in 1..Len(u) : Tail(v)[i] = u[i]
    BY <1>6, <1>7, <1>8, HeadTailProperties
  <1>10. Tail(v) = u
    BY <1>8, <1>9, SeqEqual
  <1> QED
    BY <1>1, <1>2, <1>3, <1>4, <1>5, <1>8, <1>10

LEMMA CarriesTail ==
    ASSUME NEW queue \in Seq(Packets), queue # <<>>, NEW here, NEW id,
           Carries(queue, here, id)
    PROVE  /\ Carries(Tail(queue), here, id)
           /\ IsCommand(Head(queue)) =>
                 here /\ Head(queue)[2] = id /\ Carries(Tail(queue), FALSE, id)
  <1>1. Len(queue) \in Nat /\ Len(queue) > 0 /\ Head(queue) = queue[1]
    BY EmptySeq
  <1>2. PICK tail : tail = Tail(queue)
    OBVIOUS
  <1>3. Len(tail) = Len(queue) - 1 /\ \A i \in 1..Len(tail) : tail[i] = queue[i + 1]
    BY <1>2, HeadTailProperties
  <1>4. \A i \in 1..Len(tail) : i + 1 \in 1..Len(queue) /\ i + 1 # 1
    BY <1>1, <1>3
  <1>5. ASSUME NEW i \in 1..Len(tail), IsCommand(tail[i])
        PROVE  /\ here /\ tail[i][2] = id
               /\ \A j \in 1..Len(tail) : IsCommand(tail[j]) => j = i
               /\ ~IsCommand(queue[1])
    <2>1. IsCommand(queue[i + 1]) /\ i + 1 \in 1..Len(queue)
      BY <1>3, <1>4, <1>5
    <2>2. here /\ tail[i][2] = id
      BY <2>1, <1>3 DEF Carries
    <2>3. \A j \in 1..Len(queue) : IsCommand(queue[j]) => j = i + 1
      BY <2>1 DEF Carries
    <2>4. ~IsCommand(queue[1])
      BY <2>3, <1>1
    <2>5. ASSUME NEW j \in 1..Len(tail), IsCommand(tail[j]) PROVE j = i
      <3>1. j + 1 = i + 1
        BY <2>3, <2>5, <1>3, <1>4
      <3> QED
        BY <3>1, <1>1, <1>3
    <2> QED
      BY <2>2, <2>4, <2>5
  <1>6. Carries(tail, here, id)
    BY <1>5 DEF Carries
  <1>7. IsCommand(queue[1]) => here /\ queue[1][2] = id /\ Carries(tail, FALSE, id)
    BY <1>1, <1>5 DEF Carries
  <1> QED
    BY <1>1, <1>2, <1>6, <1>7

LEMMA CarriesAppend ==
    ASSUME NEW queue \in Seq(Packets), NEW packet \in Packets, NEW here, NEW id, NEW there,
           Carries(queue, here, id), here => there,
           IsCommand(packet) => ~here /\ there /\ packet[2] = id
    PROVE  Carries(Append(queue, packet), there, id)
  <1>1. PICK n \in Nat : n = Len(queue)
    OBVIOUS
  <1>2. PICK more : more = Append(queue, packet)
    OBVIOUS
  <1>3. /\ Len(more) = n + 1 /\ more[n + 1] = packet
        /\ \A i \in 1..n : more[i] = queue[i]
    BY <1>1, <1>2, AppendProperties
  <1>4. \A i \in 1..n : IsCommand(more[i]) =>
           /\ here /\ more[i][2] = id
           /\ \A j \in 1..n : IsCommand(more[j]) => j = i
    BY <1>1, <1>3 DEF Carries
  <1>5. \A i \in 1..n + 1 : i \in 1..n \/ i = n + 1
    OBVIOUS
  <1>6. ASSUME NEW i \in 1..n + 1, IsCommand(more[i])
        PROVE  /\ there /\ more[i][2] = id
               /\ \A j \in 1..n + 1 : IsCommand(more[j]) => j = i
    BY <1>3, <1>4, <1>5, <1>6
  <1> QED
    BY <1>2, <1>3, <1>6 DEF Carries

LEMMA AnswersTail ==
    ASSUME NEW S, NEW queue \in Seq(S), queue # <<>>, NEW here, NEW id,
           Answers(queue, here, id)
    PROVE  /\ Answers(Tail(queue), here, id)
           /\ Head(queue) # IqReport => here /\ Head(queue) = id /\ Answers(Tail(queue), FALSE, id)
  <1>1. Len(queue) \in Nat /\ Len(queue) > 0 /\ Head(queue) = queue[1]
    BY EmptySeq
  <1>2. PICK tail : tail = Tail(queue)
    OBVIOUS
  <1>3. Len(tail) = Len(queue) - 1 /\ \A i \in 1..Len(tail) : tail[i] = queue[i + 1]
    BY <1>2, HeadTailProperties
  <1>4. \A i \in 1..Len(tail) : i + 1 \in 1..Len(queue) /\ i + 1 # 1
    BY <1>1, <1>3
  <1>5. ASSUME NEW i \in 1..Len(tail), tail[i] # IqReport
        PROVE  /\ here /\ tail[i] = id
               /\ \A j \in 1..Len(tail) : tail[j] # IqReport => j = i
               /\ queue[1] = IqReport
    <2>1. queue[i + 1] # IqReport /\ i + 1 \in 1..Len(queue)
      BY <1>3, <1>4, <1>5
    <2>2. here /\ tail[i] = id
      BY <2>1, <1>3 DEF Answers
    <2>3. \A j \in 1..Len(queue) : queue[j] # IqReport => j = i + 1
      BY <2>1 DEF Answers
    <2>4. queue[1] = IqReport
      BY <2>3, <1>1
    <2>5. ASSUME NEW j \in 1..Len(tail), tail[j] # IqReport PROVE j = i
      <3>1. j + 1 = i + 1
        BY <2>3, <2>5, <1>3, <1>4
      <3> QED
        BY <3>1, <1>1, <1>3
    <2> QED
      BY <2>2, <2>4, <2>5
  <1>6. Answers(tail, here, id)
    BY <1>5 DEF Answers
  <1>7. queue[1] # IqReport => here /\ queue[1] = id /\ Answers(tail, FALSE, id)
    BY <1>1, <1>5 DEF Answers
  <1> QED
    BY <1>1, <1>2, <1>6, <1>7

LEMMA AnswersAppend ==
    ASSUME NEW S, NEW queue \in Seq(S), NEW event \in S, NEW here, NEW id, NEW there,
           Answers(queue, here, id), here => there,
           event # IqReport => ~here /\ there /\ event = id
    PROVE  Answers(Append(queue, event), there, id)
  <1>1. PICK n \in Nat : n = Len(queue)
    OBVIOUS
  <1>2. PICK more : more = Append(queue, event)
    OBVIOUS
  <1>3. /\ Len(more) = n + 1 /\ more[n + 1] = event
        /\ \A i \in 1..n : more[i] = queue[i]
    BY <1>1, <1>2, AppendProperties
  <1>4. \A i \in 1..n : more[i] # IqReport =>
           /\ here /\ more[i] = id
           /\ \A j \in 1..n : more[j] # IqReport => j = i
    BY <1>1, <1>3 DEF Answers
  <1>5. \A i \in 1..n + 1 : i \in 1..n \/ i = n + 1
    OBVIOUS
  <1>6. ASSUME NEW i \in 1..n + 1, more[i] # IqReport
        PROVE  /\ there /\ more[i] = id
               /\ \A j \in 1..n + 1 : more[j] # IqReport => j = i
    BY <1>3, <1>4, <1>5, <1>6
  <1> QED
    BY <1>2, <1>3, <1>6 DEF Answers

-----------------------------------------------------------------------------
(***************************************************************************)
(* The parser: what it holds when nothing is lacking is the first packet.  *)
(***************************************************************************)
LEMMA HdrLenIs ==
    /\ HdrLen(H4_TYPE_CMD) = 3 /\ HdrLen(H4_TYPE_ACL) = 4 /\ HdrLen(H4_TYPE_ISO) = 4
    /\ \A type \in RxTypes : HdrLen(type) \in {3, 4}
  BY DEF HdrLen, RxTypes, H4_TYPE_CMD, H4_TYPE_ACL, H4_TYPE_ISO

LEMMA PldLenIs ==
    ASSUME NEW d \in Seq(Octets), d[1] \in RxTypes, Len(d) > HdrLen(d[1])
    PROVE  PldLen(d) \in Nat
  <1>1. CASE d[1] = H4_TYPE_CMD
    <2>1. Len(d) \in Nat /\ Len(d) > 3
      BY <1>1, HdrLenIs
    <2>2. PICK a \in Octets : a = d[4]
      BY <2>1, ElementOfSeq
    <2>3. a \in Nat
      BY DEF Octets
    <2> QED
      BY <1>1, <2>2, <2>3 DEF PldLen
  <1>2. CASE d[1] # H4_TYPE_CMD
    <2>1. Len(d) \in Nat /\ Len(d) > 4
      BY <1>2, HdrLenIs DEF RxTypes
    <2>2. PICK a \in Octets : a = d[4]
      BY <2>1, ElementOfSeq
    <2>3. PICK b \in Octets : b = d[5]
      BY <2>1, ElementOfSeq
    <2>4. a + 256 * b \in Nat
      BY DEF Octets
    <2> QED
      BY <1>2, <2>2, <2>3, <2>4 DEF PldLen
  <1> QED
    BY <1>1, <1>2

LEMMA SameHeader ==
    ASSUME NEW d, NEW e, d[1] \in RxTypes,
           \A i \in 1..1 + HdrLen(d[1]) : d[i] = e[i]
    PROVE  PldLen(d) = PldLen(e)
  <1>1. d[1] = e[1] /\ d[4] = e[4]
    BY HdrLenIs
  <1>2. d[1] # H4_TYPE_CMD => d[5] = e[5]
    BY HdrLenIs DEF RxTypes
  <1> QED
    BY <1>1, <1>2 DEF PldLen

LEMMA WholePacket ==
    ASSUME NEW d \in Seq(Octets), NEW rest \in Seq(Octets), NEW packets \in Seq(Packets),
           Cut(d \o rest, packets), d # <<>>, d[1] \in RxTypes, Whole(d)
    PROVE  packets # <<>> /\ d = packets[1]
  <1>1. PICK s \in Seq(Octets) : s = d \o rest
    BY ConcatProperties
  <1>2. /\ Len(d) \in Nat /\ Len(rest) \in Nat /\ Len(d) > 0 /\ Len(s) = Len(d) + Len(rest)
        /\ \A i \in 1..Len(d) : s[i] = d[i]
    BY <1>1, EmptySeq, ConcatProperties
  <1>3. s # <<>>
    BY <1>2, EmptySeq
  <1>4. /\ packets # <<>> /\ packets[1] \in Packets
        /\ \A k \in 1..Len(packets[1]) : s[k] = packets[1][k]
    BY <1>1, <1>3, CutFirst
  <1>5. PICK p \in Packets : p = packets[1]
    BY <1>4
  <1>6. p \in Seq(Octets) /\ Len(p) \in Nat /\ Len(p) > 0
    BY PacketFacts
  <1>7. p[1] = d[1]
    BY <1>2, <1>4, <1>5, <1>6
  <1>8. Whole(p)
    BY <1>7, PacketFacts
  <1>9. PICK h \in Nat : h = HdrLen(d[1])
    BY HdrLenIs
  <1>10. Len(d) > h /\ Len(p) > h
    BY <1>7, <1>8, <1>9 DEF Whole
  <1>11. ASSUME NEW i \in 1..1 + h PROVE d[i] = p[i]
    <2>1. i \in 1..Len(d) /\ i \in 1..Len(p)
      BY <1>2, <1>6, <1>10
    <2>2. s[i] = d[i] /\ s[i] = p[i]
      BY <2>1, <1>2, <1>4, <1>5
    <2> QED
      BY <2>2
  <1>12. PldLen(d) = PldLen(p)
    BY <1>9, <1>11, SameHeader
  <1>13. Len(d) = Len(p)
    BY <1>7, <1>8, <1>12 DEF Whole
  <1>14. \A i \in 1..Len(d) : d[i] = p[i]
    BY <1>2, <1>4, <1>5, <1>13
  <1>15. d = p
    BY <1>6, <1>13, <1>14, SeqEqual
  <1> QED
    BY <1>4, <1>5, <1>15

LEMMA StrayOctet ==
    ASSUME NEW s \in Seq(Octets), NEW packets \in Seq(Packets), Cut(s, packets), s # <<>>,
           Head(s) \notin RxTypes
    PROVE  packets # <<>> /\ s = packets[1] \o Tail(s)
  <1>1. /\ packets # <<>> /\ packets[1] \in Packets
        /\ \A k \in 1..Len(packets[1]) : s[k] = packets[1][k]
    BY CutFirst
  <1>2. PICK p \in Packets : p = packets[1]
    BY <1>1
  <1>3. p \in Seq(Octets) /\ Len(p) \in Nat \ {0}
    BY PacketFacts
  <1>4. p[1] = Head(s) /\ Len(s) \in Nat \ {0}
    BY <1>1, <1>2, <1>3, EmptySeq
  <1>5. Len(p) = 1
    BY <1>4, PacketFacts
  <1>6. PICK t \in Seq(Octets) : t = p \o Tail(s)
    BY <1>3, HeadTailProperties, ConcatProperties
  <1>7. /\ Len(t) = Len(s)
        /\ \A i \in 1..Len(s) : t[i] = IF i <= 1 THEN p[i] ELSE Tail(s)[i - 1]
    <2>1. Tail(s) \in Seq(Octets) /\ Len(Tail(s)) = Len(s) - 1
      BY HeadTailProperties
    <2>2. /\ Len(t) = Len(p) + Len(Tail(s))
          /\ \A i \in 1..Len(p) + Len(Tail(s)) :
                t[i] = IF i <= Len(p) THEN p[i] ELSE Tail(s)[i - Len(p)]
      BY <1>3, <1>6, <2>1, ConcatProperties
    <2> QED
      BY <2>1, <2>2, <1>4, <1>5
  <1>8. ASSUME NEW i \in 1..Len(s) PROVE t[i] = s[i]
    <2>1. CASE i = 1
      BY <2>1, <1>4, <1>7
    <2>2. CASE i # 1
      <3>1. i - 1 \in 1..Len(Tail(s)) /\ (i - 1) + 1 = i
        BY <2>2, <1>4, HeadTailProperties
      <3>2. Tail(s)[i - 1] = s[(i - 1) + 1]
        BY <3>1, HeadTailProperties
      <3> QED
        BY <2>2, <3>1, <3>2, <1>7
    <2> QED
      BY <2>1, <2>2
  <1>9. t = s
    BY <1>7, <1>8, SeqEqual
  <1> QED
    BY <1>1, <1>2, <1>6, <1>9

-----------------------------------------------------------------------------
(***************************************************************************)
(* The steps.                                                              *)
(***************************************************************************)
LEMMA Counts ==
    /\ Reading \in 0..1 /\ Putting \in 0..1 /\ Unref \in 0..1 /\ Kept \in 0..1
    /\ \A place \in Places : Packet(place) \in 0..1 /\ Ahead(place) \in 0..1
  BY DEF Reading, Putting, Unref, Kept, Packet, Ahead, One

LEMMA Numbers ==
    ASSUME Types
    PROVE  /\ rx_free \in Nat /\ net_free \in Nat /\ tx_free \in Nat /\ QueueCount \in Nat
           /\ Len(put_queue) \in Nat /\ Len(rpc_evts) \in Nat /\ OthersSent \in Nat
  BY UartAssumption DEF Types, PoolTypes, QueueTypes, OthersSent

LEMMA InitIInv == Init => IInv
  <1> SUFFICES ASSUME Init PROVE IInv
    OBVIOUS
  <1> USE UartAssumption DEF Init
  <1>1. Types
    <2>1. StreamTypes
      BY DEF StreamTypes, Parser
    <2>2. PoolTypes /\ QueueTypes /\ OneCore
      BY DEF PoolTypes, QueueTypes, OneCore
    <2>3. ServerTypes /\ EventTypes
      BY DEF ServerTypes, EventTypes, Serving
    <2>4. others \in 0..MaxOthers /\ iqs \in Nat
      OBVIOUS
    <2> QED
      BY <2>1, <2>2, <2>3, <2>4 DEF Types
  <1>2. Events /\ Spare
    BY DEF Events, Spare, One, IqReport, NoId
  <1>3. Stream = <<>>
    BY DEF Init, Stream, Parser
  <1>4. OneCommand("nowhere", <<>>)
    BY DEF OneCommand, Carries, Answers, Serving
  <1>5. Cut(Stream, <<>>) /\ Parsing
    BY <1>3, CutNothing DEF Parsing, Parser
  <1>6. Buffers("nowhere", 0) /\ Len(<<>>) = 0
    <2>1. Reading = 0 /\ Putting = 0 /\ Unref = 0 /\ Kept = 0
      BY DEF Reading, Putting, Unref, Kept, One, Parser, Serving
    <2>2. Packet("nowhere") = 0 /\ Ahead("nowhere") = 0
      BY DEF Packet, Ahead, One, AsPacket
    <2>3. OthersSent = 0
      BY DEF OthersSent
    <2> QED
      BY <2>1, <2>2, <2>3 DEF Buffers, LocalBuffers, RemoteBuffers
  <1>7. "nowhere" \in Places /\ <<>> \in Seq(Packets)
    BY DEF Places
  <1> QED
    BY <1>1, <1>2, <1>4, <1>5, <1>6, <1>7 DEF IInv, Flow

counters ==
    <<build, rx_free, net_free, put_queue, rpc_evts, OthersSent, Reading, Putting, Unref, Kept>>
LEMMA BuffersKept ==
    ASSUME Types, NEW place \in Places, NEW n \in Nat, Buffers(place, n),
           NEW m \in Nat, m <= n, UNCHANGED counters
    PROVE  Buffers(place, m)'
  <1>1. /\ Reading \in 0..1 /\ Putting \in 0..1 /\ Unref \in 0..1 /\ Kept \in 0..1
        /\ Packet(place) \in 0..1 /\ Ahead(place) \in 0..1
    BY Counts
  <1>2. /\ rx_free \in Nat /\ net_free \in Nat /\ QueueCount \in Nat
        /\ Len(put_queue) \in Nat /\ Len(rpc_evts) \in Nat /\ OthersSent \in Nat
    BY Numbers
  <1>3. build = "local" => LocalBuffers(place, m)'
    BY <1>1, <1>2 DEF counters, Buffers, LocalBuffers
  <1>4. build = "remote" => RemoteBuffers(place, m)'
    BY <1>1, <1>2 DEF counters, Buffers, RemoteBuffers
  <1> QED
    BY <1>3, <1>4 DEF Buffers, counters

LEMMA Joined ==
    ASSUME NEW a \in Seq(Octets), NEW b \in Seq(Octets), NEW c \in Seq(Octets)
    PROVE  /\ b \o c \in Seq(Octets) /\ a \o b \o c \in Seq(Octets)
           /\ a \o b \o c = a \o (b \o c) /\ <<>> \o b \o c = b \o c
           /\ b # <<>> => b \o c # <<>>
  <1>1. PICK d \in Seq(Octets) : d = b \o c
    BY ConcatProperties
  <1>2. a \o b \o c = a \o d
    BY <1>1, ConcatAssociative
  <1>3. a \o d \in Seq(Octets)
    BY ConcatProperties
  <1>4. <<>> \o b \o c = d
    BY <1>1, ConcatEmptySeq
  <1>5. b # <<>> => d # <<>>
    BY <1>1, ConcatEqualIffEmpty
  <1> QED
    BY <1>1, <1>2, <1>3, <1>4, <1>5

LEMMA H4TypeKeeps == IInv /\ H4Type => IInv'
  <1> SUFFICES ASSUME IInv, H4Type PROVE IInv'
    OBVIOUS
  <1>1. PICK place \in Places, packets \in Seq(Packets) : Flow(place, packets)
    BY DEF IInv
  <1>2. Types /\ Events /\ Spare /\ ~halted
    BY DEF IInv, H4Type
  <1>3. /\ OneCommand(place, packets) /\ Cut(Stream, packets) /\ Parsing
        /\ Buffers(place, Len(packets))
    BY <1>1, <1>2 DEF Flow
  <1>4. /\ dma \in Seq(Octets) /\ dma # <<>> /\ wire \in Seq(Octets)
        /\ h4.state = "TYPE" /\ h4.data = <<>>
    BY <1>2, <1>3 DEF Types, StreamTypes, H4Type, Parsing
  <1>5. PICK type \in Octets : type = Head(dma)
    BY <1>4, HeadTailProperties
  <1>6. PICK tail \in Seq(Octets) : tail = Tail(dma)
    BY <1>4, HeadTailProperties
  <1>7. <<type>> \in Seq(Octets) /\ <<type>> # <<>> /\ <<type>>[1] = type /\ Len(<<type>>) = 1
    OBVIOUS
  <1>8. dma = <<type>> \o tail
    BY <1>4, <1>5, <1>6, HeadTailIsAll
  <1>9. Events'
    BY <1>2 DEF Events, H4Type, tx
  <1>10. Stream = dma \o wire /\ Stream # <<>> /\ Stream \in Seq(Octets) /\ Len(packets) \in Nat
    BY <1>4, Joined DEF Stream
  <1>11. packets # <<>> /\ Len(packets) > 0
    BY <1>3, <1>10, CutFirst, Zenon
  <1>12. dma' = tail /\ wire' = wire
    BY <1>6 DEF H4Type
  <1>13. UNCHANGED <<build, request, others, put_queue, putting, rpc_evts, net_free, astray,
                     rx_queue, serving, rpc_cmd, tx_free, tx_queue, uart_tx, iqs, OthersSent,
                     Putting, Unref, Kept>>
    BY DEF H4Type, tester, remoteVars, server, tx, OthersSent, Putting, Unref, Kept
  <1>counts. /\ Reading \in 0..1 /\ Putting \in 0..1 /\ Unref \in 0..1 /\ Kept \in 0..1
             /\ Packet(place) \in 0..1 /\ Ahead(place) \in 0..1
    BY Counts
  <1>numbers. /\ rx_free \in Nat /\ net_free \in Nat /\ QueueCount \in Nat
              /\ Len(put_queue) \in Nat /\ Len(rpc_evts) \in Nat /\ OthersSent \in Nat
    BY <1>2, Numbers
  <1>14. CASE type \in RxTypes /\ rx_free > 0
    <2>1. /\ rx_free' = rx_free - 1 /\ halted' = FALSE
          /\ h4' = Parser("HEADER", HdrLen(type), <<type>>)
      BY <1>5, <1>14, <1>2 DEF H4Type, Types
    <2>2. HdrLen(type) \in {3, 4}
      BY <1>14, HdrLenIs
    <2>3. Types'
      <3>1. StreamTypes'
        BY <2>1, <2>2, <1>2, <1>4, <1>7, <1>12 DEF Types, StreamTypes, Parser
      <3>2. PoolTypes'
        BY <2>1, <1>2, <1>13, <1>14 DEF Types, PoolTypes
      <3> QED
        BY <2>1, <3>1, <3>2, <1>2, <1>13
           DEF Types, QueueTypes, ServerTypes, EventTypes, OneCore
    <2>4. Stream' = Stream
      <3>1. Stream' = <<type>> \o tail \o wire
        BY <2>1, <1>12 DEF Stream, Parser
      <3> QED
        BY <3>1, <1>8, <1>10
    <2>5. Parsing'
      BY <2>1, <2>2, <1>7, <1>14 DEF Parsing, Parser
    <2>6. Buffers(place, Len(packets))'
      <3>1. Reading = 0 /\ Reading' = 1
        BY <2>1, <1>4 DEF Reading, One, Parser
      <3> QED
        BY <3>1, <2>1, <1>2, <1>3, <1>13, <1>counts, <1>numbers
           DEF Buffers, LocalBuffers, RemoteBuffers
    <2>7. OneCommand(place, packets)'
      BY <2>1, <1>2, <1>3, <1>13 DEF OneCommand
    <2>8. Flow(place, packets)'
      BY <2>4, <2>5, <2>6, <2>7, <1>3 DEF Flow
    <2> QED
      BY <2>1, <2>3, <2>8, <1>9 DEF IInv, Spare
  <1>15. CASE type \in RxTypes /\ rx_free = 0
    <2>1. halted' = TRUE /\ UNCHANGED <<rx_free, h4>>
      BY <1>5, <1>15 DEF H4Type
    <2>2. Types'
      BY <2>1, <1>2, <1>12, <1>13
         DEF Types, StreamTypes, PoolTypes, QueueTypes, ServerTypes, EventTypes, OneCore
    <2>3. OthersSent + 2 > QueueCount
      <3>1. Reading = 0
        BY <1>4 DEF Reading, One
      <3> QED
        BY <3>1, <1>2, <1>3, <1>11, <1>15, <1>counts, <1>numbers
           DEF Buffers, LocalBuffers, RemoteBuffers, Types
    <2>4. Spare'
      BY <2>3, <1>13 DEF Spare, OthersSent
    <2>5. OneCommand(place, packets)'
      BY <2>1, <1>3, <1>13 DEF OneCommand
    <2> QED
      BY <2>1, <2>2, <2>4, <2>5, <1>9 DEF IInv, Flow
  <1>16. CASE type \notin RxTypes
    <2>1. UNCHANGED <<rx_free, h4, halted>>
      BY <1>5, <1>16 DEF H4Type
    <2>2. Types'
      BY <2>1, <1>2, <1>12, <1>13
         DEF Types, StreamTypes, PoolTypes, QueueTypes, ServerTypes, EventTypes, OneCore
    <2>3. PICK rest \in Seq(Octets) : rest = tail \o wire
      BY <1>4, ConcatProperties
    <2>4. Stream' = rest
      <3>1. Stream' = <<>> \o tail \o wire
        BY <2>1, <1>4, <1>12 DEF Stream
      <3> QED
        BY <2>3, <3>1, <1>4, Joined
    <2>5. PICK s \in Seq(Octets) : s = Stream /\ s # <<>>
      BY <1>10
    <2>6. Head(s) = type /\ Tail(s) = rest
      BY <2>3, <2>5, <1>4, <1>5, <1>6, <1>10, HeadTailConcat
    <2>7. Cut(rest, Tail(packets))
      <3>1. s = packets[1] \o rest
        BY <2>5, <2>6, <1>3, <1>16, StrayOctet
      <3> QED
        BY <3>1, <2>5, <1>3, CutTail
    <2>8. PICK less \in Seq(Packets) : less = Tail(packets) /\ Len(less) = Len(packets) - 1
      BY <1>11, HeadTailProperties
    <2>9. Parsing'
      BY <2>1, <1>3 DEF Parsing
    <2>10. Buffers(place, Len(less))'
      <3>1. UNCHANGED counters
        BY <2>1, <1>13 DEF counters, Reading
      <3>2. Len(less) \in Nat /\ Len(less) <= Len(packets)
        BY <2>8, <1>10
      <3> QED
        BY <3>1, <3>2, <1>2, <1>3, <1>10, BuffersKept
    <2>11. Carries(less, place = "stream", request)
      BY <2>8, <1>2, <1>3, <1>11, CarriesTail DEF OneCommand
    <2>12. OneCommand(place, less)'
      BY <2>1, <2>11, <1>3, <1>13 DEF OneCommand
    <2>13. Flow(place, less)'
      BY <2>4, <2>7, <2>8, <2>9, <2>10, <2>12 DEF Flow
    <2> QED
      BY <2>1, <2>2, <2>13, <1>2, <1>9 DEF IInv, Spare
  <1> QED
    BY <1>numbers, <1>14, <1>15, <1>16

\* dtm_hci_put: the first packet leaves the stream.
LEMMA PutKeeps ==
    ASSUME IInv, ~halted, h4.state # "TYPE",
           NEW d \in Seq(Octets), NEW rest \in Seq(Octets), Stream = d \o rest \o wire,
           d # <<>>, d[1] \in RxTypes, Whole(d), Put(d), dma' = rest,
           UNCHANGED <<build, tester, wire, rx_enabled, rx_free, putting, rpc_evts, net_free,
                       astray, serving, rpc_cmd, tx, iqs, halted>>
    PROVE  IInv'
  <1>1. PICK place \in Places, packets \in Seq(Packets) : Flow(place, packets)
    BY DEF IInv
  <1>2. Types /\ Events /\ Spare
    BY DEF IInv
  <1>3. /\ OneCommand(place, packets) /\ Cut(Stream, packets) /\ Parsing
        /\ Buffers(place, Len(packets)) /\ Carries(packets, place = "stream", request)
    BY <1>1 DEF Flow, OneCommand
  <1>4. wire \in Seq(Octets)
    BY <1>2 DEF Types, StreamTypes
  <1>5. PICK more \in Seq(Octets) : more = rest \o wire
    BY <1>4, ConcatProperties
  <1>6. Stream = d \o more
    BY <1>4, <1>5, Joined
  <1>7. packets # <<>> /\ d = packets[1]
    BY <1>3, <1>6, WholePacket
  <1>8. PICK s \in Seq(Octets) : s = d \o more /\ s # <<>>
    <2>1. d \o more \in Seq(Octets)
      BY ConcatProperties
    <2>2. d \o more # <<>>
      BY Joined
    <2> QED
      BY <2>1, <2>2
  <1>9. Cut(more, Tail(packets))
    <2>1. Cut(s, packets) /\ s = packets[1] \o more
      BY <1>3, <1>6, <1>7, <1>8
    <2> QED
      BY <2>1, <1>8, CutTail
  <1>10. PICK less \in Seq(Packets) : less = Tail(packets) /\ Len(less) = Len(packets) - 1
    BY <1>7, HeadTailProperties
  <1>11. Head(packets) = d /\ d \in Packets
    BY <1>7, HeadTailProperties
  <1>12. /\ Carries(less, place = "stream", request)
         /\ IsCommand(d) =>
               place = "stream" /\ d[2] = request /\ Carries(less, FALSE, request)
    <2>1. Carries(packets, place = "stream", request) /\ packets # <<>>
      BY <1>3, <1>7
    <2>2. /\ Carries(Tail(packets), place = "stream", request)
          /\ IsCommand(Head(packets)) =>
                /\ place = "stream" /\ Head(packets)[2] = request
                /\ Carries(Tail(packets), FALSE, request)
      BY <2>1, CarriesTail, Zenon
    <2> QED
      BY <2>2, <1>10, <1>11
  <1>13. h4' = Parser("TYPE", 0, <<>>) /\ wire' = wire
    BY DEF Put
  <1>14. Stream' = more
    <2>1. Stream' = <<>> \o rest \o wire
      BY <1>13 DEF Stream, Parser
    <2> QED
      BY <2>1, <1>4, <1>5, Joined
  <1>15. Parsing'
    BY <1>13 DEF Parsing, Parser
  <1>16. Reading = 1 /\ Reading' = 0
    BY <1>13 DEF Reading, One, Parser
  <1>17. StreamTypes'
    BY <1>13, <1>4 DEF StreamTypes, Parser
  <1>18. Events' /\ Spare'
    BY <1>2 DEF Events, Spare, OthersSent, tx, tester
  <1>19. UNCHANGED <<OthersSent, Putting, Unref, Kept>>
    BY DEF OthersSent, Putting, Unref, Kept, tester
  <1>20. Len(packets) \in Nat /\ Len(packets) > 0
    BY <1>7, EmptySeq
  <1>counts. /\ Unref \in 0..1 /\ Kept \in 0..1 /\ Putting \in 0..1
             /\ Packet(place) \in 0..1 /\ Ahead(place) \in 0..1
    BY Counts
  <1>numbers. /\ rx_free \in Nat /\ net_free \in Nat /\ QueueCount \in Nat
              /\ Len(put_queue) \in Nat /\ Len(rpc_evts) \in Nat /\ OthersSent \in Nat
    BY <1>2, Numbers
  <1>21. ASSUME NEW next \in Places, OneCommand(next, less)', Buffers(next, Len(less))', Types'
         PROVE  IInv'
    BY <1>21, <1>9, <1>10, <1>14, <1>15, <1>18 DEF IInv, Flow
  <1>22. CASE build = "local"
    <2> DEFINE next == IF IsCommand(d) THEN "rx" ELSE place
    <2>1. rx_queue' = Append(rx_queue, d) /\ put_queue' = put_queue
      BY <1>22 DEF Put
    <2>2. rx_queue \in Seq(Packets) /\ Carries(rx_queue, place = "rx", request)
      BY <1>2, <1>3 DEF Types, QueueTypes, OneCommand
    <2>3. Carries(rx_queue', next = "rx", request)
      <3>1. IsCommand(d) => ~(place = "rx") /\ next = "rx" /\ d[2] = request
        BY <1>12
      <3>2. place = "rx" => next = "rx"
        OBVIOUS
      <3> QED
        BY <3>1, <3>2, <2>1, <2>2, <1>11, CarriesAppend
    <2>4. Carries(less, next = "stream", request)
      BY <1>12 DEF Carries
    <2>5. IsCommand(d) => place = "stream"
      BY <1>12
    <2>6. OneCommand(next, less)'
      BY <2>1, <2>3, <2>4, <2>5, <1>3 DEF OneCommand, Carries, Answers, tester, tx
    <2>7. Packet(next) = Packet(place) /\ next \in Places
      BY <2>5 DEF Packet, AsPacket, Places
    <2>8. Buffers(next, Len(less))'
      <3>1. LocalBuffers(place, Len(packets))
        BY <1>3, <1>22 DEF Buffers
      <3>2. LocalBuffers(next, Len(less))'
        BY <3>1, <2>7, <1>10, <1>16, <1>19, <1>20, <1>counts, <1>numbers DEF LocalBuffers
      <3> QED
        BY <3>2, <1>22 DEF Buffers
    <2>9. Types'
      <3>1. rx_queue' \in Seq(Packets)
        BY <2>1, <2>2, <1>11, AppendProperties
      <3> QED
        BY <3>1, <2>1, <1>2, <1>17
           DEF Types, PoolTypes, QueueTypes, ServerTypes, EventTypes, OneCore, tester, tx
    <2> QED
      BY <2>6, <2>7, <2>8, <2>9, <1>21
  <1>23. CASE build = "remote"
    <2> DEFINE next == IF IsCommand(d) THEN "put" ELSE place
    <2>1. put_queue' = Append(put_queue, d) /\ rx_queue' = rx_queue
      BY <1>23 DEF Put
    <2>2. put_queue \in Seq(Packets) /\ Carries(put_queue, place = "put", request)
      BY <1>2, <1>3 DEF Types, QueueTypes, OneCommand
    <2>3. Carries(put_queue', next = "put", request)
      <3>1. IsCommand(d) => ~(place = "put") /\ next = "put" /\ d[2] = request
        BY <1>12
      <3>2. place = "put" => next = "put"
        OBVIOUS
      <3> QED
        BY <3>1, <3>2, <2>1, <2>2, <1>11, CarriesAppend
    <2>4. Carries(less, next = "stream", request)
      BY <1>12 DEF Carries
    <2>5. IsCommand(d) => place = "stream"
      BY <1>12
    <2>6. OneCommand(next, less)'
      BY <2>1, <2>3, <2>4, <2>5, <1>3 DEF OneCommand, Carries, Answers, tester, tx
    <2>7. Packet(next) = Packet(place) /\ Ahead(next) = Ahead(place) /\ next \in Places
      BY <2>5 DEF Packet, Ahead, AsPacket, Places
    <2>8. put_queue' \in Seq(Packets) /\ Len(put_queue') = Len(put_queue) + 1
      BY <2>1, <2>2, <1>11, AppendProperties
    <2>9. Buffers(next, Len(less))'
      <3>1. RemoteBuffers(place, Len(packets))
        BY <1>3, <1>23 DEF Buffers
      <3>2. RemoteBuffers(next, Len(less))'
        BY <3>1, <2>7, <2>8, <1>10, <1>16, <1>19, <1>20, <1>counts, <1>numbers
           DEF RemoteBuffers
      <3> QED
        BY <3>2, <1>23 DEF Buffers
    <2>10. Types'
      BY <2>1, <2>8, <1>2, <1>17, <1>23
         DEF Types, PoolTypes, QueueTypes, ServerTypes, EventTypes, OneCore, tester, tx
    <2> QED
      BY <2>6, <2>7, <2>9, <2>10, <1>21
  <1> QED
    BY <1>2, <1>22, <1>23 DEF Types

\* h4_read goes on in the same packet: the stream is the same.
LEMMA ReadOnKeeps ==
    ASSUME IInv, Stream' = Stream, StreamTypes', ~halted => Parsing', Reading' = Reading,
           halted => UNCHANGED h4,
           UNCHANGED <<build, request, others, rx_free, remoteVars, server, tx, iqs, halted>>
    PROVE  IInv'
  <1>1. PICK place \in Places, packets \in Seq(Packets) : Flow(place, packets)
    BY DEF IInv
  <1>2. Types /\ Events /\ Spare
    BY DEF IInv
  <1>3. OneCommand(place, packets)'
    BY <1>1 DEF Flow, OneCommand, remoteVars, server, tx
  <1>4. ~halted => Buffers(place, Len(packets))'
    <2>1. UNCHANGED counters
      BY DEF counters, remoteVars, server, OthersSent, Putting, Unref, Kept
    <2>2. PICK n \in Nat : n = Len(packets)
      OBVIOUS
    <2>3. ~halted => Buffers(place, n)
      BY <1>1, <2>2 DEF Flow
    <2>4. ~halted => Buffers(place, n)'
      BY <2>1, <2>3, <1>2, BuffersKept
    <2> QED
      BY <2>2, <2>4
  <1>5. Flow(place, packets)'
    BY <1>1, <1>3, <1>4 DEF Flow
  <1>6. Types'
    BY <1>2 DEF Types, PoolTypes, QueueTypes, ServerTypes, EventTypes, OneCore, remoteVars,
                server, tx
  <1>7. Events' /\ Spare'
    <2>1. halted => UNCHANGED <<TooLong, OthersSent, astray>>
      BY DEF TooLong, Tailroom, OthersSent, remoteVars
    <2> QED
      BY <2>1, <1>2 DEF Events, Spare, tx
  <1> QED
    BY <1>5, <1>6, <1>7 DEF IInv

LEMMA H4HeaderKeeps == IInv /\ H4Header => IInv'
  <1> SUFFICES ASSUME IInv, H4Header PROVE IInv'
    OBVIOUS
  <1>1. Types /\ ~halted /\ h4.state = "HEADER" /\ dma # <<>>
    BY DEF IInv, H4Header
  <1>2. Parsing
    BY <1>1 DEF IInv, Flow
  <1>3. /\ h4 \in [state : {"TYPE", "HEADER", "PAYLOAD"}, rem : Nat, data : Seq(Octets)]
        /\ dma \in Seq(Octets) /\ wire \in Seq(Octets) /\ Len(dma) \in Nat /\ Len(dma) > 0
    BY <1>1, EmptySeq DEF Types, StreamTypes
  <1>4. PICK data \in Seq(Octets) : data = h4.data
    BY <1>3
  <1>5. PICK rem \in Nat : rem = h4.rem
    BY <1>3
  <1>6. /\ data # <<>> /\ rem > 0 /\ data[1] \in RxTypes
        /\ Len(data) + rem = 1 + HdrLen(data[1])
    BY <1>1, <1>2, <1>4, <1>5 DEF Parsing
  <1>7. PICK n \in 0..Len(dma) : n = ReadLen(Len(dma), rem) /\ n <= rem /\ n > 0
    BY <1>3, <1>6 DEF ReadLen
  <1>pick. PICK d, rest \in Seq(Octets) : Handed(data, dma, wire, n, d, rest)
    BY <1>3, HandedTo, Zenon
  <1>8. /\ d = data \o SubSeq(dma, 1, n) /\ rest = SubSeq(dma, n + 1, Len(dma))
        /\ Len(d) = Len(data) + n /\ Begins(d, data)
        /\ d \o rest \o wire = data \o dma \o wire
    BY <1>pick DEF Handed
  <1>9. n \in Nat /\ Len(data) \in Nat
    BY <1>3
  <1>11. Len(data) \in Nat /\ Len(data) > 0 /\ d # <<>> /\ d[1] = data[1]
    BY <1>6, <1>8, EmptySeq DEF Begins
  <1>12. Stream = d \o rest \o wire
    BY <1>4, <1>8 DEF Stream
  <1>13. PICK h \in Nat : h = HdrLen(d[1])
    BY <1>6, <1>11, HdrLenIs
  <1>14. Len(d) <= 1 + h /\ (rem = n <=> Len(d) = 1 + h) /\ Len(data) + rem = 1 + h
    <2>1. Len(d) = Len(data) + n /\ Len(data) + rem = 1 + h /\ n <= rem
      BY <1>6, <1>7, <1>8, <1>11, <1>13
    <2> QED
      BY <2>1, <1>9
  <1>15. /\ dma' = rest
         /\ \/ rem # n /\ h4' = Parser("HEADER", rem - n, d) /\ KeepQueues
            \/ rem = n /\ PldLen(d) = 0 /\ Put(d)
            \/ rem = n /\ PldLen(d) # 0 /\ h4' = Parser("PAYLOAD", PldLen(d), d) /\ KeepQueues
    BY <1>4, <1>5, <1>7, <1>8 DEF H4Header
  <1>16. UNCHANGED <<build, tester, wire, rx_enabled, rx_free, putting, rpc_evts, net_free,
                     astray, serving, rpc_cmd, tx, iqs, halted>>
    BY DEF H4Header
  <1>17. KeepQueues => UNCHANGED <<build, request, others, rx_free, remoteVars, server, tx, iqs,
                                   halted>>
    BY <1>16 DEF KeepQueues, remoteVars, server, tester
  <1>18. CASE rem # n /\ h4' = Parser("HEADER", rem - n, d) /\ KeepQueues
    <2>1. Stream' = Stream
      BY <1>12, <1>15, <1>16, <1>18 DEF Stream, Parser
    <2>2. rem - n \in Nat /\ rem - n > 0 /\ Len(d) + (rem - n) = 1 + h
      <3>1. Len(d) = Len(data) + n /\ Len(data) + rem = 1 + h /\ n <= rem /\ n # rem
        BY <1>7, <1>8, <1>14, <1>18
      <3> QED
        BY <3>1, <1>9
    <2>3. StreamTypes'
      BY <2>2, <1>3, <1>15, <1>16, <1>18 DEF StreamTypes, Parser
    <2>4. Parsing'
      BY <2>2, <1>6, <1>11, <1>13, <1>18 DEF Parsing, Parser
    <2>5. Reading' = Reading
      BY <1>1, <1>18 DEF Reading, Parser
    <2> QED
      BY <2>1, <2>3, <2>4, <2>5, <1>1, <1>17, <1>18, ReadOnKeeps
  <1>19. CASE rem = n /\ PldLen(d) # 0 /\ h4' = Parser("PAYLOAD", PldLen(d), d) /\ KeepQueues
    <2>1. Stream' = Stream
      BY <1>12, <1>15, <1>16, <1>19 DEF Stream, Parser
    <2>2. Len(d) = 1 + h /\ Len(d) > HdrLen(d[1])
      BY <1>13, <1>14, <1>19
    <2>3. PICK p \in Nat : p = PldLen(d) /\ p > 0
      BY <2>2, <1>6, <1>11, <1>19, PldLenIs
    <2>4. StreamTypes'
      BY <2>3, <1>3, <1>15, <1>16, <1>19 DEF StreamTypes, Parser
    <2>5. Parsing'
      <3>1. Len(d) + p = 1 + HdrLen(d[1]) + p
        BY <2>2, <2>3, <1>13
      <3> QED
        BY <3>1, <2>2, <2>3, <1>6, <1>11, <1>19 DEF Parsing, Parser
    <2>6. Reading' = Reading
      BY <1>1, <1>19 DEF Reading, Parser
    <2> QED
      BY <2>1, <2>4, <2>5, <2>6, <1>1, <1>17, <1>19, ReadOnKeeps
  <1>20. CASE rem = n /\ PldLen(d) = 0 /\ Put(d)
    <2>1. Len(d) = 1 + h
      BY <1>14, <1>20
    <2>2. Whole(d)
      BY <2>1, <1>13, <1>20 DEF Whole
    <2>3. d[1] \in RxTypes /\ h4.state # "TYPE"
      BY <1>1, <1>6, <1>11
    <2> QED
      BY <2>2, <2>3, <1>1, <1>11, <1>12, <1>15, <1>16, <1>20, PutKeeps
  <1> QED
    BY <1>15, <1>18, <1>19, <1>20

LEMMA Lacking ==
    ASSUME NEW l \in Nat, NEW rem \in Nat, NEW n \in Nat, NEW h \in Nat, NEW p \in Nat,
           l + rem = 1 + h + p, l > h, n <= rem
    PROVE  l + n > h /\ (l + n) + (rem - n) = 1 + h + p /\ rem - n \in Nat
  OBVIOUS

LEMMA H4PayloadKeeps == IInv /\ H4Payload => IInv'
  <1> SUFFICES ASSUME IInv, H4Payload PROVE IInv'
    OBVIOUS
  <1>1. Types /\ ~halted /\ h4.state = "PAYLOAD" /\ dma # <<>>
    BY DEF IInv, H4Payload
  <1>2. Parsing
    BY <1>1 DEF IInv, Flow
  <1>3. /\ h4 \in [state : {"TYPE", "HEADER", "PAYLOAD"}, rem : Nat, data : Seq(Octets)]
        /\ dma \in Seq(Octets) /\ wire \in Seq(Octets) /\ Len(dma) \in Nat /\ Len(dma) > 0
    BY <1>1, EmptySeq DEF Types, StreamTypes
  <1>4. PICK data \in Seq(Octets) : data = h4.data
    BY <1>3
  <1>5. PICK rem \in Nat : rem = h4.rem
    BY <1>3
  <1>6. /\ data # <<>> /\ rem > 0 /\ data[1] \in RxTypes
        /\ Len(data) > HdrLen(data[1])
        /\ Len(data) + rem = 1 + HdrLen(data[1]) + PldLen(data)
    BY <1>1, <1>2, <1>4, <1>5 DEF Parsing
  <1>7. PICK n \in 0..Len(dma) : n = ReadLen(Len(dma), rem) /\ n <= rem /\ n > 0
    BY <1>3, <1>6 DEF ReadLen
  <1>pick. PICK d, rest \in Seq(Octets) : Handed(data, dma, wire, n, d, rest)
    BY <1>3, HandedTo, Zenon
  <1>8. /\ d = data \o SubSeq(dma, 1, n) /\ rest = SubSeq(dma, n + 1, Len(dma))
        /\ Len(d) = Len(data) + n /\ Begins(d, data)
        /\ d \o rest \o wire = data \o dma \o wire
    BY <1>pick DEF Handed
  <1>9. n \in Nat /\ Len(data) \in Nat
    BY <1>3
  <1>11. Len(data) \in Nat /\ Len(data) > 0 /\ d # <<>> /\ d[1] = data[1]
    BY <1>6, <1>8, EmptySeq DEF Begins
  <1>12. Stream = d \o rest \o wire
    BY <1>4, <1>8 DEF Stream
  <1>13. PICK h \in Nat : h = HdrLen(data[1])
    BY <1>6, HdrLenIs
  <1>14. PldLen(d) = PldLen(data)
    <2>1. \A i \in 1..1 + h : data[i] = d[i]
      BY <1>6, <1>8, <1>11, <1>13 DEF Begins
    <2> QED
      BY <2>1, <1>6, <1>13, SameHeader
  <1>15. PICK p \in Nat : p = PldLen(data)
    BY <1>6, PldLenIs
  <1>16. Len(d) > h /\ Len(d) + (rem - n) = 1 + h + p /\ rem - n \in Nat
    <2>1. /\ Len(d) = Len(data) + n /\ Len(data) + rem = 1 + h + p /\ n <= rem
          /\ Len(data) > h
      BY <1>6, <1>7, <1>8, <1>13, <1>15
    <2>2. PICK l \in Nat : l = Len(data)
      BY <1>9
    <2>3. l + rem = 1 + h + p /\ l > h /\ n <= rem
      BY <2>1, <2>2
    <2>4. l + n > h /\ (l + n) + (rem - n) = 1 + h + p /\ rem - n \in Nat
      BY <2>3, <1>9, Lacking
    <2> QED
      BY <2>1, <2>2, <2>4
  <1>17. /\ dma' = rest
         /\ \/ rem # n /\ h4' = Parser("PAYLOAD", rem - n, d) /\ KeepQueues
            \/ rem = n /\ Put(d)
    BY <1>4, <1>5, <1>7, <1>8 DEF H4Payload
  <1>18. UNCHANGED <<build, tester, wire, rx_enabled, rx_free, putting, rpc_evts, net_free,
                     astray, serving, rpc_cmd, tx, iqs, halted>>
    BY DEF H4Payload
  <1>19. CASE rem # n /\ h4' = Parser("PAYLOAD", rem - n, d) /\ KeepQueues
    <2>1. Stream' = Stream
      BY <1>12, <1>17, <1>18, <1>19 DEF Stream, Parser
    <2>2. StreamTypes'
      BY <1>16, <1>3, <1>17, <1>18, <1>19 DEF StreamTypes, Parser
    <2>3. Parsing'
      <3>1. Len(d) > HdrLen(d[1]) /\ Len(d) + (rem - n) = 1 + HdrLen(d[1]) + PldLen(d)
        BY <1>11, <1>13, <1>14, <1>15, <1>16
      <3>2. rem - n > 0
        BY <1>7, <1>16, <1>19
      <3> QED
        BY <3>1, <3>2, <1>6, <1>11, <1>19 DEF Parsing, Parser
    <2>4. Reading' = Reading
      BY <1>1, <1>19 DEF Reading, Parser
    <2>5. UNCHANGED <<build, request, others, rx_free, remoteVars, server, tx, iqs, halted>>
      BY <1>18, <1>19 DEF KeepQueues, remoteVars, server, tester
    <2> QED
      BY <2>1, <2>2, <2>3, <2>4, <2>5, <1>1, ReadOnKeeps
  <1>20. CASE rem = n /\ Put(d)
    <2>1. Len(d) = 1 + h + p
      BY <1>7, <1>11, <1>16, <1>20
    <2>2. Whole(d)
      BY <2>1, <1>11, <1>13, <1>14, <1>15, <1>16 DEF Whole
    <2>3. d[1] \in RxTypes /\ h4.state # "TYPE"
      BY <1>1, <1>6, <1>11
    <2> QED
      BY <2>2, <2>3, <1>1, <1>11, <1>12, <1>17, <1>18, <1>20, PutKeeps
  <1> QED
    BY <1>17, <1>19, <1>20

\* The rest of the packet, or what there is of it, does not fit.
LEMMA H4OverflowKeeps == IInv /\ H4Overflow => IInv'
  <1> SUFFICES ASSUME IInv, H4Overflow PROVE IInv'
    OBVIOUS
  <1>1. PICK place \in Places, packets \in Seq(Packets) : Flow(place, packets)
    BY DEF IInv
  <1>2. /\ Types /\ Events /\ h4.state = "PAYLOAD" /\ halted' = TRUE
        /\ Tailroom < ReadLen(Len(dma), h4.rem)
        /\ UNCHANGED <<build, tester, wire, rx_enabled, rx, remoteVars, server, tx, iqs>>
    BY DEF IInv, H4Overflow
  <1>3. Types' /\ Events'
    BY <1>2 DEF Types, StreamTypes, PoolTypes, QueueTypes, ServerTypes, EventTypes, OneCore,
                Events, tester, rx, remoteVars, server, tx
  <1>4. Spare'
    <2>1. Len(h4.data) \in Nat /\ h4.rem \in Nat /\ Len(dma) \in Nat /\ QueueSize \in Nat
      BY <1>2, UartAssumption DEF Types, StreamTypes
    <2>2. Tailroom \in Int /\ ReadLen(Len(dma), h4.rem) <= h4.rem
      BY <2>1 DEF Tailroom, ReadLen
    <2>3. ReadLen(Len(dma), h4.rem) \in Nat
      BY <2>1 DEF ReadLen
    <2>4. Tailroom < h4.rem
      BY <2>1, <2>2, <2>3, <1>2
    <2>5. TooLong'
      BY <2>4, <1>2 DEF TooLong, Tailroom, rx
    <2> QED
      BY <2>5 DEF Spare
  <1>5. OneCommand(place, packets)'
    BY <1>1, <1>2 DEF Flow, OneCommand, tester, remoteVars, server, tx
  <1>6. Flow(place, packets)'
    BY <1>2, <1>5 DEF Flow
  <1> QED
    BY <1>3, <1>4, <1>6 DEF IInv

LEMMA RxReadyKeeps == IInv /\ RxReady => IInv'
  <1> SUFFICES ASSUME IInv, RxReady PROVE IInv'
    OBVIOUS
  <1>1. Types /\ ~halted /\ dma = <<>>
    BY DEF IInv, RxReady
  <1>2. Parsing
    BY <1>1 DEF IInv, Flow
  <1>3. wire \in Seq(Octets) /\ h4.data \in Seq(Octets)
    BY <1>1 DEF Types, StreamTypes
  <1>4. PICK n \in 1..Len(wire) :
           dma' = SubSeq(wire, 1, n) /\ wire' = SubSeq(wire, n + 1, Len(wire))
    BY DEF RxReady
  <1>5. n \in 0..Len(wire)
    BY <1>3
  <1>6. dma' \in Seq(Octets) /\ wire' \in Seq(Octets) /\ dma' \o wire' = wire
    BY <1>3, <1>4, <1>5, FrontAndRest
  <1>7. UNCHANGED <<build, request, others, h4, rx_free, remoteVars, server, tx, iqs, halted>>
    BY DEF RxReady, tester
  <1>8. Stream' = Stream
    <2>1. Stream' = h4.data \o dma' \o wire'
      BY <1>7 DEF Stream
    <2>2. h4.data \o dma' \o wire' = h4.data \o (dma' \o wire')
      BY <1>3, <1>6, Joined
    <2>3. h4.data \o <<>> \o wire = h4.data \o wire
      BY <1>3, ConcatEmptySeq
    <2> QED
      BY <2>1, <2>2, <2>3, <1>1, <1>6 DEF Stream
  <1>9. StreamTypes'
    BY <1>1, <1>6, <1>7 DEF Types, StreamTypes
  <1>10. Parsing' /\ Reading' = Reading
    BY <1>2, <1>7 DEF Parsing, Reading
  <1> QED
    BY <1>1, <1>7, <1>8, <1>9, <1>10, ReadOnKeeps

LEMMA RxStoppedKeeps == IInv /\ RxStopped => IInv'
  <1> SUFFICES ASSUME IInv, RxStopped PROVE IInv'
    OBVIOUS
  <1>1. UNCHANGED <<build, request, others, wire, dma, h4, rx_free, remoteVars, server, tx, iqs,
                    halted>>
    BY DEF RxStopped, tester, rx
  <1>2. ~halted => Parsing
    BY DEF IInv, Flow
  <1>3. /\ Stream' = Stream /\ StreamTypes' /\ Reading' = Reading /\ (~halted => Parsing')
    BY <1>1, <1>2 DEF IInv, Types, StreamTypes, Stream, Reading, Parsing
  <1> QED
    BY <1>1, <1>3, ReadOnKeeps

LEMMA StreamGrows ==
    ASSUME StreamTypes, NEW packet \in Packets, wire' = wire \o packet, UNCHANGED <<h4, dma>>
    PROVE  /\ StreamTypes'
           /\ \A packets \in Seq(Packets) :
                 Cut(Stream, packets) => Cut(Stream', Append(packets, packet))
  <1>1. wire \in Seq(Octets) /\ dma \in Seq(Octets) /\ h4.data \in Seq(Octets)
    BY DEF StreamTypes
  <1>2. packet \in Seq(Octets)
    BY PacketFacts
  <1>3. wire' \in Seq(Octets)
    BY <1>1, <1>2, ConcatProperties
  <1>4. PICK front \in Seq(Octets) : front = h4.data \o dma
    BY <1>1, ConcatProperties
  <1>5. Stream = front \o wire /\ Stream' = front \o (wire \o packet)
    BY <1>4 DEF Stream
  <1>6. front \o (wire \o packet) = (front \o wire) \o packet
    <2>1. PICK w \in Seq(Octets) : w = wire
      BY <1>1
    <2>2. PICK p \in Seq(Octets) : p = packet
      BY <1>2
    <2>3. front \o w \o p = front \o (w \o p)
      BY ONLY Joined, front \in Seq(Octets), w \in Seq(Octets), p \in Seq(Octets)
    <2> QED
      BY <2>1, <2>2, <2>3
  <1>7. Stream \in Seq(Octets) /\ Stream' = Stream \o packet
    <2>1. front \o wire \in Seq(Octets)
      BY <1>1, ConcatProperties
    <2> QED
      BY <2>1, <1>5, <1>6
  <1>8. ASSUME NEW packets \in Seq(Packets), Cut(Stream, packets)
        PROVE  Cut(Stream', Append(packets, packet))
    <2>1. PICK s \in Seq(Octets) : s = Stream
      BY <1>7
    <2>2. Cut(s \o packet, Append(packets, packet))
      BY <2>1, <1>8, CutAppend
    <2> QED
      BY <2>1, <2>2, <1>7
  <1>9. StreamTypes'
    BY <1>3 DEF StreamTypes
  <1> QED
    BY <1>8, <1>9

LEMMA SendCommandKeeps == IInv /\ SendCommand => IInv'
  <1> SUFFICES ASSUME IInv, SendCommand PROVE IInv'
    OBVIOUS
  <1>1. PICK place \in Places, packets \in Seq(Packets) : Flow(place, packets)
    BY DEF IInv
  <1>2. Types /\ Events /\ Spare /\ request = NoId
    BY DEF IInv, SendCommand
  <1>3. OneCommand(place, packets) /\ place = "nowhere"
    BY <1>1, <1>2 DEF Flow, OneCommand
  <1>4. PICK id \in Ids, shape \in Shapes : request' = id /\ wire' = wire \o Command(id, shape)
    BY DEF SendCommand
  <1>5. PICK packet \in Packets : packet = Command(id, shape)
    BY DEF Packets, Commands
  <1>6. packet[2] = id
    BY <1>5, CommandFacts
  <1>7. UNCHANGED <<build, others, dma, h4, rx_free, put_queue, putting, rpc_evts, net_free,
                    astray, rx_queue, serving, rpc_cmd, tx_free, tx_queue, uart_tx, iqs, halted>>
    BY DEF SendCommand, rx, remoteVars, server, tx
  <1>8. /\ StreamTypes'
        /\ \A ps \in Seq(Packets) : Cut(Stream, ps) => Cut(Stream', Append(ps, packet))
    BY <1>2, <1>4, <1>5, <1>7, StreamGrows DEF Types
  <1>9. PICK more \in Seq(Packets) : more = Append(packets, packet) /\ Len(more) = Len(packets) + 1
    BY AppendProperties
  <1>10. Types'
    BY <1>2, <1>4, <1>7, <1>8 DEF Types, PoolTypes, QueueTypes, ServerTypes, EventTypes, OneCore
  <1>11. Events' /\ Spare'
    BY <1>2, <1>7 DEF Events, Spare, OthersSent, TooLong, Tailroom
  <1>12. ~halted => Carries(more, TRUE, id)
    <2>1. ~halted => Carries(packets, FALSE, request)
      BY <1>3 DEF OneCommand
    <2>2. ~halted => Carries(packets, FALSE, id)
      BY <2>1 DEF Carries
    <2> QED
      BY <2>2, <1>6, <1>9, CarriesAppend
  <1>13. OneCommand("stream", more)'
    <2>1. /\ Carries(put_queue, FALSE, request) /\ Carries(rpc_evts, FALSE, request)
          /\ Carries(rx_queue, FALSE, request) /\ Answers(tx_queue, FALSE, request)
          /\ ~(serving.pc = "process" /\ IsCommand(serving.packet))
          /\ rpc_cmd = NoId /\ uart_tx \in {NoId, IqReport}
      BY <1>3 DEF OneCommand
    <2>2. /\ Carries(put_queue, FALSE, id) /\ Carries(rpc_evts, FALSE, id)
          /\ Carries(rx_queue, FALSE, id) /\ Answers(tx_queue, FALSE, id)
      BY <2>1 DEF Carries, Answers
    <2>3. request' # NoId
      BY <1>4 DEF Ids, NoId
    <2> QED
      BY <2>1, <2>2, <2>3, <1>4, <1>7, <1>12 DEF OneCommand
  <1>14. ~halted => Parsing' /\ Buffers("stream", Len(more))'
    <2> SUFFICES ASSUME ~halted PROVE Parsing' /\ Buffers("stream", Len(more))'
      OBVIOUS
    <2>1. Parsing /\ Buffers(place, Len(packets))
      BY <1>1 DEF Flow
    <2>2. UNCHANGED <<Reading, Putting, Unref, Kept, OthersSent>>
      BY <1>7 DEF Reading, Putting, Unref, Kept, OthersSent
    <2>3. Packet(place) = 0 /\ Ahead(place) = 0 /\ Packet("stream") = 1 /\ Ahead("stream") = 1
      BY <1>3 DEF Packet, Ahead, AsPacket, One
    <2>4. /\ Reading \in 0..1 /\ Putting \in 0..1 /\ Unref \in 0..1 /\ Kept \in 0..1
          /\ Len(packets) \in Nat
      BY Counts
    <2>5. Buffers("stream", Len(more))'
      <3>1. PICK n \in Nat : n = Len(packets)
        BY <2>4
      <3>2. Len(more) = n + 1
        BY <3>1, <1>9
      <3>3. /\ rx_free \in Nat /\ net_free \in Nat /\ QueueCount \in Nat
            /\ Len(put_queue) \in Nat /\ Len(rpc_evts) \in Nat /\ OthersSent \in Nat
        BY <1>2, Numbers
      <3>4. Buffers(place, n)
        BY <2>1, <3>1
      <3>5. build = "local" => LocalBuffers("stream", n + 1)'
        BY <2>2, <2>3, <2>4, <3>3, <3>4, <1>7 DEF Buffers, LocalBuffers
      <3>6. build = "remote" => RemoteBuffers("stream", n + 1)'
        BY <2>2, <2>3, <2>4, <3>3, <3>4, <1>7 DEF Buffers, RemoteBuffers
      <3>7. Buffers("stream", n + 1)'
        BY <3>5, <3>6, <1>7 DEF Buffers
      <3> QED
        BY <3>2, <3>7
    <2> QED
      BY <2>1, <2>5, <1>7 DEF Parsing
  <1>15. Flow("stream", more)'
    BY <1>1, <1>7, <1>8, <1>9, <1>13, <1>14 DEF Flow
  <1> QED
    BY <1>10, <1>11, <1>15 DEF IInv, Places

LEMMA SendOtherKeeps == IInv /\ SendOther => IInv'
  <1> SUFFICES ASSUME IInv, SendOther PROVE IInv'
    OBVIOUS
  <1>1. PICK place \in Places, packets \in Seq(Packets) : Flow(place, packets)
    BY DEF IInv
  <1>2. Types /\ Events /\ Spare /\ others > 0 /\ others' = others - 1
    BY DEF IInv, SendOther
  <1>3. PICK packet \in Others : wire' = wire \o packet
    BY DEF SendOther
  <1>4. packet \in Packets /\ ~IsCommand(packet)
    BY TesterAssumption
       DEF Packets, IsCommand, DataPacket, Stray, RxTypes, H4_TYPE_CMD, H4_TYPE_ACL, H4_TYPE_ISO
  <1>5. UNCHANGED <<build, request, dma, h4, rx_free, put_queue, putting, rpc_evts, net_free,
                    astray, rx_queue, serving, rpc_cmd, tx_free, tx_queue, uart_tx, iqs, halted>>
    BY DEF SendOther, rx, remoteVars, server, tx
  <1>6. /\ StreamTypes'
        /\ \A ps \in Seq(Packets) : Cut(Stream, ps) => Cut(Stream', Append(ps, packet))
    BY <1>2, <1>3, <1>4, <1>5, StreamGrows DEF Types
  <1>7. PICK more \in Seq(Packets) : more = Append(packets, packet) /\ Len(more) = Len(packets) + 1
    BY <1>4, AppendProperties
  <1>8. Types'
    <2>1. others' \in 0..MaxOthers
      BY <1>2, UartAssumption DEF Types
    <2> QED
      BY <2>1, <1>2, <1>5, <1>6 DEF Types, PoolTypes, QueueTypes, ServerTypes, EventTypes, OneCore
  <1>9. OthersSent' = OthersSent + 1 /\ OthersSent \in Nat
    BY <1>2, UartAssumption DEF OthersSent, Types
  <1>10. Events' /\ Spare'
    <2>1. UNCHANGED <<TooLong, astray, halted>>
      BY <1>5 DEF TooLong, Tailroom
    <2> QED
      BY <2>1, <1>2, <1>5, <1>9, UartAssumption DEF Events, Spare
  <1>11. OneCommand(place, packets)
    BY <1>1 DEF Flow
  <1>12. ~halted => Carries(more, place = "stream", request)
    <2>1. ~halted => Carries(packets, place = "stream", request)
      BY <1>11 DEF OneCommand
    <2> QED
      BY <2>1, <1>4, <1>7, CarriesAppend
  <1>13. OneCommand(place, more)'
    BY <1>5, <1>11, <1>12 DEF OneCommand
  <1>14. ~halted => Parsing' /\ Buffers(place, Len(more))'
    <2> SUFFICES ASSUME ~halted PROVE Parsing' /\ Buffers(place, Len(more))'
      OBVIOUS
    <2>1. Parsing /\ Buffers(place, Len(packets))
      BY <1>1 DEF Flow
    <2>2. UNCHANGED <<Reading, Putting, Unref, Kept>>
      BY <1>5 DEF Reading, Putting, Unref, Kept
    <2>3. /\ Reading \in 0..1 /\ Putting \in 0..1 /\ Unref \in 0..1 /\ Kept \in 0..1
          /\ Packet(place) \in 0..1 /\ Ahead(place) \in 0..1
      BY Counts
    <2>4. PICK n \in Nat : n = Len(packets)
      OBVIOUS
    <2>5. Len(more) = n + 1
      BY <2>4, <1>7
    <2>6. Buffers(place, n + 1)'
      <3>1. /\ rx_free \in Nat /\ net_free \in Nat /\ QueueCount \in Nat
            /\ Len(put_queue) \in Nat /\ Len(rpc_evts) \in Nat
        BY <1>2, Numbers
      <3>2. Buffers(place, n)
        BY <2>1, <2>4
      <3>3. build = "local" => LocalBuffers(place, n + 1)'
        BY <2>2, <2>3, <3>1, <3>2, <1>5, <1>9 DEF Buffers, LocalBuffers
      <3>4. build = "remote" => RemoteBuffers(place, n + 1)'
        <4> SUFFICES ASSUME build = "remote" PROVE RemoteBuffers(place, n + 1)'
          OBVIOUS
        <4>1. RemoteBuffers(place, n)
          BY <3>2 DEF Buffers
        <4>2. PICK sent \in Nat : sent = OthersSent /\ OthersSent' = sent + 1
          BY <1>9
        <4>3. UNCHANGED <<rx_free, put_queue, rpc_evts, net_free>>
          BY <1>5
        <4>4. PICK pl \in Nat, rl \in Nat : pl = Len(put_queue) /\ rl = Len(rpc_evts)
          BY <3>1
        <4>5. (rx_free + Len(put_queue) + Putting + Reading = QueueCount)'
          BY <4>1, <4>3, <2>2 DEF RemoteBuffers
        <4>6. (n + 1 + Len(put_queue) <= OthersSent + Ahead(place))'
          BY <4>1, <4>2, <4>3, <4>4, <2>3 DEF RemoteBuffers
        <4>7. (n + 1 + Len(put_queue) + Len(rpc_evts) + QueueCount <=
                  net_free + OthersSent + Packet(place) + Kept)'
          BY <4>1, <4>2, <4>3, <4>4, <2>2, <2>3, <3>1 DEF RemoteBuffers
        <4> QED
          BY <4>5, <4>6, <4>7 DEF RemoteBuffers
      <3> QED
        BY <3>3, <3>4, <1>5 DEF Buffers
    <2> QED
      BY <2>1, <2>5, <2>6, <1>5 DEF Parsing
  <1>15. Flow(place, more)'
    BY <1>1, <1>5, <1>6, <1>7, <1>13, <1>14 DEF Flow
  <1> QED
    BY <1>8, <1>10, <1>15 DEF IInv

\* The stream stays as it is: the command that waits may have moved on.
LEMMA MovedOn ==
    ASSUME NEW place \in Places, NEW packets \in Seq(Packets), Flow(place, packets),
           UNCHANGED <<wire, dma, h4>>, halted => halted',
           NEW next \in Places, OneCommand(next, packets)',
           NEW n \in Nat, n = Len(packets), ~halted' => Buffers(next, n)',
           Types', Events', Spare'
    PROVE  IInv'
  <1>1. ~halted' => Cut(Stream, packets) /\ Parsing
    BY DEF Flow
  <1>2. Stream' = Stream /\ (Parsing => Parsing')
    BY DEF Stream, Parsing
  <1>3. Flow(next, packets)'
    BY <1>1, <1>2 DEF Flow
  <1> QED
    BY <1>3 DEF IInv

\* A packet goes from the head of one queue to the end of another.
At(queue, here, place, id) == Carries(queue, place = here, id)
Forwards(from, to, here, there, place, id, p, next) ==
    /\ p = Head(from)
    /\ next = IF IsCommand(p) THEN there ELSE place
    /\ IsCommand(p) => place = here
    /\ Carries(Tail(from), next = here, id)
    /\ Carries(Append(to, p), next = there, id)
LEMMA Forwarded ==
    ASSUME NEW from \in Seq(Packets), from # <<>>, NEW to \in Seq(Packets), NEW id,
           NEW here, NEW there, here # there, NEW place,
           At(from, here, place, id), At(to, there, place, id)
    PROVE  \E p \in Packets, next \in {place, there} :
              Forwards(from, to, here, there, place, id, p, next)
  <1>at. Carries(from, place = here, id) /\ Carries(to, place = there, id)
    BY DEF At
  <1>1. PICK p \in Packets : p = Head(from)
    BY HeadTailProperties
  <1>2. PICK next \in {place, there} : next = IF IsCommand(p) THEN there ELSE place
    OBVIOUS
  <1>3. /\ Carries(Tail(from), place = here, id)
        /\ IsCommand(p) => place = here /\ p[2] = id /\ Carries(Tail(from), FALSE, id)
    BY <1>at, <1>1, CarriesTail
  <1>4. Carries(Tail(from), next = here, id)
    <2>1. CASE IsCommand(p)
      BY <2>1, <1>2, <1>3
    <2>2. CASE ~IsCommand(p)
      BY <2>2, <1>2, <1>3
    <2> QED
      BY <2>1, <2>2
  <1>5. Carries(Append(to, p), next = there, id)
    <2>1. IsCommand(p) => ~(place = there) /\ next = there /\ p[2] = id
      BY <1>2, <1>3
    <2>2. place = there => next = there
      BY <1>2
    <2> QED
      BY <2>1, <2>2, <1>at, CarriesAppend
  <1>6. Forwards(from, to, here, there, place, id, p, next)
    BY <1>1, <1>2, <1>3, <1>4, <1>5 DEF Forwards
  <1> QED
    BY <1>6

LEMMA PutThreadSendKeeps == IInv /\ PutThreadSend => IInv'
  <1> SUFFICES ASSUME IInv, PutThreadSend PROVE IInv'
    OBVIOUS
  <1>1. PICK place \in Places, packets \in Seq(Packets) : Flow(place, packets)
    BY DEF IInv
  <1>2. Types /\ Events /\ Spare /\ ~halted /\ put_queue # <<>> /\ putting = None
    BY DEF IInv, PutThreadSend, AppThread
  <1>3. /\ OneCommand(place, packets) /\ Buffers(place, Len(packets))
        /\ put_queue \in Seq(Packets) /\ rpc_evts \in Seq(Packets)
    BY <1>1, <1>2 DEF Flow, Types, QueueTypes
  <1>pick. PICK p \in Packets, next \in {place, "rpc"} :
              Forwards(put_queue, rpc_evts, "put", "rpc", place, request, p, next)
    <2>1. At(put_queue, "put", place, request) /\ At(rpc_evts, "rpc", place, request)
      BY <1>3 DEF OneCommand, At
    <2>2. "put" # "rpc"
      OBVIOUS
    <2> QED
      BY <2>1, <2>2, <1>2, <1>3, Forwarded
  <1>4. /\ p = Head(put_queue)
        /\ next = IF IsCommand(p) THEN "rpc" ELSE place
        /\ IsCommand(p) => place = "put"
        /\ Carries(Tail(put_queue), next = "put", request)
        /\ Carries(Append(rpc_evts, p), next = "rpc", request)
    BY <1>pick DEF Forwards
  <1>5. /\ putting' = p /\ put_queue' = Tail(put_queue) /\ rpc_evts' = Append(rpc_evts, p)
        /\ UNCHANGED <<build, request, others, wire, dma, h4, rx_free, net_free, astray, rx_queue,
                       serving, rpc_cmd, tx_free, tx_queue, uart_tx, iqs, halted>>
    BY <1>4 DEF PutThreadSend, tester, rx, server, tx
  <1>6. build = "remote"
    BY <1>2 DEF Types, OneCore
  <1>7. /\ Tail(put_queue) \in Seq(Packets) /\ Len(Tail(put_queue)) = Len(put_queue) - 1
        /\ Append(rpc_evts, p) \in Seq(Packets) /\ Len(Append(rpc_evts, p)) = Len(rpc_evts) + 1
    BY <1>2, <1>3, HeadTailProperties, AppendProperties
  <1>8. Types'
    BY <1>2, <1>5, <1>6, <1>7 DEF Types, StreamTypes, PoolTypes, QueueTypes, ServerTypes, EventTypes
  <1>9. Events' /\ Spare'
    BY <1>2, <1>5 DEF Events, Spare, OthersSent
  <1>10. OneCommand(next, packets)'
    BY <1>3, <1>4, <1>5 DEF OneCommand
  <1>11. PICK n \in Nat : n = Len(packets)
    OBVIOUS
  <1>12. Buffers(next, n)'
    <2>1. RemoteBuffers(place, n)
      BY <1>3, <1>6, <1>11 DEF Buffers
    <2>2. Putting = 0 /\ Putting' = 1
      BY <1>2, <1>4, <1>5, PacketFacts DEF Putting, One, None
    <2>3. /\ Reading \in 0..1 /\ Kept \in 0..1 /\ Packet(place) \in 0..1 /\ Ahead(place) \in 0..1
          /\ UNCHANGED <<Reading, Kept, OthersSent>>
      BY <1>5, Counts DEF Reading, Kept, OthersSent
    <2>4. /\ rx_free \in Nat /\ net_free \in Nat /\ QueueCount \in Nat
          /\ Len(put_queue) \in Nat /\ Len(rpc_evts) \in Nat /\ OthersSent \in Nat
      BY <1>2, Numbers
    <2>5. /\ Packet(next) = Packet(place)
          /\ Ahead(next) = Ahead(place) \/ (Ahead(place) = 1 /\ Ahead(next) = 0)
      <3>1. next = place \/ (next = "rpc" /\ place = "put")
        BY <1>4
      <3> QED
        BY <3>1 DEF Packet, Ahead, AsPacket, One
    <2>6. RemoteBuffers(next, n)'
      <3>1. PICK pl \in Nat : pl = Len(put_queue)
        BY <2>4
      <3>2. PICK rl \in Nat : rl = Len(rpc_evts)
        BY <2>4
      <3>3. Len(put_queue') = pl - 1 /\ Len(rpc_evts') = rl + 1
        BY <3>1, <3>2, <1>5, <1>7
      <3>4. (rx_free + Len(put_queue) + Putting + Reading = QueueCount)'
        BY <2>1, <2>2, <2>3, <2>4, <3>1, <3>3, <1>5 DEF RemoteBuffers
      <3>5. (n + Len(put_queue) <= OthersSent + Ahead(next))'
        BY <2>1, <2>3, <2>4, <2>5, <3>1, <3>3 DEF RemoteBuffers
      <3>6. (n + Len(put_queue) + Len(rpc_evts) + QueueCount <=
                net_free + OthersSent + Packet(next) + Kept)'
        BY <2>1, <2>3, <2>4, <2>5, <3>1, <3>2, <3>3, <1>5 DEF RemoteBuffers
      <3> QED
        BY <3>4, <3>5, <3>6 DEF RemoteBuffers
    <2> QED
      BY <2>6, <1>5, <1>6 DEF Buffers
  <1> QED
    BY <1>1, <1>4, <1>5, <1>8, <1>9, <1>10, <1>11, <1>12, MovedOn DEF Places

LEMMA PutThreadUnrefKeeps == IInv /\ PutThreadUnref => IInv'
  <1> SUFFICES ASSUME IInv, PutThreadUnref PROVE IInv'
    OBVIOUS
  <1>1. PICK place \in Places, packets \in Seq(Packets) : Flow(place, packets)
    BY DEF IInv
  <1>2. Types /\ Events /\ Spare /\ ~halted /\ putting # None
    BY DEF IInv, PutThreadUnref, AppThread
  <1>3. OneCommand(place, packets) /\ Buffers(place, Len(packets))
    BY <1>1, <1>2 DEF Flow
  <1>4. /\ putting' = None /\ rx_free' = rx_free + 1
        /\ UNCHANGED <<build, request, others, wire, dma, h4, put_queue, rpc_evts, net_free, astray,
                       rx_queue, serving, rpc_cmd, tx_free, tx_queue, uart_tx, iqs, halted>>
    BY DEF PutThreadUnref, tester, server, tx
  <1>5. build = "remote"
    BY <1>2 DEF Types, OneCore
  <1>6. Types'
    BY <1>2, <1>4, <1>5 DEF Types, StreamTypes, PoolTypes, QueueTypes, ServerTypes, EventTypes
  <1>7. Events' /\ Spare'
    BY <1>2, <1>4 DEF Events, Spare, OthersSent
  <1>8. OneCommand(place, packets)'
    BY <1>3, <1>4 DEF OneCommand
  <1>9. PICK n \in Nat : n = Len(packets)
    OBVIOUS
  <1>10. Buffers(place, n)'
    <2>1. RemoteBuffers(place, n)
      BY <1>3, <1>5, <1>9 DEF Buffers
    <2>2. Putting = 1 /\ Putting' = 0
      BY <1>2, <1>4 DEF Putting, One
    <2>3. Reading \in 0..1 /\ UNCHANGED <<Reading, Kept, OthersSent>>
      BY <1>4, Counts DEF Reading, Kept, OthersSent
    <2>4. rx_free \in Nat /\ QueueCount \in Nat /\ Len(put_queue) \in Nat
      BY <1>2, Numbers
    <2>5. RemoteBuffers(place, n)'
      BY <2>1, <2>2, <2>3, <2>4, <1>4 DEF RemoteBuffers
    <2> QED
      BY <2>5, <1>4, <1>5 DEF Buffers
  <1> QED
    BY <1>1, <1>4, <1>6, <1>7, <1>8, <1>9, <1>10, MovedOn

LEMMA DtmHciPutHandlerKeeps == IInv /\ DtmHciPutHandler => IInv'
  <1> SUFFICES ASSUME IInv, DtmHciPutHandler PROVE IInv'
    OBVIOUS
  <1>1. PICK place \in Places, packets \in Seq(Packets) : Flow(place, packets)
    BY DEF IInv
  <1>2. Types /\ Events /\ Spare /\ ~halted /\ rpc_evts # <<>>
    BY DEF IInv, DtmHciPutHandler
  <1>3. /\ OneCommand(place, packets) /\ Buffers(place, Len(packets))
        /\ rpc_evts \in Seq(Packets) /\ rx_queue \in Seq(Packets)
    BY <1>1, <1>2 DEF Flow, Types, QueueTypes
  <1>4. /\ rpc_evts' = Tail(rpc_evts)
        /\ UNCHANGED <<build, request, others, wire, dma, h4, rx_free, put_queue, putting,
                       serving, rpc_cmd, tx_free, tx_queue, uart_tx, iqs>>
    BY DEF DtmHciPutHandler, tester, rx, tx
  <1>5. build = "remote"
    BY <1>2 DEF Types, OneCore
  <1>6. PICK n \in Nat : n = Len(packets)
    OBVIOUS
  <1>7. PICK rl \in Nat : rl = Len(rpc_evts) /\ rl > 0
    BY <1>2, <1>3, EmptySeq
  <1>8. Tail(rpc_evts) \in Seq(Packets) /\ Len(Tail(rpc_evts)) = rl - 1
    BY <1>2, <1>3, <1>7, HeadTailProperties
  <1>9. RemoteBuffers(place, n)
    BY <1>3, <1>5, <1>6 DEF Buffers
  <1>10. /\ Kept \in 0..1 /\ Packet(place) \in 0..1
         /\ UNCHANGED <<Reading, Putting, Kept, OthersSent>>
    BY <1>4, Counts DEF Reading, Putting, Kept, OthersSent
  <1>11. /\ net_free \in Nat /\ QueueCount \in Nat
         /\ Len(put_queue) \in Nat /\ OthersSent \in Nat
    BY <1>2, Numbers
  <1>12. Events' /\ astray' \in BOOLEAN
    BY <1>2, <1>4 DEF Events, DtmHciPutHandler, NextInUse, Types
  <1>13. CASE net_free > 0
    <2>1. /\ net_free' = net_free - 1 /\ halted' = halted
          /\ rx_queue' = Append(rx_queue, Head(rpc_evts))
      BY <1>13 DEF DtmHciPutHandler
    <2>pick. PICK p \in Packets, next \in {place, "rx"} :
                Forwards(rpc_evts, rx_queue, "rpc", "rx", place, request, p, next)
      <3>1. At(rpc_evts, "rpc", place, request) /\ At(rx_queue, "rx", place, request)
        BY <1>3 DEF OneCommand, At
      <3>2. "rpc" # "rx"
        OBVIOUS
      <3> QED
        BY <3>1, <3>2, <1>2, <1>3, Forwarded
    <2>2. /\ p = Head(rpc_evts)
          /\ next = IF IsCommand(p) THEN "rx" ELSE place
          /\ IsCommand(p) => place = "rpc"
          /\ Carries(Tail(rpc_evts), next = "rpc", request)
          /\ Carries(Append(rx_queue, p), next = "rx", request)
      BY <2>pick DEF Forwards
    <2>3. OneCommand(next, packets)'
      BY <2>1, <2>2, <1>3, <1>4 DEF OneCommand
    <2>4. next = place \/ (next = "rx" /\ place = "rpc")
      BY <2>2
    <2>5. Packet(next) = Packet(place) /\ Ahead(next) = Ahead(place)
      BY <2>4 DEF Packet, Ahead, AsPacket, One
    <2>6. Types'
      <3>1. rx_queue' \in Seq(Packets)
        BY <2>1, <2>2, <1>3, AppendProperties
      <3>2. net_free' \in Nat
        BY <2>1, <1>11, <1>13
      <3> QED
        BY <2>1, <3>1, <3>2, <1>2, <1>4, <1>5, <1>8, <1>12
           DEF Types, StreamTypes, PoolTypes, QueueTypes, ServerTypes, EventTypes
    <2>7. Buffers(next, n)'
      <3>1. (rx_free + Len(put_queue) + Putting + Reading = QueueCount)'
        BY <1>4, <1>9, <1>10 DEF RemoteBuffers
      <3>2. (n + Len(put_queue) <= OthersSent + Ahead(next))'
        BY <2>5, <1>4, <1>9, <1>10 DEF RemoteBuffers
      <3>3. (n + Len(put_queue) + Len(rpc_evts) + QueueCount <=
                net_free + OthersSent + Packet(next) + Kept)'
        <4>1. n + Len(put_queue) + rl + QueueCount <= net_free + OthersSent + Packet(place) + Kept
          BY <1>7, <1>9 DEF RemoteBuffers
        <4>2. Len(rpc_evts)' = rl - 1 /\ net_free' = net_free - 1
          BY <2>1, <1>4, <1>8
        <4>3. n + Len(put_queue) + (rl - 1) + QueueCount <=
                 (net_free - 1) + OthersSent + Packet(place) + Kept
          BY <4>1, <1>10, <1>11
        <4> QED
          BY <4>2, <4>3, <2>5, <1>4, <1>10
      <3>4. RemoteBuffers(next, n)'
        BY <3>1, <3>2, <3>3 DEF RemoteBuffers
      <3> QED
        BY <3>4, <1>4, <1>5 DEF Buffers
    <2>8. Spare'
      BY <2>1, <1>2 DEF Spare
    <2> QED
      BY <2>1, <2>2, <2>3, <2>6, <2>7, <2>8, <1>1, <1>4, <1>6, <1>12, MovedOn DEF Places
  <1>14. CASE net_free = 0
    <2>1. halted' = TRUE /\ UNCHANGED <<net_free, astray, rx_queue>>
      BY <1>14 DEF DtmHciPutHandler
    <2>2. Types'
      BY <2>1, <1>2, <1>4, <1>5, <1>8
         DEF Types, StreamTypes, PoolTypes, QueueTypes, ServerTypes, EventTypes
    <2>3. OthersSent + 2 > QueueCount
      BY <1>7, <1>9, <1>10, <1>11, <1>14 DEF RemoteBuffers
    <2>4. Spare'
      BY <2>3, <1>10 DEF Spare
    <2>5. Carries(Tail(rpc_evts), place = "rpc", request)
      <3>1. Carries(rpc_evts, place = "rpc", request)
        BY <1>3 DEF OneCommand
      <3> QED
        BY <3>1, <1>2, <1>3, CarriesTail
    <2>6. OneCommand(place, packets)'
      BY <2>1, <2>5, <1>3, <1>4 DEF OneCommand
    <2> QED
      BY <2>1, <2>2, <2>4, <2>6, <1>1, <1>4, <1>6, <1>12, MovedOn
  <1> QED
    BY <1>11, <1>13, <1>14

LEMMA BrokenLinkKeeps == IInv /\ BrokenLink => IInv'
  <1> SUFFICES ASSUME IInv, BrokenLink PROVE IInv'
    OBVIOUS
  <1>1. PICK place \in Places, packets \in Seq(Packets) : Flow(place, packets)
    BY DEF IInv
  <1>2. /\ Types /\ Events /\ astray /\ halted' = TRUE
        /\ UNCHANGED <<build, tester, wire, rx_enabled, rx, remoteVars, server, tx, iqs>>
    BY DEF IInv, BrokenLink
  <1>3. Types' /\ Events' /\ Spare'
    BY <1>2 DEF Types, StreamTypes, PoolTypes, QueueTypes, ServerTypes, EventTypes, OneCore,
                Events, Spare, tester, rx, remoteVars, server, tx
  <1>4. OneCommand(place, packets)'
    BY <1>1, <1>2 DEF Flow, OneCommand, tester, remoteVars, server, tx
  <1>5. Flow(place, packets)'
    BY <1>2, <1>4 DEF Flow
  <1> QED
    BY <1>3, <1>5 DEF IInv

LEMMA ServeGetKeeps == IInv /\ ServeGet => IInv'
  <1> SUFFICES ASSUME IInv, ServeGet PROVE IInv'
    OBVIOUS
  <1>1. PICK place \in Places, packets \in Seq(Packets) : Flow(place, packets)
    BY DEF IInv
  <1>2. Types /\ Events /\ Spare /\ ~halted /\ rx_queue # <<>> /\ serving.pc = "get"
    BY DEF IInv, ServeGet, DtmThread
  <1>3. /\ OneCommand(place, packets) /\ Buffers(place, Len(packets))
        /\ rx_queue \in Seq(Packets) /\ rpc_cmd = NoId
    BY <1>1, <1>2 DEF Flow, Types, QueueTypes, ServerTypes
  <1>4. PICK p \in Packets : p = Head(rx_queue)
    BY <1>2, <1>3, HeadTailProperties
  <1>5. /\ rx_queue' = Tail(rx_queue) /\ serving' = Serving("process", p)
        /\ UNCHANGED <<build, request, others, wire, dma, h4, rx_free, put_queue, putting,
                       rpc_evts, net_free, astray, rpc_cmd, tx_free, tx_queue, uart_tx, iqs,
                       halted>>
    BY <1>4 DEF ServeGet, tester, rx, remoteVars, tx
  <1>6. /\ Carries(Tail(rx_queue), place = "rx", request)
        /\ IsCommand(p) => place = "rx" /\ p[2] = request /\ Carries(Tail(rx_queue), FALSE, request)
    <2>1. Carries(rx_queue, place = "rx", request)
      BY <1>3 DEF OneCommand
    <2> QED
      BY <2>1, <1>2, <1>3, <1>4, CarriesTail
  <1>7. Tail(rx_queue) \in Seq(Packets)
    BY <1>2, <1>3, HeadTailProperties
  <1>8. Types'
    <2>1. ServerTypes'
      BY <1>3, <1>5, <1>2 DEF Types, ServerTypes, Serving
    <2> QED
      BY <2>1, <1>2, <1>5, <1>7 DEF Types, StreamTypes, PoolTypes, QueueTypes, EventTypes, OneCore
  <1>9. Events' /\ Spare'
    BY <1>2, <1>5 DEF Events, Spare, OthersSent
  <1>10. PICK n \in Nat : n = Len(packets)
    OBVIOUS
  <1>11. Unref' = Unref /\ Kept' = Kept
    BY <1>2, <1>5 DEF Unref, Kept, One, Serving
  <1>12. UNCHANGED counters
    BY <1>5, <1>11 DEF counters, OthersSent, Reading, Putting
  <1>13. serving'.pc = "process" /\ serving'.packet = p
    BY <1>5 DEF Serving
  <1>14. CASE IsCommand(p)
    <2>1. OneCommand("process", packets)'
      BY <1>3, <1>5, <1>6, <1>13, <1>14 DEF OneCommand
    <2>2. Buffers("process", n)'
      <3>1. Packet(place) = Packet("process") /\ Ahead(place) = Ahead("process")
        BY <1>6, <1>14 DEF Packet, Ahead, AsPacket, One
      <3>2. Buffers("process", n)
        BY <3>1, <1>3, <1>10 DEF Buffers, LocalBuffers, RemoteBuffers
      <3> QED
        BY <3>2, <1>2, <1>12, BuffersKept DEF Places
    <2> QED
      BY <2>1, <2>2, <1>1, <1>5, <1>8, <1>9, <1>10, MovedOn DEF Places
  <1>15. CASE ~IsCommand(p)
    <2>1. OneCommand(place, packets)'
      BY <1>3, <1>5, <1>6, <1>13, <1>15 DEF OneCommand
    <2>2. Buffers(place, n)'
      BY <1>2, <1>3, <1>10, <1>12, BuffersKept
    <2> QED
      BY <2>1, <2>2, <1>1, <1>5, <1>8, <1>9, <1>10, MovedOn
  <1> QED
    BY <1>14, <1>15

LEMMA IdFacts == \A id \in Ids : id # NoId /\ id # IqReport /\ NoId # IqReport
  BY DEF Ids, NoId, IqReport

LEMMA Written ==
    ASSUME EventTypes, tx_free \in Nat, NEW event \in Ids \cup {IqReport}, HciUartWrite(event)
    PROVE  /\ EventTypes' /\ tx_free' \in Nat /\ uart_tx' = uart_tx
           /\ \/ /\ tx_free' = tx_free - 1 /\ Len(tx_queue') = Len(tx_queue) + 1
                 /\ tx_queue' = Append(tx_queue, event)
              \/ UNCHANGED <<tx_free, tx_queue>>
  <1>1. CASE tx_free > 0 /\ tx_free' = tx_free - 1 /\ tx_queue' = Append(tx_queue, event)
    BY <1>1, AppendProperties DEF EventTypes, HciUartWrite
  <1>2. CASE tx_free = 0 /\ UNCHANGED <<tx_free, tx_queue>>
    BY <1>2 DEF EventTypes, HciUartWrite
  <1> QED
    BY <1>1, <1>2 DEF HciUartWrite

LEMMA AnswerWritten ==
    ASSUME Types, Events, NEW event \in Ids, HciUartWrite(event), iqs' = iqs
    PROVE  Events'
  <1> SUFFICES ASSUME iqs = 0
               PROVE  /\ uart_tx' # IqReport
                      /\ \A i \in 1..Len(tx_queue') : tx_queue'[i] # IqReport
                      /\ tx_free' + Len(tx_queue') + One(uart_tx' # NoId) = QueueCount
    BY DEF Events
  <1>1. EventTypes /\ tx_free \in Nat
    BY DEF Types, PoolTypes
  <1>2. /\ uart_tx' = uart_tx
        /\ \/ /\ tx_free' = tx_free - 1 /\ Len(tx_queue') = Len(tx_queue) + 1
              /\ tx_queue' = Append(tx_queue, event)
           \/ UNCHANGED <<tx_free, tx_queue>>
    BY <1>1, Written
  <1>3. /\ uart_tx # IqReport
        /\ \A i \in 1..Len(tx_queue) : tx_queue[i] # IqReport
        /\ tx_free + Len(tx_queue) + One(uart_tx # NoId) = QueueCount
    BY DEF Events
  <1>4. CASE UNCHANGED <<tx_free, tx_queue>>
    BY <1>2, <1>3, <1>4
  <1>5. CASE /\ tx_free' = tx_free - 1 /\ Len(tx_queue') = Len(tx_queue) + 1
             /\ tx_queue' = Append(tx_queue, event)
    <2>1. PICK l \in Nat : l = Len(tx_queue)
      BY <1>1 DEF EventTypes
    <2>2. ASSUME NEW i \in 1..l + 1 PROVE tx_queue'[i] # IqReport
      <3>1. /\ \A j \in 1..l : Append(tx_queue, event)[j] = tx_queue[j]
            /\ Append(tx_queue, event)[l + 1] = event
        BY <2>1, <1>1, AppendProperties DEF EventTypes
      <3>2. i \in 1..l \/ i = l + 1
        OBVIOUS
      <3> QED
        BY <3>1, <3>2, <2>1, <1>3, <1>5, IdFacts
    <2>3. tx_free' + Len(tx_queue') + One(uart_tx' # NoId) = QueueCount
      <3>1. PICK o \in 0..1 : o = One(uart_tx # NoId)
        BY DEF One
      <3>2. tx_free + l + o = QueueCount
        BY <3>1, <2>1, <1>3
      <3>3. (tx_free - 1) + (l + 1) + o = QueueCount
        BY <3>2, <1>1
      <3> QED
        BY <3>1, <3>3, <2>1, <1>2, <1>5
    <2> QED
      BY <2>1, <2>2, <2>3, <1>2, <1>3, <1>5
  <1> QED
    BY <1>2, <1>4, <1>5

\* The answer is queued behind IQ reports, or dropped.
LEMMA AnswerQueued ==
    ASSUME Types, NEW event \in Ids, HciUartWrite(event), Answers(tx_queue, FALSE, event)
    PROVE  \E next \in {"tx", "nowhere"} : Answers(tx_queue', next = "tx", event)
  <1>1. /\ tx_queue \in Seq(Ids \cup {IqReport}) /\ event \in Ids \cup {IqReport}
        /\ EventTypes /\ tx_free \in Nat
    BY DEF Types, PoolTypes, EventTypes
  <1>2. CASE tx_queue' = Append(tx_queue, event)
    <2>1. Answers(Append(tx_queue, event), TRUE, event)
      BY <1>1, AnswersAppend
    <2>2. Answers(tx_queue', "tx" = "tx", event)
      BY <2>1, <1>2
    <2> QED
      BY <2>2
  <1>3. CASE tx_queue' = tx_queue
    <2>1. Answers(tx_queue', "nowhere" = "tx", event)
      BY <1>3 DEF Answers
    <2> QED
      BY <2>1
  <1> QED
    BY <1>1, <1>2, <1>3, Written

LEMMA ServeCommandKeeps == IInv /\ ServeCommand => IInv'
  <1> SUFFICES ASSUME IInv, ServeCommand PROVE IInv'
    OBVIOUS
  <1>1. PICK place \in Places, packets \in Seq(Packets) : Flow(place, packets)
    BY DEF IInv
  <1>2. Types /\ Events /\ Spare /\ ~halted /\ serving.pc = "process" /\ IsCommand(serving.packet)
    BY DEF IInv, ServeCommand, DtmThread, IsCommand
  <1>3. /\ OneCommand(place, packets) /\ Buffers(place, Len(packets))
        /\ place = "process" /\ serving.packet[2] = request
    BY <1>1, <1>2 DEF Flow, OneCommand
  <1>4. request \in Ids /\ serving.packet \in Packets
    BY <1>2, <1>3, PacketFacts DEF Types, ServerTypes
  <1>5. UNCHANGED <<build, request, others, wire, dma, h4, rx_free, put_queue, putting, rpc_evts,
                    net_free, astray, rx_queue, iqs, halted>>
    BY DEF ServeCommand, tester, rx, remoteVars
  <1>6. Spare'
    BY <1>2, <1>5 DEF Spare, OthersSent
  <1>7. PICK n \in Nat : n = Len(packets)
    OBVIOUS
  <1>8. UNCHANGED <<Reading, Putting, OthersSent>> /\ Reading \in 0..1
    BY <1>5, Counts DEF Reading, Putting, OthersSent
  <1>9. Unref = 0 /\ Kept = 0 /\ Packet(place) = 1 /\ Ahead(place) = 0
    BY <1>2, <1>3 DEF Unref, Kept, Packet, Ahead, One, AsPacket
  <1>10. rx_free \in Nat /\ net_free \in Nat /\ QueueCount \in Nat /\ OthersSent \in Nat
    BY <1>2, Numbers
  <1>11. CASE build = "local"
    <2>1. /\ HciUartWrite(request) /\ rpc_cmd' = rpc_cmd
          /\ serving' = [serving EXCEPT !.pc = "unref"]
      BY <1>3, <1>11 DEF ServeCommand
    <2>2. /\ serving'.pc = "unref" /\ serving'.packet = serving.packet
          /\ rpc_cmd = NoId /\ uart_tx' = uart_tx
      BY <2>1, <1>2 DEF Types, ServerTypes, HciUartWrite
    <2>3. Answers(tx_queue, FALSE, request)
      BY <1>3 DEF OneCommand
    <2>4. PICK next \in {"tx", "nowhere"} : Answers(tx_queue', next = "tx", request)
      BY <2>1, <2>3, <1>2, <1>4, AnswerQueued
    <2>5. OneCommand(next, packets)'
      BY <2>1, <2>2, <2>4, <1>3, <1>4, <1>5, IdFacts DEF OneCommand
    <2>6. Types'
      <3>1. EventTypes' /\ tx_free' \in Nat
        BY <2>1, <1>2, <1>4, Written DEF Types, PoolTypes
      <3>2. ServerTypes'
        BY <2>1, <2>2, <1>2, <1>4 DEF Types, ServerTypes
      <3> QED
        BY <2>1, <3>1, <3>2, <1>2, <1>5 DEF Types, StreamTypes, PoolTypes, QueueTypes, OneCore
    <2>7. Events'
      BY <2>1, <1>2, <1>4, <1>5, AnswerWritten
    <2>8. Buffers(next, n)'
      <3>1. Unref' = 1
        BY <2>2 DEF Unref, One
      <3>2. Packet(next) = 0
        BY DEF Packet, One, AsPacket
      <3>3. LocalBuffers(next, n)'
        BY <3>1, <3>2, <1>3, <1>5, <1>7, <1>8, <1>9, <1>10, <1>11 DEF Buffers, LocalBuffers
      <3> QED
        BY <3>3, <1>5, <1>11 DEF Buffers
    <2> QED
      BY <2>5, <2>6, <2>7, <2>8, <1>1, <1>5, <1>6, <1>7, MovedOn DEF Places
  <1>12. CASE build = "remote"
    <2>1. /\ rpc_cmd' = request /\ serving' = [serving EXCEPT !.pc = "wait"]
          /\ UNCHANGED <<tx_free, tx_queue, uart_tx>>
      BY <1>3, <1>12 DEF ServeCommand, tx
    <2>2. serving'.pc = "wait" /\ serving'.packet = serving.packet
      BY <2>1, <1>2 DEF Types, ServerTypes
    <2>3. OneCommand("wait", packets)'
      BY <2>1, <2>2, <1>3, <1>4, <1>5, IdFacts DEF OneCommand
    <2>4. Types'
      <3>1. ServerTypes'
        BY <2>1, <2>2, <1>2, <1>4, IdFacts DEF Types, ServerTypes
      <3> QED
        BY <2>1, <3>1, <1>2, <1>5, <1>12 DEF Types, StreamTypes, PoolTypes, QueueTypes, EventTypes
    <2>5. Events'
      BY <2>1, <1>2, <1>5 DEF Events
    <2>6. Buffers("wait", n)'
      <3>1. Kept' = 1
        BY <2>2 DEF Kept, One
      <3>2. Packet("wait") = 0 /\ Ahead("wait") = 0
        BY DEF Packet, Ahead, One, AsPacket
      <3>3. RemoteBuffers("wait", n)'
        BY <3>1, <3>2, <1>3, <1>5, <1>7, <1>8, <1>9, <1>10, <1>12 DEF Buffers, RemoteBuffers
      <3> QED
        BY <3>3, <1>5, <1>12 DEF Buffers
    <2> QED
      BY <2>3, <2>4, <2>5, <2>6, <1>1, <1>5, <1>6, <1>7, MovedOn DEF Places
  <1> QED
    BY <1>2, <1>11, <1>12 DEF Types

LEMMA HciUartWriteHandlerKeeps == IInv /\ HciUartWriteHandler => IInv'
  <1> SUFFICES ASSUME IInv, HciUartWriteHandler PROVE IInv'
    OBVIOUS
  <1>1. PICK place \in Places, packets \in Seq(Packets) : Flow(place, packets)
    BY DEF IInv
  <1>2. Types /\ Events /\ Spare /\ ~halted /\ rpc_cmd # NoId
    BY DEF IInv, HciUartWriteHandler, AppThread
  <1>3. /\ OneCommand(place, packets) /\ Buffers(place, Len(packets))
        /\ place = "wait" /\ rpc_cmd = request /\ request \in Ids
    BY <1>1, <1>2 DEF Flow, OneCommand, Types, ServerTypes
  <1>4. /\ HciUartWrite(request) /\ rpc_cmd' = NoId /\ serving' = [serving EXCEPT !.pc = "unref"]
        /\ UNCHANGED <<build, request, others, wire, dma, h4, rx_free, put_queue, putting,
                       rpc_evts, net_free, astray, rx_queue, iqs, halted>>
    BY <1>3 DEF HciUartWriteHandler, tester, rx, remoteVars
  <1>5. /\ serving.pc = "wait" /\ serving.packet \in Packets
        /\ serving'.pc = "unref" /\ serving'.packet = serving.packet /\ uart_tx' = uart_tx
    BY <1>2, <1>4 DEF Types, ServerTypes, HciUartWrite
  <1>6. build = "remote"
    BY <1>2 DEF Types, OneCore
  <1>7. Answers(tx_queue, FALSE, request)
    BY <1>3 DEF OneCommand
  <1>8. PICK next \in {"tx", "nowhere"} : Answers(tx_queue', next = "tx", request)
    BY <1>2, <1>3, <1>4, <1>7, AnswerQueued
  <1>9. OneCommand(next, packets)'
    BY <1>3, <1>4, <1>5, <1>8, IdFacts DEF OneCommand
  <1>10. Types'
    <2>1. EventTypes' /\ tx_free' \in Nat
      BY <1>2, <1>3, <1>4, Written DEF Types, PoolTypes
    <2>2. ServerTypes'
      BY <1>2, <1>4, <1>5 DEF Types, ServerTypes
    <2> QED
      BY <2>1, <2>2, <1>2, <1>4, <1>6 DEF Types, StreamTypes, PoolTypes, QueueTypes
  <1>11. Events' /\ Spare'
    <2>1. Events'
      BY <1>2, <1>3, <1>4, AnswerWritten
    <2> QED
      BY <2>1, <1>2, <1>4 DEF Spare, OthersSent
  <1>12. PICK n \in Nat : n = Len(packets)
    OBVIOUS
  <1>13. Buffers(next, n)'
    <2>1. Kept = 1 /\ Kept' = 1 /\ UNCHANGED <<Reading, Putting, OthersSent>>
      BY <1>4, <1>5 DEF Kept, One, Reading, Putting, OthersSent
    <2>2. Packet(next) = Packet(place) /\ Ahead(next) = Ahead(place)
      BY <1>3 DEF Packet, Ahead, One, AsPacket
    <2>3. RemoteBuffers(next, n)'
      BY <2>1, <2>2, <1>3, <1>4, <1>6, <1>12 DEF Buffers, RemoteBuffers
    <2> QED
      BY <2>3, <1>4, <1>6 DEF Buffers
  <1> QED
    BY <1>1, <1>4, <1>8, <1>9, <1>10, <1>11, <1>12, <1>13, MovedOn DEF Places

LEMMA ServeUnrefKeeps == IInv /\ ServeUnref => IInv'
  <1> SUFFICES ASSUME IInv, ServeUnref PROVE IInv'
    OBVIOUS
  <1>1. PICK place \in Places, packets \in Seq(Packets) : Flow(place, packets)
    BY DEF IInv
  <1>2. Types /\ Events /\ Spare /\ ~halted /\ serving.pc = "unref" /\ rpc_cmd = NoId
    BY DEF IInv, ServeUnref, DtmThread, Types, ServerTypes
  <1>3. OneCommand(place, packets) /\ Buffers(place, Len(packets))
    BY <1>1, <1>2 DEF Flow
  <1>4. /\ serving' = Serving("get", None)
        /\ UNCHANGED <<build, request, others, wire, dma, h4, put_queue, putting, rpc_evts,
                       astray, rx_queue, rpc_cmd, tx_free, tx_queue, uart_tx, iqs, halted>>
    BY DEF ServeUnref, tester, tx
  <1>5. serving'.pc = "get"
    BY <1>4 DEF Serving
  <1>6. /\ build = "local" => rx_free' = rx_free + 1 /\ net_free' = net_free
        /\ build = "remote" => net_free' = net_free + 1 /\ rx_free' = rx_free
    BY DEF ServeUnref, Free
  <1>7. Types'
    <2>1. ServerTypes'
      BY <1>2, <1>4 DEF Types, ServerTypes, Serving
    <2>2. PoolTypes'
      BY <1>2, <1>4, <1>6 DEF Types, PoolTypes
    <2> QED
      BY <2>1, <2>2, <1>2, <1>4 DEF Types, StreamTypes, QueueTypes, EventTypes, OneCore
  <1>8. Events' /\ Spare'
    BY <1>2, <1>4 DEF Events, Spare, OthersSent
  <1>9. OneCommand(place, packets)'
    BY <1>3, <1>4, <1>5 DEF OneCommand
  <1>10. PICK n \in Nat : n = Len(packets)
    OBVIOUS
  <1>11. Buffers(place, n)'
    <2>1. /\ Unref = 1 /\ Unref' = 0 /\ Kept = 1 /\ Kept' = 0
          /\ UNCHANGED <<Reading, Putting, OthersSent>>
      BY <1>2, <1>4, <1>5 DEF Unref, Kept, One, Reading, Putting, OthersSent
    <2>2. /\ rx_free \in Nat /\ net_free \in Nat /\ QueueCount \in Nat /\ OthersSent \in Nat
          /\ Reading \in 0..1 /\ Packet(place) \in 0..1
      BY <1>2, Numbers, Counts
    <2>3. Buffers(place, n)
      BY <1>3, <1>10
    <2>4. build = "local" => LocalBuffers(place, n)'
      BY <2>1, <2>2, <2>3, <1>6 DEF Buffers, LocalBuffers
    <2>5. build = "remote" => RemoteBuffers(place, n)'
      BY <2>1, <2>2, <2>3, <1>4, <1>6 DEF Buffers, RemoteBuffers
    <2> QED
      BY <2>4, <2>5, <1>4 DEF Buffers
  <1> QED
    BY <1>1, <1>4, <1>7, <1>8, <1>9, <1>10, <1>11, MovedOn

LEMMA ServeOtherKeeps == IInv /\ ServeOther => IInv'
  <1> SUFFICES ASSUME IInv, ServeOther PROVE IInv'
    OBVIOUS
  <1>1. PICK place \in Places, packets \in Seq(Packets) : Flow(place, packets)
    BY DEF IInv
  <1>2. Types /\ Events /\ Spare /\ ~halted /\ serving.pc = "process" /\ rpc_cmd = NoId
    BY DEF IInv, ServeOther, DtmThread, Types, ServerTypes
  <1>3. OneCommand(place, packets) /\ Buffers(place, Len(packets))
    BY <1>1, <1>2 DEF Flow
  <1>4. /\ serving' = Serving("get", None)
        /\ UNCHANGED <<build, request, others, wire, dma, h4, rx_free, put_queue, putting,
                       rpc_evts, net_free, astray, rx_queue, rpc_cmd, tx_free, tx_queue,
                       uart_tx, iqs, halted>>
    BY DEF ServeOther, tester, rx, remoteVars, tx
  <1>5. serving'.pc = "get"
    BY <1>4 DEF Serving
  <1>6. Types'
    <2>1. ServerTypes'
      BY <1>2, <1>4 DEF Types, ServerTypes, Serving
    <2> QED
      BY <2>1, <1>2, <1>4 DEF Types, StreamTypes, PoolTypes, QueueTypes, EventTypes, OneCore
  <1>7. Events' /\ Spare'
    BY <1>2, <1>4 DEF Events, Spare, OthersSent
  <1>8. OneCommand(place, packets)'
    BY <1>3, <1>4, <1>5 DEF OneCommand
  <1>9. PICK n \in Nat : n = Len(packets)
    OBVIOUS
  <1>10. Buffers(place, n)'
    <2>1. UNCHANGED <<Unref, Kept>>
      BY <1>2, <1>5 DEF Unref, Kept
    <2>2. UNCHANGED counters
      BY <2>1, <1>4 DEF counters, OthersSent, Reading, Putting
    <2> QED
      BY <2>2, <1>2, <1>3, <1>9, BuffersKept
  <1> QED
    BY <1>1, <1>4, <1>6, <1>7, <1>8, <1>9, <1>10, MovedOn

\* Steps of the UART's other half: no buffer of a packet is concerned.
LEMMA SentOn ==
    ASSUME Types, NEW place \in Places, NEW packets \in Seq(Packets), Flow(place, packets),
           ~halted, Spare, NEW next \in Places,
           Packet(next) = Packet(place), Ahead(next) = Ahead(place),
           UNCHANGED <<build, others, wire, dma, h4, rx_free, put_queue, putting, rpc_evts,
                       net_free, astray, rx_queue, serving, rpc_cmd, halted>>,
           OneCommand(next, packets)', request' \in Ids \cup {NoId}, iqs' \in Nat,
           EventTypes', tx_free' \in Nat, Events'
    PROVE  IInv'
  <1>1. PICK n \in Nat : n = Len(packets)
    OBVIOUS
  <1>2. Types'
    BY DEF Types, StreamTypes, PoolTypes, QueueTypes, ServerTypes, OneCore
  <1>3. Buffers(next, n)'
    <2>1. UNCHANGED counters
      BY DEF counters, OthersSent, Reading, Putting, Unref, Kept
    <2>2. Buffers(place, n)
      BY <1>1 DEF Flow
    <2>3. Buffers(next, n)
      BY <2>2 DEF Buffers, LocalBuffers, RemoteBuffers
    <2> QED
      BY <2>1, <2>3, BuffersKept
  <1>4. Spare'
    BY DEF Spare
  <1> QED
    BY <1>1, <1>2, <1>3, <1>4, MovedOn

LEMMA IqReportEvtKeeps == IInv /\ IqReportEvt => IInv'
  <1> SUFFICES ASSUME IInv, IqReportEvt PROVE IInv'
    OBVIOUS
  <1>1. PICK place \in Places, packets \in Seq(Packets) : Flow(place, packets)
    BY DEF IInv
  <1>2. Types /\ Spare /\ ~halted
    BY DEF IInv, IqReportEvt
  <1>3. /\ OneCommand(place, packets) /\ Answers(tx_queue, place = "tx", request)
        /\ EventTypes /\ tx_free \in Nat /\ tx_queue \in Seq(Ids \cup {IqReport})
    BY <1>1, <1>2 DEF Flow, OneCommand, Types, PoolTypes, EventTypes
  <1>4. /\ HciUartWrite(IqReport) /\ iqs' = iqs + 1
        /\ UNCHANGED <<build, request, others, wire, dma, h4, rx_free, put_queue, putting,
                       rpc_evts, net_free, astray, rx_queue, serving, rpc_cmd, halted>>
    BY DEF IqReportEvt, tester, rx, remoteVars, server
  <1>5. /\ EventTypes' /\ tx_free' \in Nat /\ uart_tx' = uart_tx
        /\ tx_queue' = Append(tx_queue, IqReport) \/ tx_queue' = tx_queue
    BY <1>3, <1>4, Written
  <1>6. Answers(tx_queue', place = "tx", request)
    <2>1. Answers(Append(tx_queue, IqReport), place = "tx", request)
      <3>1. IqReport \in Ids \cup {IqReport}
        OBVIOUS
      <3> QED
        BY <3>1, <1>3, AnswersAppend
    <2> QED
      BY <2>1, <1>3, <1>5
  <1>7. OneCommand(place, packets)'
    BY <1>3, <1>4, <1>5, <1>6 DEF OneCommand
  <1>8. iqs' \in Nat /\ Events'
    BY <1>2, <1>4 DEF Types, Events
  <1>9. request' \in Ids \cup {NoId}
    BY <1>2, <1>4 DEF Types
  <1> QED
    BY <1>1, <1>2, <1>4, <1>5, <1>7, <1>8, <1>9, SentOn

LEMMA TxThreadKeeps == IInv /\ TxThread => IInv'
  <1> SUFFICES ASSUME IInv, TxThread PROVE IInv'
    OBVIOUS
  <1>1. PICK place \in Places, packets \in Seq(Packets) : Flow(place, packets)
    BY DEF IInv
  <1>2. Types /\ Events /\ Spare /\ ~halted /\ tx_queue # <<>>
    BY DEF IInv, TxThread, AppThread
  <1>3. /\ OneCommand(place, packets) /\ Answers(tx_queue, place = "tx", request)
        /\ tx_queue \in Seq(Ids \cup {IqReport}) /\ uart_tx \in Ids \cup {IqReport, NoId}
        /\ tx_free \in Nat
    BY <1>1, <1>2 DEF Flow, OneCommand, Types, PoolTypes, EventTypes
  <1>4. PICK event \in Ids \cup {IqReport} : event = Head(tx_queue)
    BY <1>2, <1>3, HeadTailProperties
  <1>5. PICK tail \in Seq(Ids \cup {IqReport}) :
           tail = Tail(tx_queue) /\ Len(tail) = Len(tx_queue) - 1
    BY <1>2, <1>3, HeadTailProperties
  <1>6. /\ tx_queue' = tail /\ uart_tx' = IF uart_tx = NoId THEN event ELSE uart_tx
        /\ UNCHANGED <<build, request, others, wire, dma, h4, rx_free, put_queue, putting,
                       rpc_evts, net_free, astray, rx_queue, serving, rpc_cmd, tx_free, iqs,
                       halted>>
    BY <1>4, <1>5 DEF TxThread, tester, rx, remoteVars, server
  <1>7. /\ Answers(tail, place = "tx", request)
        /\ event # IqReport => place = "tx" /\ event = request /\ Answers(tail, FALSE, request)
    <2>1. /\ Answers(Tail(tx_queue), place = "tx", request)
          /\ Head(tx_queue) # IqReport =>
                /\ place = "tx" /\ Head(tx_queue) = request
                /\ Answers(Tail(tx_queue), FALSE, request)
      BY <1>2, <1>3, AnswersTail, Zenon
    <2> QED
      BY <2>1, <1>4, <1>5
  <1>8. EventTypes'
    BY <1>3, <1>6 DEF EventTypes
  <1>9. Events'
    <2> SUFFICES ASSUME iqs = 0
                 PROVE  /\ uart_tx' # IqReport
                        /\ \A i \in 1..Len(tail) : tail[i] # IqReport
                        /\ tx_free + Len(tail) + One(uart_tx' # NoId) = QueueCount
      BY <1>6 DEF Events
    <2>1. /\ uart_tx # IqReport
          /\ \A i \in 1..Len(tx_queue) : tx_queue[i] # IqReport
          /\ tx_free + Len(tx_queue) + One(uart_tx # NoId) = QueueCount
      BY <1>2 DEF Events
    <2>2. event # IqReport
      BY <2>1, <1>2, <1>3, <1>4, EmptySeq
    <2>3. uart_tx = NoId
      BY <2>1, <2>2, <1>3, <1>7 DEF OneCommand
    <2>4. uart_tx' = event /\ event # NoId
      BY <2>2, <2>3, <1>6, IdFacts
    <2>5. ASSUME NEW i \in 1..Len(tail) PROVE tail[i] # IqReport
      <3>1. tail[i] = tx_queue[i + 1] /\ i + 1 \in 1..Len(tx_queue)
        BY <1>2, <1>3, <1>5, HeadTailProperties
      <3> QED
        BY <3>1, <2>1
    <2>6. tx_free + Len(tail) + One(uart_tx' # NoId) = QueueCount
      <3>1. One(uart_tx # NoId) = 0 /\ One(uart_tx' # NoId) = 1
        BY <2>3, <2>4 DEF One
      <3>2. PICK l \in Nat : l = Len(tx_queue)
        BY <1>3
      <3> QED
        BY <3>1, <3>2, <2>1, <1>3, <1>5
    <2> QED
      BY <2>2, <2>4, <2>5, <2>6
  <1>10. request' \in Ids \cup {NoId} /\ iqs' \in Nat /\ tx_free' \in Nat
    BY <1>2, <1>3, <1>6 DEF Types
  <1>11. CASE event # IqReport
    <2>1. PICK next \in {"uart", "nowhere"} : next = IF uart_tx = NoId THEN "uart" ELSE "nowhere"
      OBVIOUS
    <2>2. uart_tx \in {NoId, IqReport} /\ event # NoId
      BY <1>3, <1>7, <1>11, IdFacts DEF OneCommand
    <2>3. Answers(tail, next = "tx", request)
      BY <1>7, <1>11
    <2>4. uart_tx' \notin {NoId, IqReport} => next = "uart" /\ uart_tx' = request
      BY <2>1, <2>2, <1>6, <1>7, <1>11
    <2>5. OneCommand(next, packets)'
      BY <2>2, <2>3, <2>4, <1>3, <1>6, <1>7, <1>11, IdFacts DEF OneCommand
    <2>6. Packet(next) = Packet(place) /\ Ahead(next) = Ahead(place) /\ next \in Places
      BY <1>7, <1>11 DEF Packet, Ahead, One, AsPacket, Places
    <2> QED
      BY <2>5, <2>6, <1>1, <1>2, <1>6, <1>8, <1>9, <1>10, SentOn
  <1>12. CASE event = IqReport
    <2>1. uart_tx' = uart_tx \/ uart_tx' = IqReport
      BY <1>6, <1>12
    <2>2. OneCommand(place, packets)'
      BY <2>1, <1>3, <1>6, <1>7 DEF OneCommand
    <2> QED
      BY <2>2, <1>1, <1>2, <1>6, <1>8, <1>9, <1>10, SentOn
  <1> QED
    BY <1>11, <1>12

LEMMA TxDoneKeeps == IInv /\ TxDone => IInv'
  <1> SUFFICES ASSUME IInv, TxDone PROVE IInv'
    OBVIOUS
  <1>1. PICK place \in Places, packets \in Seq(Packets) : Flow(place, packets)
    BY DEF IInv
  <1>2. Types /\ Events /\ Spare /\ ~halted /\ uart_tx # NoId
    BY DEF IInv, TxDone
  <1>3. /\ OneCommand(place, packets) /\ EventTypes /\ tx_free \in Nat
        /\ tx_queue \in Seq(Ids \cup {IqReport})
    BY <1>1, <1>2 DEF Flow, Types, PoolTypes, EventTypes
  <1>4. /\ uart_tx' = NoId /\ tx_free' = tx_free + 1
        /\ uart_tx = IqReport => request' = request
        /\ uart_tx # IqReport => request' = NoId
        /\ UNCHANGED <<build, others, wire, dma, h4, rx_free, put_queue, putting, rpc_evts,
                       net_free, astray, rx_queue, serving, rpc_cmd, tx_queue, iqs, halted>>
    BY DEF TxDone, Released, rx, remoteVars, server
  <1>5. EventTypes' /\ tx_free' \in Nat
    BY <1>3, <1>4 DEF EventTypes
  <1>6. Events'
    <2> SUFFICES ASSUME iqs = 0
                 PROVE  /\ \A i \in 1..Len(tx_queue) : tx_queue[i] # IqReport
                        /\ tx_free' + Len(tx_queue) + One(uart_tx' # NoId) = QueueCount
      BY <1>4, IdFacts DEF Events, IqReport, NoId
    <2>1. /\ \A i \in 1..Len(tx_queue) : tx_queue[i] # IqReport
          /\ tx_free + Len(tx_queue) + One(uart_tx # NoId) = QueueCount
      BY <1>2 DEF Events
    <2>2. One(uart_tx # NoId) = 1 /\ One(uart_tx' # NoId) = 0
      BY <1>2, <1>4 DEF One
    <2>3. PICK l \in Nat : l = Len(tx_queue)
      BY <1>3
    <2> QED
      BY <2>1, <2>2, <2>3, <1>3, <1>4
  <1>7. request' \in Ids \cup {NoId} /\ iqs' \in Nat
    BY <1>2, <1>4 DEF Types
  <1>8. CASE uart_tx = IqReport
    <2>1. OneCommand(place, packets)'
      BY <1>3, <1>4, <1>8 DEF OneCommand
    <2> QED
      BY <2>1, <1>1, <1>2, <1>4, <1>5, <1>6, <1>7, SentOn
  <1>9. CASE uart_tx # IqReport
    <2>1. place = "uart"
      BY <1>2, <1>3, <1>9 DEF OneCommand
    <2>2. /\ Carries(put_queue, FALSE, request) /\ Carries(rpc_evts, FALSE, request)
          /\ Carries(rx_queue, FALSE, request) /\ Answers(tx_queue, FALSE, request)
          /\ Carries(packets, FALSE, request)
          /\ ~(serving.pc = "process" /\ IsCommand(serving.packet)) /\ rpc_cmd = NoId
      BY <2>1, <1>2, <1>3 DEF OneCommand
    <2>3. /\ Carries(put_queue, FALSE, NoId) /\ Carries(rpc_evts, FALSE, NoId)
          /\ Carries(rx_queue, FALSE, NoId) /\ Answers(tx_queue, FALSE, NoId)
          /\ Carries(packets, FALSE, NoId)
      BY <2>2 DEF Carries, Answers
    <2>4. OneCommand("nowhere", packets)'
      BY <2>2, <2>3, <1>4, <1>9 DEF OneCommand
    <2>5. Packet("nowhere") = Packet(place) /\ Ahead("nowhere") = Ahead(place)
      BY <2>1 DEF Packet, Ahead, One, AsPacket
    <2> QED
      BY <2>4, <2>5, <1>1, <1>2, <1>4, <1>5, <1>6, <1>7, SentOn DEF Places
  <1> QED
    BY <1>8, <1>9

LEMMA StepIInv == IInv /\ [Next]_vars => IInv'
  <1> SUFFICES ASSUME IInv, [Next]_vars PROVE IInv'
    OBVIOUS
  <1>1. CASE UNCHANGED vars
    <2>1. UNCHANGED <<build, request, others, rx_free, remoteVars, server, tx, iqs, halted, wire,
                      dma, h4>>
      BY <1>1 DEF vars, tester, rx
    <2>2. ~halted => Parsing
      BY DEF IInv, Flow
    <2>3. Stream' = Stream /\ StreamTypes' /\ Reading' = Reading /\ (~halted => Parsing')
      BY <2>1, <2>2 DEF IInv, Types, StreamTypes, Stream, Reading, Parsing
    <2> QED
      BY <2>1, <2>3, ReadOnKeeps
  <1>2. CASE SendCommand \/ SendOther
    BY <1>2, SendCommandKeeps, SendOtherKeeps
  <1>3. CASE RxReady \/ RxStopped
    BY <1>3, RxReadyKeeps, RxStoppedKeeps
  <1>4. CASE H4Read
    BY <1>4, H4TypeKeeps, H4HeaderKeeps, H4PayloadKeeps, H4OverflowKeeps DEF H4Read
  <1>5. CASE PutThreadSend \/ PutThreadUnref \/ DtmHciPutHandler \/ BrokenLink
    BY <1>5, PutThreadSendKeeps, PutThreadUnrefKeeps, DtmHciPutHandlerKeeps, BrokenLinkKeeps
  <1>6. CASE ServeGet \/ ServeCommand \/ HciUartWriteHandler \/ ServeUnref \/ ServeOther
    BY <1>6, ServeGetKeeps, ServeCommandKeeps, HciUartWriteHandlerKeeps, ServeUnrefKeeps,
       ServeOtherKeeps
  <1>7. CASE IqReportEvt \/ TxThread \/ TxDone
    BY <1>7, IqReportEvtKeeps, TxThreadKeeps, TxDoneKeeps
  <1> QED
    BY <1>1, <1>2, <1>3, <1>4, <1>5, <1>6, <1>7 DEF Next

LEMMA IInvHolds == Spec => []IInv
  BY InitIInv, StepIInv, PTL DEF Spec

-----------------------------------------------------------------------------
(***************************************************************************)
(* The theorems.                                                           *)
(***************************************************************************)
\* However the driver chops the stream into interrupts, and whatever the
\* lengths: every packet that is queued or served on one core, or is handed to
\* RPC on two, is a packet that was sent, type and all; and so on the network
\* core, as long as no type was written where it does harm.
THEOREM PacketsArriveIntact == Spec => []PacketsIntact
  <1>1. IInv => PacketsIntact
    <2> SUFFICES ASSUME IInv PROVE PacketsIntact
      OBVIOUS
    <2>1. QueueTypes /\ ServerTypes
      BY DEF IInv, Types
    <2>2. ASSUME NEW queue \in Seq(Packets) PROVE Elements(queue) \subseteq Packets
      BY ElementOfSeq DEF Elements
    <2> QED
      BY <2>1, <2>2 DEF QueueTypes, ServerTypes, PacketsIntact, Packets
  <1> QED
    BY <1>1, IInvHolds, PTL

\* The buffers lost to packets that are no commands are the only ones that are
\* lost: as long as two are left, no packet is longer than a buffer and no type
\* went astray, the device does not halt, whatever the pools' size.
THEOREM BuffersLast == Spec => []NeverOutOfBuffers
  <1>1. IInv => NeverOutOfBuffers
    BY Numbers, UartAssumption DEF IInv, Spare, NeverOutOfBuffers, OthersSent
  <1> QED
    BY <1>1, IInvHolds, PTL

\* Until the first IQ report every event's buffer is in the pool, in the queue
\* or on the line: tx_thread never meets a busy UART.
THEOREM NoEventIsLost == Spec => []EventsKept
  <1>1. IInv => EventsKept
    <2>1. One(uart_tx # NoId) = IF uart_tx = NoId THEN 0 ELSE 1
      BY DEF One
    <2> QED
      BY <2>1 DEF IInv, Events, EventsKept
  <1> QED
    BY <1>1, IInvHolds, PTL

\* Every step of the driver, the queues and the RPC layer is a step HciLink
\* allows, or none that it sees: an answer is the one to the command that waits,
\* and none comes twice.
THEOREM LinkIsSafe == Spec => Link!LinkInit /\ [][Link!LinkNext]_(Link!linkVars)
  <1>1. Init => Link!LinkInit
    BY DEF Init, Link!LinkInit
  <1>2. IInv /\ [Next]_vars => [Link!LinkNext]_(Link!linkVars)
    <2> SUFFICES ASSUME IInv, [Next]_vars PROVE [Link!LinkNext]_(Link!linkVars)
      OBVIOUS
    <2>1. iqs \in Nat /\ halted \in BOOLEAN /\ astray \in BOOLEAN
      BY DEF IInv, Types
    <2>2. CASE SendCommand
      <3>1. UNCHANGED <<answered, rx_enabled, iqs, halted, astray>>
        BY <2>2 DEF SendCommand, remoteVars
      <3>2. request = NoId /\ \E id \in Ids : id # answered /\ request' = id
        BY <2>2 DEF SendCommand
      <3>3. \E id \in Ids : Link!Request(id)
        BY <3>1, <3>2 DEF Link!Request
      <3> QED
        BY <3>3 DEF Link!LinkNext
    <2>3. CASE TxDone
      <3>1. UNCHANGED <<rx_enabled, iqs, halted, astray>> /\ ~halted
        BY <2>3 DEF TxDone, tester, remoteVars
      <3>2. CASE uart_tx = IqReport
        BY <2>3, <3>1, <3>2 DEF TxDone, Link!linkVars
      <3>3. CASE uart_tx # IqReport
        <4>1. uart_tx = request /\ request # NoId
          BY <2>3, <3>3 DEF IInv, Flow, OneCommand, TxDone
        <4>2. answered' = request /\ request' = NoId
          BY <2>3, <3>3, <4>1 DEF TxDone
        <4> QED
          BY <3>1, <4>1, <4>2 DEF Link!LinkNext, Link!AnswerRequest
      <3> QED
        BY <3>2, <3>3
    <2>4. ASSUME UNCHANGED <<request, answered>>, rx_enabled' = rx_enabled \/ rx_enabled' = FALSE,
                 iqs' = iqs \/ iqs' = iqs + 1, halted' = halted \/ halted' = TRUE,
                 astray' = astray \/ astray' = TRUE
          PROVE  [Link!LinkNext]_(Link!linkVars)
      <3>1. CASE UNCHANGED <<rx_enabled, iqs, halted, astray>>
        BY <2>4, <3>1 DEF Link!linkVars
      <3>2. CASE ~UNCHANGED <<rx_enabled, iqs, halted, astray>>
        <4>1. iqs' > 0 \/ ~rx_enabled' \/ halted' \/ astray'
          BY <2>1, <2>4, <3>2
        <4>2. Link!Disturb
          BY <2>4, <4>1 DEF Link!Disturb
        <4> QED
          BY <4>2 DEF Link!LinkNext
      <3> QED
        BY <3>1, <3>2
    <2>5. CASE UNCHANGED vars
      BY <2>4, <2>5 DEF vars, tester, remoteVars
    <2>6. CASE SendOther \/ RxReady \/ RxStopped
      BY <2>4, <2>6 DEF SendOther, RxReady, RxStopped, tester, remoteVars
    <2>7. CASE H4Read
      BY <2>4, <2>7 DEF H4Read, H4Type, H4Header, H4Payload, H4Overflow, tester, remoteVars
    <2>8. CASE PutThreadSend \/ PutThreadUnref
      BY <2>4, <2>8 DEF PutThreadSend, PutThreadUnref, tester
    <2>11. CASE DtmHciPutHandler \/ BrokenLink
      <3>1. astray' = astray \/ astray' = TRUE
        BY <2>1, <2>11 DEF DtmHciPutHandler, BrokenLink, NextInUse, remoteVars
      <3> QED
        BY <3>1, <2>4, <2>11 DEF DtmHciPutHandler, BrokenLink, tester
    <2>9. CASE ServeGet \/ ServeCommand \/ HciUartWriteHandler \/ ServeUnref \/ ServeOther
      BY <2>4, <2>9
         DEF ServeGet, ServeCommand, HciUartWriteHandler, ServeUnref, ServeOther, tester,
             remoteVars
    <2>10. CASE IqReportEvt \/ TxThread
      BY <2>4, <2>10 DEF IqReportEvt, TxThread, tester, remoteVars
    <2> QED
      BY <2>2, <2>3, <2>5, <2>6, <2>7, <2>8, <2>9, <2>10, <2>11 DEF Next
  <1> QED
    BY <1>1, <1>2, IInvHolds, PTL DEF Spec
=============================================================================
