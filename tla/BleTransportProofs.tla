------------------------ MODULE BleTransportProofs ------------------------
(***************************************************************************)
(* Proofs about BleTransport, for any messages, any size of the queue and  *)
(* any packet sizes: the bounds the builder keeps, that the phone parses   *)
(* the stream of messages the builder cuts into packets, and what it       *)
(* parses after packets were lost or a header was repeated.                *)
(*                                                                         *)
(* The parser is a recursive function over the bytes of a packet.  That    *)
(* its steps exist, and what they all satisfy, is shown by way of the      *)
(* least byte at which it would fail.                                      *)
(***************************************************************************)
EXTENDS BleTransport, SequenceTheorems, WellFoundedInduction, TLAPS

Message == [opcode : Nat, req_app : Nat, payload : Seq(Nat)]

(* The queue and the message in hand *)
QueueOK ==
  /\ txq \in Seq(Messages) /\ Len(txq) <= Cap
  /\ tx_cur_msg \in Message
  /\ tx_offset \in 0..Len(tx_cur_msg.payload)

LinkOK ==
  /\ ready \in BOOLEAN /\ linked \in BOOLEAN /\ (ready => linked)
  /\ effective_mtu \in Nat

(* While a packet is built it holds the flag alone, which a packet of size  *)
(* 0 cannot carry, or it fits.                                              *)
PacketOK ==
  /\ pump \in {"idle", "start", "build", "notify"}
  /\ pkt_mtu \in Nat /\ tx_buffer \in Seq(Nat)
  /\ pump = "build" => Len(tx_buffer) = 1 \/ Len(tx_buffer) \in 2..pkt_mtu
  /\ pump = "notify" => Len(tx_buffer) \in 2..pkt_mtu

(* The inductive invariant *)
IInv == QueueOK /\ LinkOK /\ PacketOK

USE DEF HeaderLen, BLE_MAGIC, DefaultMtu, link, packet, builder, receiver, history

LEMMA InitIInv == Init => IInv
<1> SUFFICES ASSUME Init PROVE IInv
  OBVIOUS
<1>1. QueueOK
  <2>1. tx_cur_msg = [opcode |-> 0, req_app |-> 0, payload |-> <<>>] /\ txq = <<>>
        /\ tx_offset = 0
    BY DEF Init
  <2>2. tx_cur_msg \in Message /\ Len(tx_cur_msg.payload) = 0
    BY <2>1 DEF Message
  <2>3. txq \in Seq(Messages) /\ Len(txq) = 0
    BY <2>1
  <2> QED
    BY <2>1, <2>2, <2>3, TransportAssumption DEF QueueOK
<1>2. LinkOK
  BY Zenon DEF Init, LinkOK
<1>3. PacketOK
  BY DEF Init, PacketOK
<1> QED
  BY <1>1, <1>2, <1>3 DEF IInv

LEMMA RequestIInv ==
  ASSUME IInv, NEW m \in Messages, handle_ble_request(m)
  PROVE  IInv'
<1>1. Cap \in Nat \ {0} /\ txq \in Seq(Messages) /\ Len(txq) <= Cap /\ Len(txq) \in Nat
  BY TransportAssumption DEF IInv, QueueOK
<1>2. txq' \in Seq(Messages) /\ Len(txq') <= Cap
  <2>1. CASE Len(txq) = Cap
    <3>1. Tail(txq) \in Seq(Messages) /\ Len(Tail(txq)) = Cap - 1
      BY <1>1, <2>1
    <3>2. txq' = Append(Tail(txq), m)
      BY <2>1 DEF handle_ble_request
    <3>3. txq' \in Seq(Messages) /\ Len(txq') = Len(Tail(txq)) + 1
      BY <3>1, <3>2, AppendProperties
    <3> QED
      BY <1>1, <3>1, <3>3
  <2>2. CASE Len(txq) # Cap
    <3>1. txq' = Append(txq, m)
      BY <2>2 DEF handle_ble_request
    <3>2. txq' \in Seq(Messages) /\ Len(txq') = Len(txq) + 1
      BY <1>1, <3>1, AppendProperties
    <3> QED
      BY <1>1, <2>2, <3>2
  <2> QED
    BY <2>1, <2>2
<1> QED
  BY <1>2 DEF IInv, QueueOK, LinkOK, PacketOK, handle_ble_request

LEMMA LinkIInv ==
  ASSUME IInv,
         \/ connected \/ disconnected
         \/ \E value \in BOOLEAN : mw_ccc_cfg_changed(value)
         \/ \E mtu \in Mtus : mtu_updated(mtu)
  PROVE  IInv'
<1>1. UNCHANGED <<txq, builder, packet, pump>>
  BY DEF connected, disconnected, mw_ccc_cfg_changed, mtu_updated
<1>2. QueueOK' /\ PacketOK'
  BY <1>1 DEF IInv, QueueOK, PacketOK
<1>3. LinkOK'
  <2>1. CASE connected \/ disconnected
    BY <2>1, Zenon DEF connected, disconnected, IInv, LinkOK
  <2>2. ASSUME NEW value \in BOOLEAN, mw_ccc_cfg_changed(value) PROVE LinkOK'
    BY <2>2, Zenon DEF mw_ccc_cfg_changed, IInv, LinkOK
  <2>3. ASSUME NEW mtu \in Mtus, mtu_updated(mtu) PROVE LinkOK'
    <3>1. mtu \in Nat
      BY TransportAssumption
    <3>2. effective_mtu' \in Nat /\ UNCHANGED <<ready, linked>>
      BY <2>3, <3>1 DEF mtu_updated
    <3> QED
      BY <3>2, Zenon DEF IInv, LinkOK
  <2> QED
    BY <2>1, <2>2, <2>3
<1> QED
  BY <1>2, <1>3 DEF IInv

(* The chunk ends where the room or the payload ends. *)
LEMMA ChunkFits ==
  ASSUME IInv, WriteChunk
  PROVE  /\ Chunk(tx_cur_msg) \in Seq(Nat)
         /\ Chunk(tx_cur_msg) = SubSeq(tx_cur_msg.payload, tx_offset + 1,
                                       tx_offset + Len(Chunk(tx_cur_msg)))
         /\ tx_offset + Len(Chunk(tx_cur_msg)) \in 0..Len(tx_cur_msg.payload)
         /\ Len(Chunk(tx_cur_msg)) <= (IF tx_offset = 0 THEN Room - HeaderLen ELSE Room)
         /\ \/ tx_offset + Len(Chunk(tx_cur_msg)) = Len(tx_cur_msg.payload)
            \/ Len(Chunk(tx_cur_msg)) = (IF tx_offset = 0 THEN Room - HeaderLen ELSE Room)
<1> DEFINE pl == tx_cur_msg.payload
           room == IF tx_offset = 0 THEN Room - HeaderLen ELSE Room
           left == Len(pl) - tx_offset
           n == IF left < room THEN left ELSE room
<1>1. pl \in Seq(Nat) /\ Len(pl) \in Nat /\ tx_offset \in 0..Len(pl)
  BY DEF IInv, QueueOK, Message
<1>2. Room \in Int /\ Room > 0 /\ (tx_offset = 0 => Room >= HeaderLen)
  BY <1>1 DEF IInv, PacketOK, WriteChunk, HeaderMustWait, Room
<1>3. room \in Nat /\ left \in Nat
  BY <1>1, <1>2
<1>4. n \in Nat /\ n <= room /\ n <= left /\ (n = left \/ n = room)
  BY <1>3
<1>9. tx_offset + left = Len(pl)
  BY <1>1
<1> HIDE DEF n, room
<1>5. Chunk(tx_cur_msg) = SubSeq(pl, tx_offset + 1, tx_offset + n)
  BY DEF Chunk, n, room
<1>6. tx_offset + n <= Len(pl) /\ tx_offset + n \in Nat /\ tx_offset \in Nat
  BY <1>1, <1>4
<1>7. ASSUME NEW a \in Nat, NEW k \in Nat, a + k <= Len(pl)
      PROVE  SubSeq(pl, a + 1, a + k) \in Seq(Nat) /\ Len(SubSeq(pl, a + 1, a + k)) = k
  BY <1>1, <1>7
<1>8. Chunk(tx_cur_msg) \in Seq(Nat) /\ Len(Chunk(tx_cur_msg)) = n
  <2>1. /\ SubSeq(pl, tx_offset + 1, tx_offset + n) \in Seq(Nat)
        /\ Len(SubSeq(pl, tx_offset + 1, tx_offset + n)) = n
    <3> HIDE DEF pl, left
    <3> QED
      BY <1>4, <1>6, <1>7
  <2> QED
    BY <1>5, <2>1
<1> QED
  BY <1>4, <1>5, <1>6, <1>8, <1>9 DEF room

(* The header and the chunk fit into the packet. *)
LEMMA WriteIInv ==
  ASSUME IInv, WriteChunk
  PROVE  IInv'
<1> DEFINE chunk == Chunk(tx_cur_msg)
           head == IF tx_offset = 0 THEN Header(tx_cur_msg) ELSE <<>>
           hlen == IF tx_offset = 0 THEN HeaderLen ELSE 0
<1>1. /\ chunk \in Seq(Nat) /\ tx_offset + Len(chunk) \in 0..Len(tx_cur_msg.payload)
      /\ Len(chunk) <= (IF tx_offset = 0 THEN Room - HeaderLen ELSE Room)
  BY ChunkFits
<1>2. /\ tx_buffer \in Seq(Nat) /\ pkt_mtu \in Nat
      /\ Len(tx_buffer) \in Nat /\ Len(tx_buffer) >= 1
      /\ Room = pkt_mtu - Len(tx_buffer) /\ Room > 0
  <2>1. /\ tx_buffer \in Seq(Nat) /\ pkt_mtu \in Nat /\ Len(tx_buffer) \in Nat
        /\ Len(tx_buffer) = 1 \/ Len(tx_buffer) \in 2..pkt_mtu
    BY DEF IInv, PacketOK, WriteChunk
  <2>2. Room = pkt_mtu - Len(tx_buffer) /\ Room > 0
    BY DEF Room, WriteChunk
  <2> QED
    BY SMTT(40), <2>1, <2>2
<1>3. head \in Seq(Nat) /\ Len(head) = hlen
  <2>1. tx_cur_msg.opcode \in Nat /\ tx_cur_msg.req_app \in Nat /\ tx_cur_msg.payload \in Seq(Nat)
    BY DEF IInv, QueueOK, Message
  <2>2. Len(tx_cur_msg.payload) \in Nat
    BY <2>1
  <2> QED
    BY <2>1, <2>2 DEF Header
<1> HIDE DEF chunk, head
<1>4. Len(chunk) \in Nat
  BY <1>1
<1>5. tx_buffer' = (tx_buffer \o head) \o chunk
  BY DEF WriteChunk, head, chunk
<1>6. tx_buffer \o head \in Seq(Nat) /\ Len(tx_buffer \o head) = Len(tx_buffer) + hlen
  BY <1>2, <1>3, ConcatProperties
<1>7. tx_buffer' \in Seq(Nat) /\ Len(tx_buffer') = Len(tx_buffer) + hlen + Len(chunk)
  <2>1. /\ (tx_buffer \o head) \o chunk \in Seq(Nat)
        /\ Len((tx_buffer \o head) \o chunk) = Len(tx_buffer \o head) + Len(chunk)
    BY <1>1, <1>6, ConcatProperties
  <2> QED
    BY <1>2, <1>4, <1>5, <1>6, <2>1
<1>8. Len(tx_buffer') = 1 \/ Len(tx_buffer') \in 2..pkt_mtu
  BY <1>1, <1>2, <1>4, <1>7
<1>9. PacketOK'
  BY <1>7, <1>8 DEF WriteChunk, IInv, PacketOK
<1>10. QueueOK'
  BY <1>1 DEF WriteChunk, IInv, QueueOK, chunk
<1>11. LinkOK'
  BY Zenon DEF WriteChunk, IInv, LinkOK
<1> QED
  BY <1>9, <1>10, <1>11 DEF IInv

LEMMA HookIInv ==
  ASSUME IInv, Hook
  PROVE  IInv'
<1>1. CASE populate_tx_buffers
  BY <1>1 DEF populate_tx_buffers, IInv, QueueOK, LinkOK, PacketOK
<1>2. CASE StartPacket
  <2>1. tx_buffer' \in Seq(Nat) /\ Len(tx_buffer') = 1
    BY <1>2 DEF StartPacket, ContinuationFlag
  <2> QED
    BY <1>2, <2>1 DEF StartPacket, IInv, QueueOK, LinkOK, PacketOK
<1>3. CASE LoadMessage
  <2>1. txq \in Seq(Messages) /\ txq # <<>>
    BY <1>3 DEF IInv, QueueOK, LoadMessage
  <2>2. /\ Head(txq) \in Messages /\ Tail(txq) \in Seq(Messages)
        /\ Len(Tail(txq)) = Len(txq) - 1 /\ Len(txq) \in Nat
    BY <2>1, HeadTailProperties
  <2>3. Head(txq) \in Message
    BY <2>2, TransportAssumption DEF Message
  <2>4. tx_cur_msg' \in Message /\ tx_offset' = 0 /\ Len(tx_cur_msg'.payload) \in Nat
    BY <1>3, <2>3 DEF LoadMessage, Message
  <2>5. QueueOK'
    BY <1>3, <2>2, <2>4, TransportAssumption DEF LoadMessage, IInv, QueueOK
  <2>6. LinkOK' /\ PacketOK'
    BY <1>3 DEF LoadMessage, IInv, LinkOK, PacketOK
  <2> QED
    BY <2>5, <2>6 DEF IInv
<1>4. CASE WriteChunk
  BY <1>4, WriteIInv
<1>5. CASE EndPacket
  <2>1. QueueOK' /\ LinkOK'
    BY <1>5 DEF EndPacket, IInv, QueueOK, LinkOK
  <2>2. ASSUME PacketHasData PROVE PacketOK'
    <3>1. pump = "build" /\ pump' = "notify" /\ UNCHANGED <<tx_buffer, pkt_mtu>>
      BY <1>5, <2>2 DEF EndPacket
    <3>2. /\ tx_buffer \in Seq(Nat) /\ pkt_mtu \in Nat
          /\ Len(tx_buffer) = 1 \/ Len(tx_buffer) \in 2..pkt_mtu
      BY <3>1 DEF IInv, PacketOK
    <3>3. Len(tx_buffer) > 1
      BY <2>2 DEF PacketHasData
    <3>4. Len(tx_buffer) \in 2..pkt_mtu
      BY <3>2, <3>3
    <3> QED
      BY <3>1, <3>2, <3>4 DEF PacketOK
  <2>3. ASSUME ~PacketHasData PROVE PacketOK'
    BY <1>5, <2>3 DEF EndPacket, NoPacket, PacketOK
  <2> QED
    BY <2>1, <2>2, <2>3 DEF IInv
<1>6. CASE NotifySucceeds
  BY <1>6 DEF NotifySucceeds, NoPacket, IInv, QueueOK, LinkOK, PacketOK
<1>7. CASE PacketLost
  BY <1>7 DEF PacketLost, NoPacket, IInv, QueueOK, LinkOK, PacketOK
<1> QED
  BY <1>1, <1>2, <1>3, <1>4, <1>5, <1>6, <1>7 DEF Hook

(* Every state that requests, the link and the hook reach satisfies the     *)
(* inductive invariant.                                                     *)
THEOREM TransportInvariant == Spec => []IInv
<1>1. IInv /\ [Next]_vars => IInv'
  <2> SUFFICES ASSUME IInv, [Next]_vars PROVE IInv'
    OBVIOUS
  <2>1. CASE Request
    BY <2>1, RequestIInv DEF Request
  <2>2. CASE Hook
    BY <2>2, HookIInv
  <2>3. CASE UNCHANGED vars
    BY <2>3 DEF vars, IInv, QueueOK, LinkOK, PacketOK
  <2> QED
    BY <2>1, <2>2, <2>3, LinkIInv DEF Next
<1> QED
  BY InitIInv, <1>1, PTL DEF Spec

(* A packet that is handed to bt_gatt_notify is never longer than the limit *)
(* it was built for (ble_packet_handler.c:28-84) and never the flag alone;  *)
(* the queue and the offset stay in their bounds.                           *)
THEOREM TransportTypeOK == Spec => []TypeOK
<1>1. IInv => TypeOK
  <2> SUFFICES ASSUME IInv PROVE TypeOK
    OBVIOUS
  <2>1. Range(txq) \subseteq Messages
    <3>1. txq \in Seq(Messages)
      BY DEF IInv, QueueOK
    <3>2. \A i \in DOMAIN txq : txq[i] \in Messages
      BY <3>1
    <3> QED
      BY <3>2 DEF Range
  <2>2. ready \in BOOLEAN /\ linked \in BOOLEAN /\ (ready => linked)
    BY Zenon DEF IInv, LinkOK
  <2> QED
    BY <2>1, <2>2 DEF IInv, QueueOK, PacketOK, TypeOK
<1> QED
  BY <1>1, TransportInvariant, PTL

-----------------------------------------------------------------------------
(* Sets of numbers, and the steps of the parser *)

(* A set of numbers that is not empty has a least one. *)
LEMMA LeastNumber ==
  ASSUME NEW T, T \subseteq Nat, T # {}
  PROVE  \E x \in T : \A y \in T : x <= y
<1> DEFINE R == OpToRel(<, Nat)
<1>1. IsWellFoundedOn(R, Nat)
  BY NatLessThanWellFounded
<1> HIDE DEF R
<1>2. PICK x \in T : \A y \in T : ~(<<y, x>> \in R)
  BY <1>1, WFMin
<1>3. ASSUME NEW y \in T, y < x
      PROVE  FALSE
  <2>1. <<y, x>> \in R
    BY <1>3 DEF R, OpToRel
  <2> QED
    BY <1>2, <2>1
<1> QED
  BY <1>2, <1>3

(* The steps of the parser exist, one for every byte. *)
LEMMA ParserSteps ==
  ASSUME NEW start, NEW pkt \in Seq(Nat), Len(pkt) >= 1
  PROVE  \E a : /\ a[1] = start
                /\ \A i \in 2..Len(pkt) : a[i] = ReadByte(a[i - 1], pkt[i], Len(pkt) - i)
                /\ ReadBytes(start, pkt) = a[Len(pkt)]
<1> DEFINE N == Len(pkt)
           Step(g, i) == IF i = 1 THEN start ELSE ReadByte(g[i - 1], pkt[i], N - i)
           Upto(n) == \E g : g = [i \in 1..n |-> Step(g, i)]
           T == {n \in 1..N : ~Upto(n)}
<1>1. N \in Nat /\ N >= 1 /\ DOMAIN pkt = 1..N
  OBVIOUS
<1> HIDE DEF N
<1>2. Upto(1)
  <2> DEFINE g == [i \in 1..1 |-> start]
  <2>1. g = [i \in 1..1 |-> Step(g, i)]
    OBVIOUS
  <2> QED
    BY <2>1
<1>3. ASSUME NEW n \in 1..N, n # 1, Upto(n - 1)
      PROVE  Upto(n)
  <2>1. PICK g : g = [i \in 1..(n - 1) |-> Step(g, i)]
    BY <1>3
  <2> DEFINE h == [i \in 1..n |-> IF i = n THEN ReadByte(g[n - 1], pkt[n], N - n) ELSE g[i]]
  <2>2. \A i \in 1..(n - 1) : g[i] = Step(g, i)
    BY <2>1
  <2>3. ASSUME NEW i \in 1..n
        PROVE  h[i] = Step(h, i)
    <3>1. CASE i = n
      <4>1. n - 1 \in 1..n /\ n - 1 # n
        BY <1>1, <1>3
      <4>2. h[n - 1] = g[n - 1]
        BY <4>1
      <4> QED
        BY <1>3, <3>1, <4>2
    <3>2. CASE i # n
      <4>1. i \in 1..(n - 1) /\ (i # 1 => i - 1 \in 1..n /\ i - 1 # n)
        BY <1>1, <3>2
      <4>2. h[i] = g[i] /\ (i # 1 => h[i - 1] = g[i - 1])
        BY <4>1, <3>2
      <4> QED
        BY <2>2, <4>1, <4>2
    <3> QED
      BY <3>1, <3>2
  <2> HIDE DEF Step
  <2>4. h = [i \in 1..n |-> Step(h, i)]
    BY <2>3
  <2> QED
    BY <2>4
<1> HIDE DEF Upto
<1>4. Upto(N)
  <2> SUFFICES ASSUME T # {}
               PROVE  FALSE
    BY <1>1
  <2>1. T \subseteq Nat
    BY <1>1
  <2>2. PICK n \in T : \A y \in T : n <= y
    <3> HIDE DEF T
    <3> QED
      BY <2>1, LeastNumber
  <2>3. n # 1 /\ n - 1 \in 1..N /\ ~(n <= n - 1)
    BY <1>1, <1>2, <2>2
  <2>4. Upto(n - 1)
    BY <2>2, <2>3
  <2> QED
    BY <1>3, <2>2, <2>3, <2>4
<1> DEFINE a == CHOOSE g : g = [i \in DOMAIN pkt |-> Step(g, i)]
<1>5. a = [i \in 1..N |-> Step(a, i)]
  <2>1. \E g : g = [i \in DOMAIN pkt |-> Step(g, i)]
    BY <1>1, <1>4 DEF Upto
  <2>2. a = [i \in DOMAIN pkt |-> Step(a, i)]
    BY <2>1
  <2> QED
    BY <1>1, <2>2
<1>6. ReadBytes(start, pkt) = a[N]
  BY DEF ReadBytes, N
<1> HIDE DEF a
<1>7. \A i \in 1..N : a[i] = Step(a, i)
  BY <1>5
<1>8. a[1] = start
  BY <1>1, <1>7
<1>9. \A i \in 2..N : a[i] = ReadByte(a[i - 1], pkt[i], N - i)
  BY <1>1, <1>7
<1> QED
  BY <1>6, <1>8, <1>9 DEF N

-----------------------------------------------------------------------------
(* What the phone reads, in step with the builder *)

States == {"magic", "header", "payload"}
Ctx(state, got, hdr, msgs) == [state |-> state, got |-> got, hdr |-> hdr, msgs |-> msgs]

(* The parser between two messages, and with n bytes of the payload of m. *)
Ready(msgs) == Ctx("magic", <<>>, <<>>, msgs)
HeaderOf(m) == <<m.opcode, m.req_app, Len(m.payload)>>
Within(m, n, msgs) == Ctx("payload", SubSeq(m.payload, 1, n), HeaderOf(m), msgs)

(* r are the steps of the parser over pkt; no header is cut. *)
Parsing(r, start, pkt) ==
  /\ r[1] = start
  /\ \A i \in 1..Len(pkt) : r[i].state \in States
  /\ \A i \in 2..Len(pkt) :
       /\ r[i] = ReadByte(r[i - 1], pkt[i], HeaderLen - 1)
       /\ r[i - 1].state = "magic" /\ pkt[i] = BLE_MAGIC => i + 3 <= Len(pkt)

(* pkt, as far as it is built, takes the parser from start to c. *)
Parsed(start, pkt, c) == \E r : Parsing(r, start, pkt) /\ r[Len(pkt)] = c

(* The bytes that follow only matter to a magic byte. *)
LEMMA ReadByteLeft ==
  ASSUME NEW c, c.state \in States, NEW b, NEW left \in Int,
         c.state = "magic" /\ b = BLE_MAGIC => left >= 3
  PROVE  ReadByte(c, b, left) = ReadByte(c, b, HeaderLen - 1)
<1>1. CASE c.state = "magic"
  <2>1. ASSUME NEW x
        PROVE  ReadByte(c, b, x) =
                 IF b = BLE_MAGIC /\ x >= HeaderLen - 1 THEN [c EXCEPT !.state = "header"] ELSE c
    BY <1>1 DEF ReadByte
  <2>2. CASE b = BLE_MAGIC
    <3>1. left >= HeaderLen - 1 /\ HeaderLen - 1 >= HeaderLen - 1
      BY <1>1, <2>2
    <3> QED
      BY <2>1, <2>2, <3>1
  <2>3. CASE b # BLE_MAGIC
    BY <2>1, <2>3
  <2> QED
    BY <2>2, <2>3
<1>2. CASE c.state = "header"
  BY <1>2 DEF ReadByte
<1>3. CASE c.state = "payload"
  BY <1>3 DEF ReadByte
<1> QED
  BY <1>1, <1>2, <1>3 DEF States

(* The parser comes to the same state when the packet is complete. *)
LEMMA ParsedReads ==
  ASSUME NEW start, NEW pkt \in Seq(Nat), Len(pkt) >= 1, NEW c, Parsed(start, pkt, c)
  PROVE  ReadBytes(start, pkt) = c
<1> DEFINE N == Len(pkt)
<1>1. N \in Nat /\ N >= 1 /\ \A i \in 1..N : pkt[i] \in Nat
  OBVIOUS
<1>2. PICK r : Parsing(r, start, pkt) /\ r[N] = c
  BY DEF Parsed
<1>3. PICK a : /\ a[1] = start
               /\ \A i \in 2..N : a[i] = ReadByte(a[i - 1], pkt[i], N - i)
               /\ ReadBytes(start, pkt) = a[N]
  BY ParserSteps
<1> DEFINE T == {i \in 1..N : a[i] # r[i]}
<1>4. T = {}
  <2> SUFFICES ASSUME T # {} PROVE FALSE
    OBVIOUS
  <2>1. T \subseteq Nat
    BY <1>1
  <2>2. PICK i \in T : \A j \in T : i <= j
    <3> HIDE DEF T
    <3> QED
      BY <2>1, LeastNumber
  <2>3. i \in 1..N /\ a[i] # r[i]
    BY <2>2
  <2>4. i # 1
    BY <1>2, <1>3, <2>3 DEF Parsing
  <2>5. i \in 2..N /\ i - 1 \in 1..N /\ ~(i <= i - 1) /\ N - i \in Int
    BY <1>1, <2>3, <2>4
  <2>6. a[i - 1] = r[i - 1]
    BY <2>2, <2>5
  <2>7. /\ r[i - 1].state \in States
        /\ r[i] = ReadByte(r[i - 1], pkt[i], HeaderLen - 1)
        /\ r[i - 1].state = "magic" /\ pkt[i] = BLE_MAGIC => i + 3 <= N
    BY <1>2, <2>5 DEF Parsing
  <2>8. r[i - 1].state = "magic" /\ pkt[i] = BLE_MAGIC => N - i >= 3
    BY <1>1, <2>5, <2>7
  <2>9. ReadByte(r[i - 1], pkt[i], N - i) = ReadByte(r[i - 1], pkt[i], HeaderLen - 1)
    BY <2>5, <2>7, <2>8, ReadByteLeft
  <2> QED
    BY <1>3, <2>3, <2>5, <2>6, <2>7, <2>9
<1>5. N \notin T => a[N] = r[N]
  BY <1>1
<1> QED
  BY <1>2, <1>3, <1>4, <1>5

(* The flag is not a byte of the stream. *)
LEMMA ParsedFlag ==
  ASSUME NEW c, c.state \in States, NEW flag
  PROVE  Parsed(c, <<flag>>, c)
<1> DEFINE r == [i \in 1..1 |-> c]
<1>1. Len(<<flag>>) = 1
  OBVIOUS
<1>2. Parsing(r, c, <<flag>>) /\ r[1] = c
  BY <1>1 DEF Parsing
<1> HIDE DEF r
<1> QED
  BY <1>1, <1>2 DEF Parsed

(* The steps of the parser over more bytes come after the others. *)
LEMMA ParsedMore ==
  ASSUME NEW start, NEW pkt \in Seq(Nat), Len(pkt) >= 1, NEW b \in Seq(Nat), NEW q,
         Parsed(start, pkt, q[0]),
         \A j \in 1..Len(b) : /\ q[j].state \in States
                              /\ q[j] = ReadByte(q[j - 1], b[j], HeaderLen - 1)
                              /\ q[j - 1].state = "magic" /\ b[j] = BLE_MAGIC
                                   => j + 3 <= Len(b)
  PROVE  Parsed(start, pkt \o b, q[Len(b)])
<1> DEFINE N == Len(pkt)
           K == Len(b)
           all == pkt \o b
<1>1. N \in Nat /\ N >= 1 /\ K \in Nat
  OBVIOUS
<1>2. /\ all \in Seq(Nat) /\ Len(all) = N + K
      /\ \A i \in 1..(N + K) : all[i] = IF i <= N THEN pkt[i] ELSE b[i - N]
  BY ConcatProperties
<1> HIDE DEF all
<1>3. PICK r : Parsing(r, start, pkt) /\ r[N] = q[0]
  BY DEF Parsed
<1>4. /\ r[1] = start
      /\ \A i \in 1..N : r[i].state \in States
      /\ \A i \in 2..N : /\ r[i] = ReadByte(r[i - 1], pkt[i], HeaderLen - 1)
                         /\ r[i - 1].state = "magic" /\ pkt[i] = BLE_MAGIC => i + 3 <= N
  BY <1>3 DEF Parsing
<1> HIDE DEF N, K
<1> DEFINE s == [i \in 1..(N + K) |-> IF i <= N THEN r[i] ELSE q[i - N]]
<1>5. s[1] = start
  BY <1>1, <1>4
<1>6. \A i \in 1..(N + K) : s[i] = IF i <= N THEN r[i] ELSE q[i - N]
  OBVIOUS
<1>7. ASSUME NEW i \in 1..(N + K) PROVE s[i].state \in States
  <2>1. CASE i <= N
    BY <1>1, <1>4, <1>6, <2>1
  <2>2. CASE ~(i <= N)
    <3>1. i - N \in 1..K
      BY <1>1, <2>2
    <3> QED
      BY <1>6, <2>2, <3>1 DEF K
  <2> QED
    BY <2>1, <2>2
<1> HIDE DEF s
<1>8. ASSUME NEW i \in 2..(N + K)
      PROVE  /\ s[i] = ReadByte(s[i - 1], all[i], HeaderLen - 1)
             /\ s[i - 1].state = "magic" /\ all[i] = BLE_MAGIC => i + 3 <= N + K
  <2>1. i \in 1..(N + K) /\ i - 1 \in 1..(N + K)
    BY <1>1
  <2>2. CASE i <= N
    <3>1. i \in 2..N /\ i - 1 <= N
      BY <1>1, <2>2
    <3>2. s[i] = r[i] /\ s[i - 1] = r[i - 1] /\ all[i] = pkt[i]
      BY <1>2, <1>6, <2>1, <2>2, <3>1
    <3>3. i + 3 <= N => i + 3 <= N + K
      BY <1>1, <2>1
    <3> QED
      BY <1>4, <3>1, <3>2, <3>3
  <2>3. CASE ~(i <= N)
    <3> DEFINE j == i - N
    <3>1. j \in 1..K /\ j - 1 = (i - 1) - N /\ j + N = i
      BY <1>1, <2>3
    <3>2. s[i] = q[j] /\ all[i] = b[j]
      BY <1>2, <1>6, <2>1, <2>3
    <3>3. s[i - 1] = q[j - 1]
      <4>1. CASE i - 1 = N
        BY <1>1, <1>3, <1>6, <2>1, <3>1, <4>1
      <4>2. CASE i - 1 # N
        <5>1. ~(i - 1 <= N)
          BY <1>1, <2>3, <4>2
        <5> QED
          BY <1>6, <2>1, <3>1, <5>1
      <4> QED
        BY <4>1, <4>2
    <3>4. j + 3 <= K => i + 3 <= N + K
      BY <1>1, <3>1
    <3> HIDE DEF j
    <3> QED
      BY <3>1, <3>2, <3>3, <3>4 DEF K
  <2> QED
    BY <2>2, <2>3
<1>9. s[N + K] = q[K]
  <2>1. CASE K = 0
    BY <1>1, <1>3, <1>6, <2>1
  <2>2. CASE K # 0
    <3>1. N + K \in 1..(N + K) /\ ~(N + K <= N) /\ (N + K) - N = K
      BY <1>1, <2>2
    <3>2. s[N + K] = q[(N + K) - N]
      BY <1>6, <3>1
    <3> QED
      BY <3>1, <3>2
  <2> QED
    BY <2>1, <2>2
<1>10. Parsing(s, start, all)
  BY <1>2, <1>5, <1>7, <1>8 DEF Parsing
<1> QED
  BY <1>2, <1>9, <1>10 DEF Parsed, all, K

(* What a step of the parser does to its state *)
LEMMA ReadyIs ==
  ASSUME NEW msgs
  PROVE  [rx_reset_context EXCEPT !.msgs = msgs] = Ready(msgs)
  BY DEF Ctx, Ready, rx_reset_context

(* The fields of a parser state *)
LEMMA CtxFields ==
  ASSUME NEW state, NEW got, NEW hdr, NEW msgs, NEW c, c = Ctx(state, got, hdr, msgs)
  PROVE  c.state = state /\ c.got = got /\ c.hdr = hdr /\ c.msgs = msgs
  BY DEF Ctx

(* The bytes of a header, one after the other *)
LEMMA AppendNumber ==
  ASSUME NEW a \in Nat, NEW b \in Nat, NEW c \in Nat
  PROVE  /\ Append(<<>>, a) = <<a>> /\ Len(<<a>>) = 1
         /\ Append(<<a>>, b) = <<a, b>> /\ Len(<<a, b>>) = 2
         /\ Append(<<a, b>>, c) = <<a, b, c>> /\ Len(<<a, b, c>>) = 3
<1>1. <<a>> \in Seq(Nat) /\ <<a, b>> \in Seq(Nat) /\ <<a, b, c>> \in Seq(Nat)
  OBVIOUS
<1>2. Append(<<a, b>>, c) = <<a, b, c>>
  <2>1. /\ Append(<<a, b>>, c) \in Seq(Nat) /\ Len(Append(<<a, b>>, c)) = 3
        /\ \A i \in 1..3 : Append(<<a, b>>, c)[i] = <<a, b, c>>[i]
    BY <1>1, AppendProperties
  <2> QED
    BY <1>1, <2>1, SeqEqual
<1>3. Append(<<a>>, b) = <<a, b>>
  <2>1. /\ Append(<<a>>, b) \in Seq(Nat) /\ Len(Append(<<a>>, b)) = 2
        /\ \A i \in 1..2 : Append(<<a>>, b)[i] = <<a, b>>[i]
    BY <1>1, AppendProperties
  <2> QED
    BY <1>1, <2>1, SeqEqual
<1> QED
  BY <1>1, <1>2, <1>3

(* A message as it is received *)
LEMMA MessageIs ==
  ASSUME NEW m \in Message
  PROVE  /\ m.opcode \in Nat /\ m.req_app \in Nat /\ m.payload \in Seq(Nat)
         /\ Len(m.payload) \in Nat
         /\ m = [opcode |-> m.opcode, req_app |-> m.req_app, payload |-> m.payload]
<1>1. m.opcode \in Nat /\ m.req_app \in Nat /\ m.payload \in Seq(Nat)
  BY DEF Message
<1>2. m = [opcode |-> m.opcode, req_app |-> m.req_app, payload |-> m.payload]
  BY DEF Message
<1> QED
  BY <1>1, <1>2

(* The last byte of a message delivers it whole. *)
LEMMA DeliverIs ==
  ASSUME NEW m \in Message, NEW c
  PROVE  Deliver(c, HeaderOf(m), m.payload) = Ready(Append(c.msgs, m))
<1>1. HeaderOf(m)[1] = m.opcode /\ HeaderOf(m)[2] = m.req_app
  BY DEF HeaderOf
<1>2. [opcode |-> HeaderOf(m)[1], req_app |-> HeaderOf(m)[2], payload |-> m.payload] = m
  BY <1>1, MessageIs
<1>3. Deliver(c, HeaderOf(m), m.payload) = [rx_reset_context EXCEPT !.msgs = Append(c.msgs, m)]
  BY <1>2 DEF Deliver
<1> QED
  BY <1>3, ReadyIs

(* Between two messages a byte other than the magic one is skipped. *)
LEMMA ParsedSkip ==
  ASSUME NEW start, NEW pkt \in Seq(Nat), Len(pkt) >= 1, NEW msgs,
         Parsed(start, pkt, Ready(msgs)),
         NEW b \in Seq(Nat), \A j \in 1..Len(b) : b[j] # BLE_MAGIC
  PROVE  Parsed(start, pkt \o b, Ready(msgs))
<1> DEFINE c == Ready(msgs)
           q == [j \in 0..Len(b) |-> c]
<1>1. \A j \in 0..Len(b) : q[j] = c
  OBVIOUS
<1>2. Len(b) \in Nat /\ 0 \in 0..Len(b) /\ Len(b) \in 0..Len(b)
  OBVIOUS
<1>3. c.state = "magic"
  BY DEF Ready, Ctx
<1>4. ASSUME NEW x, x # BLE_MAGIC
      PROVE  c = ReadByte(c, x, HeaderLen - 1)
  BY <1>3, <1>4 DEF ReadByte
<1> HIDE DEF c, q
<1>5. ASSUME NEW j \in 1..Len(b)
      PROVE  /\ q[j].state \in States
             /\ q[j] = ReadByte(q[j - 1], b[j], HeaderLen - 1)
             /\ q[j - 1].state = "magic" /\ b[j] = BLE_MAGIC => j + 3 <= Len(b)
  <2>1. j \in 0..Len(b) /\ j - 1 \in 0..Len(b)
    BY <1>2
  <2>2. q[j] = c /\ q[j - 1] = c /\ b[j] # BLE_MAGIC
    BY <1>1, <2>1
  <2> QED
    BY <1>3, <1>4, <2>2 DEF States
<1>6. Parsed(start, pkt, q[0])
  BY <1>1, <1>2 DEF c
<1>7. Parsed(start, pkt \o b, q[Len(b)])
  BY <1>5, <1>6, ParsedMore
<1> QED
  BY <1>1, <1>2, <1>7 DEF c

(* A header takes the parser into the message, or past it if it is empty. *)
AfterHeader(m, msgs) ==
  IF Len(m.payload) = 0 THEN Ready(Append(msgs, m)) ELSE Within(m, 0, msgs)

(* A header that is added to the packet *)
LEMMA ParsedHeader ==
  ASSUME NEW start, NEW pkt \in Seq(Nat), Len(pkt) >= 1, NEW msgs,
         Parsed(start, pkt, Ready(msgs)), NEW m \in Message
  PROVE  Parsed(start, pkt \o Header(m), AfterHeader(m, msgs))
<1> DEFINE b == Header(m)
           q1 == Ctx("header", <<>>, <<>>, msgs)
           q2 == Ctx("header", <<m.opcode>>, <<>>, msgs)
           q3 == Ctx("header", <<m.opcode, m.req_app>>, <<>>, msgs)
           q == [j \in 0..4 |-> CASE j = 0 -> Ready(msgs) [] j = 1 -> q1 [] j = 2 -> q2
                                  [] j = 3 -> q3 [] OTHER -> AfterHeader(m, msgs)]
<1>0. /\ m.opcode \in Nat /\ m.req_app \in Nat /\ Len(m.payload) \in Nat
  BY MessageIs
<1>1. /\ b \in Seq(Nat) /\ Len(b) = 4
      /\ b[1] = BLE_MAGIC /\ b[2] = m.opcode /\ b[3] = m.req_app /\ b[4] = Len(m.payload)
  BY MessageIs DEF Header
<1>2. q[0] = Ready(msgs) /\ q[1] = q1 /\ q[2] = q2 /\ q[3] = q3 /\ q[4] = AfterHeader(m, msgs)
  OBVIOUS
<1>3. /\ q1 = Ctx("header", <<>>, <<>>, msgs)
      /\ q2 = Ctx("header", <<m.opcode>>, <<>>, msgs)
      /\ q3 = Ctx("header", <<m.opcode, m.req_app>>, <<>>, msgs)
  OBVIOUS
<1> HIDE DEF b, q, q1, q2, q3
<1>4. /\ Ready(msgs).state = "magic" /\ q1.state = "header" /\ q2.state = "header"
      /\ q3.state = "header" /\ AfterHeader(m, msgs).state \in {"magic", "payload"}
  BY <1>3, CtxFields DEF Ready, Within, AfterHeader
<1>5. q1 = ReadByte(Ready(msgs), BLE_MAGIC, HeaderLen - 1)
  BY <1>3 DEF Ready, Ctx, ReadByte
<1>6. q2 = ReadByte(q1, m.opcode, HeaderLen - 1)
  <2>1. Append(q1.got, m.opcode) = <<m.opcode>> /\ Len(<<m.opcode>>) = 1
    <3>1. q1.got = <<>>
      BY <1>3 DEF Ctx
    <3> QED
      BY <1>0, <3>1, AppendNumber
  <2>2. ReadByte(q1, m.opcode, HeaderLen - 1) = [q1 EXCEPT !.got = <<m.opcode>>]
    BY <1>4, <2>1 DEF ReadByte
  <2> QED
    BY <1>3, <2>2 DEF Ctx
<1>7. q3 = ReadByte(q2, m.req_app, HeaderLen - 1)
  <2>1. Append(q2.got, m.req_app) = <<m.opcode, m.req_app>>
        /\ Len(<<m.opcode, m.req_app>>) = 2
    <3>1. q2.got = <<m.opcode>>
      BY <1>3 DEF Ctx
    <3> QED
      BY <1>0, <3>1, AppendNumber
  <2>2. ReadByte(q2, m.req_app, HeaderLen - 1) = [q2 EXCEPT !.got = <<m.opcode, m.req_app>>]
    BY <1>4, <2>1 DEF ReadByte
  <2> QED
    BY <1>3, <2>2 DEF Ctx
<1>8. AfterHeader(m, msgs) = ReadByte(q3, Len(m.payload), HeaderLen - 1)
  <2>1. Append(q3.got, Len(m.payload)) = HeaderOf(m) /\ Len(HeaderOf(m)) = 3
    <3>1. q3.got = <<m.opcode, m.req_app>>
      BY <1>3 DEF Ctx
    <3>2. HeaderOf(m) = <<m.opcode, m.req_app, Len(m.payload)>>
      BY DEF HeaderOf
    <3>3. \A x \in Nat : Append(<<m.opcode, m.req_app>>, x) = <<m.opcode, m.req_app, x>>
                          /\ Len(<<m.opcode, m.req_app, x>>) = 3
      BY <1>0, AppendNumber
    <3> HIDE DEF HeaderOf
    <3> QED
      BY <1>0, <3>1, <3>2, <3>3, Zenon
  <2>2. q3.msgs = msgs
    BY <1>3, CtxFields
  <2>3. ReadByte(q3, Len(m.payload), HeaderLen - 1)
          = IF Len(m.payload) = 0 THEN Deliver(q3, HeaderOf(m), <<>>)
            ELSE [q3 EXCEPT !.state = "payload", !.hdr = HeaderOf(m), !.got = <<>>]
    BY <1>4, <2>1 DEF ReadByte
  <2>4. CASE Len(m.payload) = 0
    <3>1. m.payload = <<>>
      BY <2>4, MessageIs
    <3> QED
      BY <2>2, <2>3, <2>4, <3>1, DeliverIs DEF AfterHeader
  <2>5. CASE Len(m.payload) # 0
    <3>1. SubSeq(m.payload, 1, 0) = <<>>
      BY SubSeqEmpty
    <3>2. [q3 EXCEPT !.state = "payload", !.hdr = HeaderOf(m), !.got = <<>>]
            = Ctx("payload", <<>>, HeaderOf(m), msgs)
      <4>1. \A g : [Ctx("header", g, <<>>, msgs) EXCEPT !.state = "payload"]
                     = Ctx("payload", g, <<>>, msgs)
        BY DEF Ctx
      <4>2. \A g, h : [Ctx("payload", g, <<>>, msgs) EXCEPT !.hdr = h]
                        = Ctx("payload", g, h, msgs)
        BY DEF Ctx
      <4>3. \A g, h : [Ctx("payload", g, h, msgs) EXCEPT !.got = <<>>]
                        = Ctx("payload", <<>>, h, msgs)
        BY DEF Ctx
      <4> DEFINE g == <<m.opcode, m.req_app>>
                 h == HeaderOf(m)
      <4>4. [q3 EXCEPT !.state = "payload"] = Ctx("payload", g, <<>>, msgs)
        BY <1>3, <4>1, Zenon
      <4>5. [Ctx("payload", g, <<>>, msgs) EXCEPT !.hdr = h] = Ctx("payload", g, h, msgs)
        BY <4>2, Zenon
      <4>6. [Ctx("payload", g, h, msgs) EXCEPT !.got = <<>>] = Ctx("payload", <<>>, h, msgs)
        BY <4>3, Zenon
      <4> HIDE DEF g, h
      <4>7. [q3 EXCEPT !.state = "payload", !.hdr = h, !.got = <<>>] = Ctx("payload", <<>>, h, msgs)
        BY <4>4, <4>5, <4>6, Zenon
      <4> QED
        BY <4>7 DEF h
    <3> QED
      BY <2>3, <2>5, <3>1, <3>2 DEF AfterHeader, Within
  <2> QED
    BY <2>4, <2>5
<1>9. ASSUME NEW j \in 1..Len(b)
      PROVE  /\ q[j].state \in States
             /\ q[j] = ReadByte(q[j - 1], b[j], HeaderLen - 1)
             /\ q[j - 1].state = "magic" /\ b[j] = BLE_MAGIC => j + 3 <= Len(b)
  <2>1. CASE j = 1
    BY <1>1, <1>2, <1>4, <1>5, <2>1 DEF States
  <2>2. CASE j = 2
    BY <1>1, <1>2, <1>4, <1>6, <2>2 DEF States
  <2>3. CASE j = 3
    BY <1>1, <1>2, <1>4, <1>7, <2>3 DEF States
  <2>4. CASE j = 4
    BY <1>1, <1>2, <1>4, <1>8, <2>4 DEF States
  <2> QED
    BY <1>1, <2>1, <2>2, <2>3, <2>4
<1>10. Parsed(start, pkt, q[0])
  BY <1>2
<1>11. Parsed(start, pkt \o b, q[Len(b)])
  BY ZenonT(60), <1>1, <1>9, <1>10, ParsedMore
<1> QED
  BY <1>1, <1>2, <1>11 DEF b

(* One more byte of a payload *)
LEMMA ReadPayload ==
  ASSUME NEW m \in Message, NEW n \in Nat, n < Len(m.payload), NEW msgs
  PROVE  ReadByte(Within(m, n, msgs), m.payload[n + 1], HeaderLen - 1)
           = IF n + 1 = Len(m.payload) THEN Ready(Append(msgs, m)) ELSE Within(m, n + 1, msgs)
<1> DEFINE pl == m.payload
           c == Within(m, n, msgs)
<1>1. pl \in Seq(Nat) /\ Len(pl) \in Nat
  BY MessageIs
<1>2. c.state = "payload" /\ c.got = SubSeq(pl, 1, n) /\ c.hdr[3] = Len(pl)
      /\ c.hdr = HeaderOf(m) /\ c.msgs = msgs
  BY DEF Within, Ctx, HeaderOf
<1>3. Append(SubSeq(pl, 1, n), pl[n + 1]) = SubSeq(pl, 1, n + 1)
      /\ Len(SubSeq(pl, 1, n + 1)) = n + 1
  BY <1>1
<1>4. ReadByte(c, pl[n + 1], HeaderLen - 1)
        = IF n + 1 = Len(pl) THEN Deliver(c, HeaderOf(m), SubSeq(pl, 1, n + 1))
          ELSE [c EXCEPT !.got = SubSeq(pl, 1, n + 1)]
  <2> HIDE DEF pl, c
  <2> QED
    BY <1>2, <1>3 DEF ReadByte
<1>5. [c EXCEPT !.got = SubSeq(pl, 1, n + 1)] = Within(m, n + 1, msgs)
  <2>1. c = Ctx("payload", SubSeq(pl, 1, n), HeaderOf(m), msgs)
    BY DEF Within
  <2> HIDE DEF c
  <2>2. [c EXCEPT !.got = SubSeq(pl, 1, n + 1)]
          = Ctx("payload", SubSeq(pl, 1, n + 1), HeaderOf(m), msgs)
    <3>1. \A g, h, x : [Ctx("payload", g, h, msgs) EXCEPT !.got = x]
                         = Ctx("payload", x, h, msgs)
      BY DEF Ctx
    <3> QED
      BY <2>1, <3>1, ZenonT(60)
  <2> QED
    BY <2>2 DEF Within
<1>6. n + 1 = Len(pl) => Deliver(c, HeaderOf(m), SubSeq(pl, 1, n + 1)) = Ready(Append(msgs, m))
  <2>1. SubSeq(pl, 1, Len(pl)) = pl
    BY <1>1, SubSeqFull
  <2> QED
    BY <1>2, <2>1, DeliverIs
<1> QED
  BY <1>4, <1>5, <1>6

(* Where k more bytes of a payload, of which n were read, take the parser *)
AfterPayload(m, n, msgs) ==
  IF n = Len(m.payload) THEN Ready(Append(msgs, m)) ELSE Within(m, n, msgs)

(* A piece of a payload that is added to the packet *)
LEMMA ParsedPayload ==
  ASSUME NEW start, NEW pkt \in Seq(Nat), Len(pkt) >= 1, NEW msgs, NEW m \in Message,
         NEW n \in Nat, NEW k \in Nat, n < Len(m.payload), n + k <= Len(m.payload),
         Parsed(start, pkt, Within(m, n, msgs))
  PROVE  Parsed(start, pkt \o SubSeq(m.payload, n + 1, n + k), AfterPayload(m, n + k, msgs))
<1> DEFINE pl == m.payload
           b == SubSeq(pl, n + 1, n + k)
           q == [j \in 0..k |-> AfterPayload(m, n + j, msgs)]
<1>1. pl \in Seq(Nat) /\ Len(pl) \in Nat
  BY MessageIs
<1>2. b \in Seq(Nat) /\ Len(b) = k /\ \A j \in 1..k : b[j] = pl[n + j]
  BY SMTT(40), <1>1
<1>3. \A j \in 0..k : q[j] = AfterPayload(m, n + j, msgs)
  OBVIOUS
<1> HIDE DEF b, q
<1>4. ASSUME NEW j \in 1..Len(b)
      PROVE  /\ q[j].state \in States
             /\ q[j] = ReadByte(q[j - 1], b[j], HeaderLen - 1)
             /\ q[j - 1].state = "magic" /\ b[j] = BLE_MAGIC => j + 3 <= Len(b)
  <2>1. j \in 0..k /\ j - 1 \in 0..k /\ n + (j - 1) \in Nat /\ n + (j - 1) + 1 = n + j
        /\ n + (j - 1) < Len(pl)
    BY <1>1, <1>2
  <2>2. q[j] = AfterPayload(m, n + j, msgs) /\ q[j - 1] = Within(m, n + (j - 1), msgs)
    BY <1>3, <2>1 DEF AfterPayload
  <2>3. ReadByte(Within(m, n + (j - 1), msgs), pl[n + (j - 1) + 1], HeaderLen - 1)
          = AfterPayload(m, n + (j - 1) + 1, msgs)
    BY <2>1, ReadPayload DEF AfterPayload
  <2>4. b[j] = pl[n + (j - 1) + 1]
    BY <1>2, <2>1
  <2>5. q[j].state \in States /\ q[j - 1].state = "payload"
    BY <2>2 DEF AfterPayload, Ready, Within, Ctx, States
  <2> QED
    BY <2>1, <2>2, <2>3, <2>4, <2>5
<1>5. q[0] = Within(m, n, msgs) /\ q[k] = AfterPayload(m, n + k, msgs)
  BY <1>1, <1>3 DEF AfterPayload
<1>6. Parsed(start, pkt \o b, q[Len(b)])
  BY <1>2, <1>4, <1>5, ParsedMore
<1> QED
  BY <1>2, <1>5, <1>6 DEF b

-----------------------------------------------------------------------------
(* Sequences of messages *)

(* The last element is added and taken off again. *)
LEMMA FrontAppend ==
  ASSUME NEW s \in Seq(Message), NEW m \in Message
  PROVE  Append(s, m) \in Seq(Message) /\ Append(s, m) # <<>> /\ Front(Append(s, m)) = s
<1>1. /\ Append(s, m) \in Seq(Message) /\ Append(s, m) # <<>>
      /\ Len(Append(s, m)) = Len(s) + 1 /\ Len(s) \in Nat
      /\ \A i \in 1..Len(s) : Append(s, m)[i] = s[i]
  BY AppendProperties, LenProperties
<1>2. PICK f : f = SubSeq(Append(s, m), 1, Len(s))
  OBVIOUS
<1>3. f \in Seq(Message) /\ Len(f) = Len(s) /\ \A i \in 1..Len(s) : f[i] = Append(s, m)[i]
  BY <1>1, <1>2
<1>4. f = s
  <2>1. \A i \in 1..Len(f) : f[i] = s[i]
    BY <1>1, <1>3
  <2> QED
    BY <1>3, <2>1, SeqEqual
<1>5. (Len(s) + 1) - 1 = Len(s)
  BY <1>1
<1> QED
  BY <1>1, <1>2, <1>4, <1>5 DEF Front

(* The ends of a sequence *)
LEMMA EndsOf ==
  ASSUME NEW t \in Seq(Message)
  PROVE  /\ EndOf(<<>>, t) /\ EndOf(t, t)
         /\ t # <<>> => EndOf(Tail(t), t)
<1>1. Len(t) \in Nat
  OBVIOUS
<1>2. EndOf(<<>>, t)
  <2>1. SubSeq(t, Len(t) + 1, Len(t)) = <<>> /\ Len(t) + 1 \in 1..(Len(t) + 1)
    BY <1>1, SubSeqEmpty
  <2> QED
    BY <2>1 DEF EndOf
<1>3. EndOf(t, t)
  <2>1. SubSeq(t, 1, Len(t)) = t /\ 1 \in 1..(Len(t) + 1)
    BY <1>1, SubSeqFull
  <2> QED
    BY <2>1 DEF EndOf
<1>4. ASSUME t # <<>> PROVE EndOf(Tail(t), t)
  <2>1. Tail(t) = SubSeq(t, 2, Len(t))
    BY <1>4, TailIsSubSeq
  <2>2. 2 \in 1..(Len(t) + 1)
    <3>1. Len(t) # 0
      BY <1>4, EmptySeq
    <3> QED
      BY <1>1, <3>1
  <2> QED
    BY <2>1, <2>2 DEF EndOf
<1> QED
  BY <1>2, <1>3, <1>4

(* One more message at the end of both *)
LEMMA EndGrows ==
  ASSUME NEW t \in Seq(Message), NEW s, EndOf(s, t), NEW m \in Message
  PROVE  EndOf(Append(s, m), Append(t, m))
<1>1. PICK i \in 1..(Len(t) + 1) : s = SubSeq(t, i, Len(t))
  BY DEF EndOf
<1>2. Len(t) \in Nat /\ i \in Nat /\ i >= 1 /\ i <= Len(t) + 1
  BY <1>1
<1>3. PICK u : u = Append(t, m)
  OBVIOUS
<1>4. /\ u \in Seq(Message) /\ Len(u) = Len(t) + 1 /\ u[Len(t) + 1] = m
      /\ \A j \in 1..Len(t) : u[j] = t[j]
  BY <1>3, AppendProperties
<1>5. s \in Seq(Message) /\ Len(s) = Len(t) - i + 1
      /\ \A j \in 1..Len(s) : s[j] = t[i + j - 1]
  <2>1. \A j \in i..Len(t) : t[j] \in Message
    BY <1>2
  <2>2. /\ SubSeq(t, i, Len(t)) \in Seq(Message)
        /\ Len(SubSeq(t, i, Len(t))) = IF i <= Len(t) THEN Len(t) - i + 1 ELSE 0
        /\ \A j \in 1..(Len(t) - i + 1) : SubSeq(t, i, Len(t))[j] = t[i + j - 1]
    BY <1>2, <2>1, SubSeqProperties
  <2> QED
    BY <1>1, <1>2, <2>2
<1>6. PICK v : v = SubSeq(u, i, Len(u))
  OBVIOUS
<1>7. v \in Seq(Message) /\ Len(v) = Len(u) - i + 1
      /\ \A j \in 1..Len(v) : v[j] = u[i + j - 1]
  <2>1. \A j \in i..Len(u) : u[j] \in Message
    BY <1>2, <1>4
  <2>2. /\ SubSeq(u, i, Len(u)) \in Seq(Message)
        /\ Len(SubSeq(u, i, Len(u))) = IF i <= Len(u) THEN Len(u) - i + 1 ELSE 0
        /\ \A j \in 1..(Len(u) - i + 1) : SubSeq(u, i, Len(u))[j] = u[i + j - 1]
    BY <1>2, <1>4, <2>1, SubSeqProperties
  <2> QED
    BY <1>2, <1>4, <1>6, <2>2
<1>8. PICK w : w = Append(s, m)
  OBVIOUS
<1>9. /\ w \in Seq(Message) /\ Len(w) = Len(s) + 1 /\ w[Len(s) + 1] = m
      /\ \A j \in 1..Len(s) : w[j] = s[j]
  BY <1>5, <1>8, AppendProperties
<1>10. ASSUME NEW j \in 1..Len(w) PROVE w[j] = v[j]
  <2>1. j \in 1..Len(v) /\ v[j] = u[i + j - 1]
    BY <1>2, <1>4, <1>5, <1>7, <1>9
  <2>2. CASE j \in 1..Len(s)
    <3>1. i + j - 1 \in 1..Len(t)
      BY <1>2, <1>5, <2>2
    <3> QED
      BY <1>4, <1>5, <1>9, <2>1, <2>2, <3>1
  <2>3. CASE ~(j \in 1..Len(s))
    <3>0. Len(s) = Len(t) - i + 1 /\ Len(w) = Len(s) + 1
      BY <1>5, <1>9
    <3>1. j = Len(s) + 1 /\ i + j - 1 = Len(t) + 1
      BY <1>2, <2>3, <3>0
    <3> QED
      BY <1>4, <1>9, <2>1, <3>1
  <2> QED
    BY <2>2, <2>3
<1>11. w = v
  <2>1. Len(w) = Len(v)
    BY <1>2, <1>4, <1>5, <1>7, <1>9
  <2> QED
    BY <1>7, <1>9, <1>10, <2>1, SeqEqual
<1>12. i \in 1..(Len(u) + 1)
  BY <1>2, <1>4
<1> QED
  BY <1>3, <1>6, <1>8, <1>11, <1>12 DEF EndOf

-----------------------------------------------------------------------------
(* What the phone has read of the packet in hand *)

(* The messages that look like one that was queued *)
Genuine ==
  {x \in Message : \E m \in Messages : /\ x.opcode = m.opcode /\ x.req_app = m.req_app
                                       /\ Len(x.payload) = Len(m.payload)}

(* A parser inside a payload, with nothing delivered from the packet yet *)
Begun(c) ==
  /\ c = Ctx("payload", c.got, c.hdr, <<>>) /\ c.got \in Seq(Nat)
  /\ \E m \in Messages : c.hdr = HeaderOf(m) /\ Len(c.got) < Len(m.payload)

(* c is where the builder is in the stream: between two messages, or inside *)
(* the one in hand, of which some bytes were written or the header (begun). *)
At(c, msgs, begun) ==
  \/ c = Ready(msgs) /\ (tx_msg_active => tx_offset = 0)
  \/ /\ tx_msg_active /\ (tx_offset > 0 \/ begun)
     /\ tx_offset < Len(tx_cur_msg.payload)
     /\ c = Within(tx_cur_msg, tx_offset, msgs)

(* In step; no header stands alone but at the end of the packet. *)
Follows(c, msgs) == At(c, msgs, Room <= 0)

(* c skips the rest of the message in hand. *)
Skips(c, msgs) == c = Ready(msgs) /\ tx_msg_active /\ tx_offset > 0

(* A parser that was between two messages when the packet began *)
FreshAt(c) ==
  \/ Follows(c, Done)
  \/ tx_buffer[1] = 1 /\ Done # <<>> /\ Follows(c, Tail(Done))
  \/ tx_buffer[1] = 1 /\ Done = <<>> /\ Skips(c, <<>>)

(* A parser that was inside any payload when the packet began *)
LateAt(c) ==
  \/ Begun(c)
  \/ \E x \in Genuine : Skips(c, <<x>>)
  \/ \E x \in Genuine, ms \in Seq(Message) : EndOf(ms, Done) /\ Follows(c, <<x>> \o ms)

(* The parser when it has read a packet's flag *)
Flagged(flag) ==
  IF flag = 0 \/ rx_ctx.state # "payload" THEN rx_reset_context ELSE rx_ctx

BuilderOK ==
  /\ tx_msg_active \in BOOLEAN /\ lossy \in BOOLEAN /\ repeated \in BOOLEAN
  /\ headers \in 0..2
  /\ tx_msg_active => /\ tx_cur_msg \in Messages
                      /\ tx_offset = 0 \/ tx_offset < Len(tx_cur_msg.payload)

(* No packet was ever sent before a size was negotiated, and the hook ends  *)
(* between two messages.                                                    *)
MtuOK ==
  /\ link_mtu \in Nat /\ link_mtu >= DefaultMtu
  /\ effective_mtu = 0 \/ effective_mtu >= DefaultMtu
  /\ pkt_mtu = 0 \/ (pkt_mtu >= DefaultMtu /\ effective_mtu > 0)
  /\ effective_mtu = 0 \/ (pump = "build" /\ pkt_mtu = 0) =>
       rx_ctx = rx_reset_context /\ (tx_msg_active => tx_offset = 0)
  /\ pump = "idle" => (tx_msg_active => tx_offset = 0)

Building == pump \in {"build", "notify"}

(* What is due are the messages that end in the packet, and the one in hand.*)
DueOK ==
  Building => Done \in Seq(Message) /\ (tx_msg_active => due = Append(Done, tx_cur_msg))

(* The flag that the next packet will carry *)
NextFlag == IF tx_msg_active THEN 1 ELSE 0

(* While a stream is exact the receiver is in step, between packets and     *)
(* with the packet in hand, as far as it is built.                          *)
Exact == ~lossy /\ ~repeated
BetweenPackets == Exact /\ ~Building => At(Flagged(NextFlag), <<>>, headers > 0)
InPacket ==
  Exact /\ Building =>
    \E c : Parsed(Flagged(tx_buffer[1]), tx_buffer, c) /\ At(c, Done, headers > 0)

(* Whatever the stream lost: a parser that is between two messages, and the *)
(* receiver if it is inside one, when they have read the packet so far.     *)
FreshRead == Building => \E c : Parsed(rx_reset_context, tx_buffer, c) /\ FreshAt(c)
LateRead ==
  Building /\ rx_ctx.state = "payload" => \E c : Parsed(rx_ctx, tx_buffer, c) /\ LateAt(c)

(* The receiver between two packets *)
RxOK == rx_ctx.state = "payload" => Begun(rx_ctx)

StreamInv ==
  /\ BuilderOK /\ MtuOK /\ DueOK /\ RxOK
  /\ BetweenPackets /\ InPacket /\ FreshRead /\ LateRead

(* A fresh parser is between two messages. *)
LEMMA ResetIsReady ==
  /\ rx_reset_context = Ready(<<>>)
  /\ \A msgs : Ready(msgs).state = "magic" /\ Ready(msgs).msgs = msgs
  /\ \A m, n, msgs : Within(m, n, msgs).state = "payload" /\ Within(m, n, msgs).msgs = msgs
  BY DEF rx_reset_context, Ready, Within, Ctx

(* The fields of a message that was sent *)
LEMMA KnownMessage ==
  ASSUME NEW m \in Messages
  PROVE  m \in Message /\ m.opcode \in Nat /\ m.req_app \in Nat /\ Len(m.payload) \in Nat
<1>1. m \in Message
  BY TransportAssumption DEF Message
<1> QED
  BY <1>1, MessageIs

-----------------------------------------------------------------------------
(* What a chunk does to a parser *)

(* Bytes are added one run after the other. *)
LEMMA BytesConcat ==
  ASSUME NEW x \in Seq(Nat), NEW y \in Seq(Nat), NEW z \in Seq(Nat)
  PROVE  (x \o y) \o z = x \o (y \o z)
  BY SMTT(40), ConcatAssociative

(* The n bytes behind the first a of a sequence *)
LEMMA Slice ==
  ASSUME NEW s \in Seq(Nat), NEW a \in Nat, NEW n \in Nat, a + n <= Len(s)
  PROVE  /\ SubSeq(s, a + 1, a + n) \in Seq(Nat)
         /\ Len(SubSeq(s, a + 1, a + n)) = n
         /\ \A i \in 1..n : /\ a + i \in 1..Len(s)
                           /\ SubSeq(s, a + 1, a + n)[i] = s[a + i]
<1>1. PICK p, q : p = a + 1 /\ q = a + n
  OBVIOUS
<1>2. p \in Int /\ q \in Int /\ q - p + 1 = n /\ (p <= q \/ n = 0)
  BY <1>1
<1>3. \A i \in p..q : s[i] \in Nat
  BY <1>1
<1>4. PICK t : t = SubSeq(s, p, q)
  OBVIOUS
<1>5. /\ t \in Seq(Nat) /\ Len(t) = IF p <= q THEN q - p + 1 ELSE 0
      /\ \A i \in 1..(q - p + 1) : t[i] = s[p + i - 1]
  BY <1>2, <1>3, <1>4, SubSeqProperties
<1>6. ASSUME NEW i \in 1..n PROVE a + i \in 1..Len(s) /\ t[i] = s[a + i]
  <2>1. i \in 1..(q - p + 1) /\ p + i - 1 = a + i /\ a + i \in 1..Len(s)
    BY <1>1, <1>2
  <2> QED
    BY <1>5, <2>1
<1>7. Len(t) = n
  BY <1>1, <1>2, <1>5
<1> QED
  BY <1>1, <1>4, <1>5, <1>6, <1>7

(* Bytes read into a payload: whatever they are, they end the message or    *)
(* become part of it; what is behind its end is skipped.                    *)
LEMMA ParsedEaten ==
  ASSUME NEW start, NEW pkt \in Seq(Nat), Len(pkt) >= 1, NEW c, Begun(c),
         Parsed(start, pkt, c),
         NEW b \in Seq(Nat), \A j \in 2..Len(b) : b[j] # BLE_MAGIC
  PROVE  \E d : /\ Parsed(start, pkt \o b, d)
                /\ Begun(d) \/ \E x \in Genuine : d = Ready(<<x>>)
<1>1. PICK m \in Messages : c.hdr = HeaderOf(m) /\ Len(c.got) < Len(m.payload)
  BY DEF Begun
<1>2. PICK g, G, L, K : g = c.got /\ G = Len(g) /\ L = Len(m.payload) /\ K = Len(b)
  OBVIOUS
<1>3. /\ g \in Seq(Nat) /\ G \in Nat /\ L \in Nat /\ G < L /\ K \in Nat
      /\ \A i \in 1..G : g[i] \in Nat
      /\ \A i \in 1..K : b[i] \in Nat
  <2>1. g \in Seq(Nat) /\ G \in Nat /\ \A i \in 1..G : g[i] \in Nat
    BY SMTT(40), <1>2 DEF Begun
  <2>2. K \in Nat /\ \A i \in 1..K : b[i] \in Nat
    BY <1>2
  <2>3. L \in Nat /\ G < L
    BY <1>1, <1>2, KnownMessage
  <2> QED
    BY <2>1, <2>2, <2>3
<1> DEFINE byte(i) == IF i <= G THEN g[i] ELSE IF i - G <= K THEN b[i - G] ELSE 0
<1>4. PICK pl : pl = [i \in 1..L |-> byte(i)]
  OBVIOUS
<1>5. pl \in Seq(Nat) /\ Len(pl) = L /\ \A i \in 1..L : pl[i] = byte(i)
  <2>1. ASSUME NEW i \in 1..L PROVE byte(i) \in Nat
    <3>1. CASE i <= G
      BY <1>3, <3>1
    <3>2. CASE ~(i <= G) /\ i - G <= K
      <4>1. i - G \in 1..K
        BY <1>3, <3>2
      <4> QED
        BY <1>3, <3>2, <4>1
    <3>3. CASE ~(i <= G) /\ ~(i - G <= K)
      BY <3>3
    <3> QED
      BY <3>1, <3>2, <3>3
  <2> HIDE DEF byte
  <2>2. pl \in [1..L -> Nat]
    BY <1>4, <2>1
  <2> QED
    BY <1>3, <1>4, <2>2
<1>17. pl \in Seq(Nat) /\ Len(pl) = L
  BY <1>5
<1>6. PICK x : x = [opcode |-> m.opcode, req_app |-> m.req_app, payload |-> pl]
  OBVIOUS
<1>7. /\ x \in Message /\ x.opcode = m.opcode /\ x.req_app = m.req_app /\ x.payload = pl
      /\ x \in Genuine /\ HeaderOf(x) = HeaderOf(m)
  <2>1. x \in Message /\ x.opcode = m.opcode /\ x.req_app = m.req_app /\ x.payload = pl
    BY <1>5, <1>6, KnownMessage DEF Message
  <2> QED
    BY <1>2, <1>5, <2>1 DEF Genuine, HeaderOf
<1>8. c = Within(x, G, <<>>)
  <2>1. PICK s : s = SubSeq(pl, 1, G)
    OBVIOUS
  <2>2. s \in Seq(Nat) /\ Len(s) = G /\ \A i \in 1..G : s[i] = pl[i]
    <3>1. G \in Nat /\ L \in Nat /\ G < L
      BY <1>3
    <3> QED
      BY <1>17, <2>1, <3>1
  <2>3. \A i \in 1..G : s[i] = g[i]
    BY <1>3, <1>5, <2>2
  <2>4. s = g
    BY <1>2, <1>3, <2>2, <2>3, SeqEqual
  <2>5. c = Ctx("payload", g, HeaderOf(m), <<>>)
    BY <1>1, <1>2 DEF Begun
  <2> QED
    BY <1>7, <2>1, <2>4, <2>5 DEF Within
<1>9. PICK k : k = IF K < L - G THEN K ELSE L - G
  OBVIOUS
<1>10. /\ k \in Nat /\ k <= K /\ G + k <= L
       /\ K < L - G => k = K
       /\ ~(K < L - G) => G + k = L /\ k >= 1
  BY <1>3, <1>9
<1>11. PICK b1 : b1 = SubSeq(b, 1, k)
  OBVIOUS
<1>12. b1 \in Seq(Nat) /\ Len(b1) = k /\ \A i \in 1..k : b1[i] = b[i]
  BY <1>2, <1>3, <1>10, <1>11
<1>13. SubSeq(pl, G + 1, G + k) = b1
  <2>1. PICK s : s = SubSeq(pl, G + 1, G + k)
    OBVIOUS
  <2>2. s \in Seq(Nat) /\ Len(s) = k /\ \A i \in 1..k : s[i] = pl[G + i]
    <3>1. G \in Nat /\ L \in Nat /\ k \in Nat /\ G + k <= L
      BY <1>3, <1>10
    <3> QED
      BY <1>17, <2>1, <3>1, Slice
  <2>3. ASSUME NEW i \in 1..k PROVE s[i] = b1[i]
    <3>1. G + i \in 1..L /\ ~(G + i <= G) /\ (G + i) - G = i /\ i <= K
      BY <1>3, <1>10
    <3>2. pl[G + i] = b[i]
      BY <1>5, <3>1
    <3> QED
      BY <1>12, <2>2, <3>2
  <2>4. s \in Seq(Nat) /\ b1 \in Seq(Nat) /\ Len(s) = Len(b1)
    BY <1>12, <2>2
  <2>5. \A i \in 1..Len(s) : s[i] = b1[i]
    BY <2>2, <2>3
  <2>6. s = b1
    BY <2>4, <2>5, SeqEqual
  <2> QED
    BY <2>1, <2>6
<1>14. Parsed(start, pkt \o b1, AfterPayload(x, G + k, <<>>))
  <2>1. G < Len(x.payload) /\ G + k <= Len(x.payload)
    BY <1>3, <1>5, <1>7, <1>10
  <2>2. Parsed(start, pkt, Within(x, G, <<>>))
    BY <1>8
  <2>3. Parsed(start, pkt \o SubSeq(x.payload, G + 1, G + k), AfterPayload(x, G + k, <<>>))
    BY <1>3, <1>7, <1>10, <2>1, <2>2, ParsedPayload
  <2> QED
    BY <1>7, <1>13, <2>3
<1>15. CASE K < L - G
  <2>1. b1 = b
    BY <1>2, <1>10, <1>11, <1>15, SubSeqFull
  <2>2. PICK d : d = Within(x, G + k, <<>>)
    OBVIOUS
  <2>3. AfterPayload(x, G + k, <<>>) = d
    BY <1>3, <1>5, <1>7, <1>10, <1>15, <2>2 DEF AfterPayload
  <2>4. PICK got : got = SubSeq(pl, 1, G + k)
    OBVIOUS
  <2>5. got \in Seq(Nat) /\ Len(got) = G + k
    <3>1. G \in Nat /\ L \in Nat /\ k \in Nat /\ G + k <= L
      BY <1>3, <1>10
    <3> QED
      BY <1>17, <2>4, <3>1
  <2>6. d = Ctx("payload", got, HeaderOf(m), <<>>)
    BY <1>7, <2>2, <2>4 DEF Within
  <2>7. d.got = got /\ d.hdr = HeaderOf(m)
    BY <2>6 DEF Ctx
  <2>8. Len(got) < Len(m.payload)
    <3>1. G \in Nat /\ L \in Nat /\ K \in Nat /\ k = K
      BY <1>3, <1>10, <1>15
    <3>2. G + k < L
      BY <1>15, <3>1
    <3> QED
      BY <1>2, <2>5, <3>2
  <2>9. Begun(d)
    BY <2>5, <2>6, <2>7, <2>8 DEF Begun
  <2> QED
    BY <1>14, <2>1, <2>3, <2>9
<1>16. CASE ~(K < L - G)
  <2>1. AfterPayload(x, G + k, <<>>) = Ready(<<x>>)
    <3>1. Append(<<>>, x) = <<x>>
      OBVIOUS
    <3> QED
      BY <1>5, <1>7, <1>10, <1>16, <3>1 DEF AfterPayload
  <2>2. PICK r : r = SubSeq(b, k + 1, K)
    OBVIOUS
  <2>3. r \in Seq(Nat) /\ Len(r) = K - k /\ \A j \in 1..(K - k) : r[j] = b[k + j]
    <3>1. k \in Nat /\ K - k \in Nat /\ k + (K - k) = K /\ K = Len(b)
      BY <1>2, <1>3, <1>10
    <3>2. PICK n : n = K - k
      OBVIOUS
    <3>3. n \in Nat /\ k + n = K /\ k + n <= Len(b)
      BY <3>1, <3>2
    <3>4. r = SubSeq(b, k + 1, k + n)
      BY <2>2, <3>3, Zenon
    <3>5. /\ SubSeq(b, k + 1, k + n) \in Seq(Nat)
          /\ Len(SubSeq(b, k + 1, k + n)) = n
          /\ \A j \in 1..n : /\ k + j \in 1..Len(b)
                            /\ SubSeq(b, k + 1, k + n)[j] = b[k + j]
      BY <3>1, <3>3, Slice, ZenonT(60)
    <3> QED
      BY <3>2, <3>4, <3>5, Zenon
  <2>4. ASSUME NEW j \in 1..Len(r) PROVE r[j] # BLE_MAGIC
    <3>1. j \in 1..(K - k) /\ k + j \in 2..Len(b)
      BY <1>2, <1>3, <1>10, <1>16, <2>3
    <3>2. b[k + j] # BLE_MAGIC
      BY <3>1
    <3> QED
      BY <2>3, <3>1, <3>2
  <2>5. pkt \o b1 \in Seq(Nat) /\ Len(pkt \o b1) >= 1
    <3>1. Len(pkt) \in Nat /\ Len(b1) \in Nat
      BY <1>12
    <3> QED
      BY <1>12, <3>1, ConcatProperties
  <2>6. Parsed(start, (pkt \o b1) \o r, Ready(<<x>>))
    <3>1. Parsed(start, pkt \o b1, Ready(<<x>>))
      BY <1>14, <2>1
    <3> QED
      BY <2>3, <2>4, <2>5, <3>1, ParsedSkip
  <2>7. (pkt \o b1) \o r = pkt \o b
    <3>1. b1 \o r = b
      <4>1. SubSeq(b, 1, k) \o SubSeq(b, k + 1, K) = SubSeq(b, 1, K)
        <5>1. 1 \in 1..(Len(b) + 1) /\ k \in (1 - 1)..Len(b) /\ K \in k..Len(b)
          BY <1>2, <1>3, <1>10
        <5> QED
          BY <5>1, ConcatAdjacentSubSeq
      <4>2. SubSeq(b, 1, K) = b
        BY <1>2, SubSeqFull
      <4> QED
        BY <1>11, <2>2, <4>1, <4>2
    <3>2. (pkt \o b1) \o r = pkt \o (b1 \o r)
      <4>1. b1 \in Seq(Nat) /\ r \in Seq(Nat)
        BY <1>12, <2>3
      <4> QED
        BY <4>1, BytesConcat, Zenon
    <3> QED
      BY <3>1, <3>2
  <2> QED
    BY <1>7, <2>6, <2>7
<1> QED
  BY <1>15, <1>16

(* What WriteChunk leaves alone, and what it knows *)
LEMMA WriteFacts ==
  ASSUME IInv, BuilderOK, WriteChunk
  PROVE  /\ pump = "build" /\ pump' = "build" /\ tx_msg_active /\ Room > 0
         /\ tx_cur_msg \in Messages /\ tx_cur_msg \in Message
         /\ tx_cur_msg.payload \in Seq(Nat) /\ Len(tx_cur_msg.payload) \in Nat
         /\ tx_offset \in Nat /\ (tx_offset = 0 \/ tx_offset < Len(tx_cur_msg.payload))
         /\ tx_buffer \in Seq(Nat) /\ Len(tx_buffer) \in Nat /\ Len(tx_buffer) >= 1
         /\ tx_msg_active' = (tx_offset' < Len(tx_cur_msg.payload))
         /\ UNCHANGED <<link, pkt_mtu, tx_cur_msg, receiver, due>>
<1>1. /\ pump = "build" /\ pump' = "build" /\ tx_msg_active /\ Room > 0
      /\ tx_msg_active' = (tx_offset' < Len(tx_cur_msg.payload))
      /\ UNCHANGED <<link, pkt_mtu, tx_cur_msg, receiver, due>>
  BY DEF WriteChunk
<1>2. /\ tx_cur_msg \in Messages /\ tx_cur_msg \in Message
      /\ tx_cur_msg.payload \in Seq(Nat) /\ Len(tx_cur_msg.payload) \in Nat
      /\ tx_offset \in Nat /\ (tx_offset = 0 \/ tx_offset < Len(tx_cur_msg.payload))
  BY <1>1, MessageIs DEF IInv, QueueOK, BuilderOK
<1>3. tx_buffer \in Seq(Nat) /\ Len(tx_buffer) \in Nat /\ Len(tx_buffer) >= 1
  <2>1. /\ pkt_mtu \in Nat /\ tx_buffer \in Seq(Nat)
        /\ Len(tx_buffer) = 1 \/ Len(tx_buffer) \in 2..pkt_mtu
    BY <1>1 DEF IInv, PacketOK
  <2>2. Len(tx_buffer) \in Nat
    BY <2>1
  <2>3. ASSUME NEW n \in Nat, n = 1 \/ n \in 2..pkt_mtu PROVE n >= 1
    BY <2>1, <2>3
  <2> QED
    BY <2>1, <2>2, <2>3, Zenon
<1> QED
  BY <1>1, <1>2, <1>3

(* The bytes it writes: a header, if the message begins here, and a piece   *)
(* of the payload that ends with the payload or with the packet.  No byte   *)
(* but the first of the header is the magic one.                            *)
Bytes(h, chunk) ==
  LET m == tx_cur_msg IN
  /\ h = (IF tx_offset = 0 THEN Header(m) ELSE <<>>) /\ h \in Seq(Nat)
  /\ chunk \in Seq(Nat) /\ Len(chunk) \in Nat
  /\ tx_offset' = tx_offset + Len(chunk) /\ tx_offset' <= Len(m.payload)
  /\ chunk = SubSeq(m.payload, tx_offset + 1, tx_offset + Len(chunk))
  /\ \/ tx_offset' = Len(m.payload)
     \/ Len(chunk) = (IF tx_offset = 0 THEN Room - HeaderLen ELSE Room)
  /\ \A j \in 1..Len(chunk) : chunk[j] # BLE_MAGIC
  /\ \A j \in 2..Len(h \o chunk) : (h \o chunk)[j] # BLE_MAGIC
  /\ h \o chunk \in Seq(Nat)
  /\ tx_buffer' = (tx_buffer \o h) \o chunk /\ tx_buffer' = tx_buffer \o (h \o chunk)
  /\ tx_buffer'[1] = tx_buffer[1]
  /\ Len(tx_buffer') = Len(tx_buffer) + Len(h) + Len(chunk)

LEMMA WrittenBytes ==
  ASSUME IInv, BuilderOK, WriteChunk
  PROVE  \E h, chunk : Bytes(h, chunk)
<1>1. PICK m, o, pl : m = tx_cur_msg /\ o = tx_offset /\ pl = m.payload
  OBVIOUS
<1>2. PICK h, chunk : h = (IF o = 0 THEN Header(m) ELSE <<>>) /\ chunk = Chunk(m)
  OBVIOUS
<1>3. PICK k : k = Len(chunk)
  OBVIOUS
<1>4. /\ m \in Messages /\ m \in Message /\ pl \in Seq(Nat) /\ Len(pl) \in Nat /\ o \in Nat
      /\ tx_buffer \in Seq(Nat) /\ Len(tx_buffer) \in Nat /\ Len(tx_buffer) >= 1
  BY <1>1, WriteFacts
<1>5. /\ chunk \in Seq(Nat) /\ k \in Nat /\ o + k <= Len(pl) /\ chunk = SubSeq(pl, o + 1, o + k)
      /\ o + k = Len(pl) \/ k = (IF o = 0 THEN Room - HeaderLen ELSE Room)
  BY <1>1, <1>2, <1>3, ChunkFits
<1>6. tx_offset' = o + k /\ tx_buffer' = (tx_buffer \o h) \o chunk
  BY <1>1, <1>2, <1>3 DEF WriteChunk
<1>7. /\ h \in Seq(Nat) /\ Len(h) \in Nat /\ \A j \in 2..Len(h) : h[j] # BLE_MAGIC
  <2>1. CASE o = 0
    <3>1. /\ m.opcode \in Nat /\ m.req_app \in Nat /\ Len(m.payload) \in Nat
          /\ m.opcode # BLE_MAGIC /\ m.req_app # BLE_MAGIC /\ Len(m.payload) # BLE_MAGIC
      BY <1>4, KnownMessage, TransportAssumption
    <3>2. /\ Header(m) \in Seq(Nat) /\ Len(Header(m)) = 4
          /\ Header(m)[2] = m.opcode /\ Header(m)[3] = m.req_app /\ Header(m)[4] = Len(m.payload)
      BY <3>1 DEF Header
    <3>3. \A j \in 2..4 : j = 2 \/ j = 3 \/ j = 4
      OBVIOUS
    <3>4. h = Header(m)
      BY <1>2, <2>1
    <3>5. \A j \in 2..Len(h) : j = 2 \/ j = 3 \/ j = 4
      BY <3>2, <3>3, <3>4
    <3> HIDE DEF BLE_MAGIC
    <3>6. h \in Seq(Nat) /\ Len(h) = 4
          /\ h[2] # BLE_MAGIC /\ h[3] # BLE_MAGIC /\ h[4] # BLE_MAGIC
      BY <3>1, <3>2, <3>4, Zenon
    <3>7. \A j \in 2..Len(h) : h[j] # BLE_MAGIC
      BY <3>5, <3>6, Zenon
    <3> QED
      BY <3>6, <3>7
  <2>2. CASE o # 0
    BY <1>2, <2>2
  <2> QED
    BY <2>1, <2>2
<1>8. ASSUME NEW j \in 1..k PROVE chunk[j] # BLE_MAGIC
  <2>1. \A i \in DOMAIN pl : pl[i] # BLE_MAGIC
    BY <1>1, <1>4, TransportAssumption DEF Range
  <2>2. chunk[j] = pl[o + j] /\ o + j \in DOMAIN pl
    <3>1. o + j \in 1..Len(pl) /\ SubSeq(pl, o + 1, o + k)[j] = pl[o + j]
      BY <1>4, <1>5, Slice
    <3>2. 1..Len(pl) = DOMAIN pl
      BY <1>4
    <3> QED
      BY <1>5, <3>1, <3>2, Zenon
  <2> QED
    BY <2>1, <2>2
<1>9. PICK b : b = h \o chunk
  OBVIOUS
<1>10. /\ b \in Seq(Nat) /\ Len(b) = Len(h) + k
       /\ \A j \in 1..(Len(h) + k) : b[j] = IF j <= Len(h) THEN h[j] ELSE chunk[j - Len(h)]
  <2>1. PICK n : n = Len(h)
    OBVIOUS
  <2>2. /\ b \in Seq(Nat) /\ Len(b) = n + k
        /\ \A j \in 1..(n + k) : b[j] = IF j <= n THEN h[j] ELSE chunk[j - n]
    <3>1. Len(chunk) = k
      BY <1>3
    <3>2. /\ h \o chunk \in Seq(Nat) /\ Len(h \o chunk) = Len(h) + Len(chunk)
          /\ \A j \in 1..(Len(h) + Len(chunk)) :
               (h \o chunk)[j] = IF j <= Len(h) THEN h[j] ELSE chunk[j - Len(h)]
      BY <1>5, <1>7, ConcatProperties
    <3> QED
      BY <1>9, <2>1, <3>1, <3>2, Zenon
  <2> QED
    BY <2>1, <2>2
<1>11. ASSUME NEW j \in 2..Len(b) PROVE b[j] # BLE_MAGIC
  <2>1. CASE j <= Len(h)
    <3>1. j \in 2..Len(h) /\ b[j] = h[j]
      BY SMTT(40), <1>5, <1>7, <1>10, <2>1
    <3> QED
      BY <1>7, <3>1
  <2>2. CASE ~(j <= Len(h))
    <3>0. PICK n : n = Len(h)
      OBVIOUS
    <3>2. j \in 1..(n + k) /\ ~(j <= n) /\ n \in Nat /\ k \in Nat
      BY <1>5, <1>7, <1>10, <2>2, <3>0
    <3>3. j - n \in 1..k
      BY <3>2
    <3>1. j - Len(h) \in 1..k /\ b[j] = chunk[j - Len(h)]
      BY <1>10, <3>0, <3>2, <3>3
    <3> QED
      BY <1>8, <3>1
  <2> QED
    BY <2>1, <2>2
<1>12. tx_buffer' = tx_buffer \o b
  BY <1>4, <1>5, <1>6, <1>7, <1>9, BytesConcat
<1>13. tx_buffer'[1] = tx_buffer[1] /\ Len(tx_buffer') = Len(tx_buffer) + Len(h) + k
  <2>1. /\ Len(tx_buffer \o b) = Len(tx_buffer) + Len(b)
        /\ \A i \in 1..(Len(tx_buffer) + Len(b)) :
             (tx_buffer \o b)[i] = IF i <= Len(tx_buffer) THEN tx_buffer[i]
                                    ELSE b[i - Len(tx_buffer)]
    BY <1>4, <1>10, ConcatProperties
  <2> QED
    BY <1>4, <1>5, <1>7, <1>10, <1>12, <2>1
<1>14. \A j \in 2..Len(h \o chunk) : (h \o chunk)[j] # BLE_MAGIC
  BY <1>9, <1>11
<1> HIDE DEF BLE_MAGIC
<1>15. Bytes(h, chunk)
  <2>1. h = (IF tx_offset = 0 THEN Header(tx_cur_msg) ELSE <<>>)
    BY <1>1, <1>2
  <2>2. /\ tx_offset' = tx_offset + Len(chunk) /\ tx_offset' <= Len(tx_cur_msg.payload)
        /\ chunk = SubSeq(tx_cur_msg.payload, tx_offset + 1, tx_offset + Len(chunk))
        /\ \/ tx_offset' = Len(tx_cur_msg.payload)
           \/ Len(chunk) = (IF tx_offset = 0 THEN Room - HeaderLen ELSE Room)
    BY <1>1, <1>3, <1>5, <1>6
  <2>3. h \o chunk \in Seq(Nat) /\ tx_buffer' = tx_buffer \o (h \o chunk)
    BY <1>9, <1>10, <1>12
  <2> QED
    BY <1>3, <1>5, <1>6, <1>7, <1>8, <1>13, <1>14, <2>1, <2>2, <2>3, Zenon DEF Bytes
<1> QED
  BY <1>15

(* A parser that is where the builder is stays there. *)
LEMMA WriteRead ==
  ASSUME IInv, BuilderOK, WriteChunk, NEW start, NEW msgs,
         \/ tx_offset = 0 /\ Parsed(start, tx_buffer, Ready(msgs))
         \/ tx_offset > 0 /\ Parsed(start, tx_buffer, Within(tx_cur_msg, tx_offset, msgs))
  PROVE  Parsed(start, tx_buffer', AfterPayload(tx_cur_msg, tx_offset', msgs))
<1>1. PICK m, o, pl : m = tx_cur_msg /\ o = tx_offset /\ pl = m.payload
  OBVIOUS
<1>2. /\ m \in Message /\ pl \in Seq(Nat) /\ Len(pl) \in Nat /\ o \in Nat
      /\ o = 0 \/ o < Len(pl)
      /\ tx_buffer \in Seq(Nat) /\ Len(tx_buffer) \in Nat /\ Len(tx_buffer) >= 1
  BY <1>1, WriteFacts
<1>3. PICK h, chunk : Bytes(h, chunk)
  BY WrittenBytes
<1>4. PICK k : k = Len(chunk)
  OBVIOUS
<1>5. /\ h = (IF o = 0 THEN Header(m) ELSE <<>>) /\ h \in Seq(Nat)
      /\ chunk \in Seq(Nat) /\ k \in Nat /\ tx_offset' = o + k /\ o + k <= Len(pl)
      /\ chunk = SubSeq(pl, o + 1, o + k)
      /\ tx_buffer' = (tx_buffer \o h) \o chunk
  BY <1>1, <1>3, <1>4 DEF Bytes
<1>6. CASE o = 0
  <2>1. Parsed(start, tx_buffer \o Header(m), AfterHeader(m, msgs))
    BY <1>1, <1>2, <1>6, ParsedHeader
  <2>2. PICK p : p = tx_buffer \o Header(m)
    OBVIOUS
  <2>3. p \in Seq(Nat) /\ Len(p) >= 1 /\ tx_buffer' = p \o chunk
    <3>1. h = Header(m) /\ Len(h) \in Nat
      BY <1>5, <1>6
    <3>2. tx_buffer \o h \in Seq(Nat) /\ Len(tx_buffer \o h) = Len(tx_buffer) + Len(h)
      BY <1>2, <1>5, ConcatProperties
    <3>3. p = tx_buffer \o h
      BY <2>2, <3>1
    <3>4. Len(p) >= 1
      BY <1>2, <3>1, <3>2, <3>3
    <3> QED
      BY <1>5, <3>2, <3>3, <3>4
  <2>4. CASE Len(pl) = 0
    <3>1. k = 0
      BY <1>2, <1>5, <1>6, <2>4
    <3>2. chunk = <<>>
      BY <1>4, <1>5, <3>1, EmptySeq
    <3>3. tx_buffer' = p
      BY <2>3, <3>2, ConcatEmptySeq
    <3>4. tx_offset' = 0 /\ Len(m.payload) = 0
      BY <1>1, <1>5, <1>6, <2>4, <3>1
    <3>5. AfterPayload(m, 0, msgs) = AfterHeader(m, msgs)
      BY <3>4 DEF AfterHeader, AfterPayload
    <3> QED
      BY <1>1, <2>1, <2>2, <3>3, <3>4, <3>5
  <2>5. CASE Len(pl) # 0
    <3>1. AfterHeader(m, msgs) = Within(m, 0, msgs) /\ 0 < Len(pl) /\ 0 + k <= Len(pl)
          /\ 0 + k = o + k
      BY <1>1, <1>2, <1>5, <1>6, <2>5 DEF AfterHeader
    <3>2. Parsed(start, p, Within(m, 0, msgs))
      BY <2>1, <2>2, <3>1
    <3>3. Parsed(start, p \o SubSeq(pl, 0 + 1, 0 + k), AfterPayload(m, 0 + k, msgs))
      BY <1>1, <1>2, <1>5, <2>3, <3>1, <3>2, ParsedPayload
    <3> QED
      BY <1>1, <1>5, <1>6, <2>3, <3>1, <3>3
  <2> QED
    BY <2>4, <2>5
<1>7. CASE o # 0
  <2>1. o < Len(pl) /\ o > 0 /\ Parsed(start, tx_buffer, Within(m, o, msgs))
    BY <1>1, <1>2, <1>7
  <2>2. Parsed(start, tx_buffer \o SubSeq(pl, o + 1, o + k), AfterPayload(m, o + k, msgs))
    BY <1>1, <1>2, <1>5, <2>1, ParsedPayload
  <2>3. tx_buffer' = tx_buffer \o chunk
    <3>1. tx_buffer \o h = tx_buffer
      BY <1>2, <1>5, <1>7, ConcatEmptySeq
    <3> QED
      BY <1>5, <3>1
  <2> QED
    BY <1>1, <1>5, <2>2, <2>3
<1> QED
  BY <1>6, <1>7

(* A header alone is only ever the end of a packet. *)
LEMMA HeaderEndsPacket ==
  ASSUME IInv, BuilderOK, WriteChunk
  PROVE  tx_offset' > 0 \/ tx_offset' = Len(tx_cur_msg.payload) \/ Room' <= 0
<1>1. PICK h, chunk : Bytes(h, chunk)
  BY WrittenBytes
<1>2. /\ tx_cur_msg \in Message /\ tx_offset \in Nat /\ pkt_mtu' = pkt_mtu /\ Room > 0
      /\ Len(tx_buffer) \in Nat /\ pkt_mtu \in Nat
  BY WriteFacts DEF IInv, PacketOK
<1>3. PICK k, n, hl : k = Len(chunk) /\ n = Len(tx_buffer) /\ hl = Len(h)
  OBVIOUS
<1>4. /\ k \in Nat /\ n \in Nat /\ tx_offset' = tx_offset + k
      /\ tx_offset' = Len(tx_cur_msg.payload) \/ k = (IF tx_offset = 0 THEN Room - 4 ELSE Room)
      /\ Room = pkt_mtu - n /\ Len(tx_buffer') = n + hl + k
  BY <1>1, <1>2, <1>3 DEF Bytes, Room
<1>5. ASSUME ~(tx_offset' > 0), tx_offset' # Len(tx_cur_msg.payload)
      PROVE  Room' <= 0
  <2>1. tx_offset = 0 /\ k = 0
    BY <1>2, <1>4, <1>5
  <2>2. Room = 4
    BY <1>2, <1>4, <1>5, <2>1 DEF Room
  <2>3. hl = 4
    <3>1. h = Header(tx_cur_msg)
      BY <1>1, <2>1 DEF Bytes
    <3>2. Len(Header(tx_cur_msg)) = 4
      BY DEF Header
    <3> QED
      BY <1>3, <3>1, <3>2
  <2>4. Len(tx_buffer') = n + 4
    BY <1>4, <2>1, <2>3
  <2>5. Room' = pkt_mtu - (n + 4)
    BY <1>2, <2>4 DEF Room
  <2> QED
    BY <1>2, <1>4, <2>2, <2>5
<1> QED
  BY <1>5

(* In step before, in step behind it *)
LEMMA WriteFollows ==
  ASSUME IInv, BuilderOK, WriteChunk, NEW start, NEW c, NEW msgs,
         Parsed(start, tx_buffer, c), Follows(c, msgs)
  PROVE  \E d : /\ Parsed(start, tx_buffer', d)
                /\ tx_msg_active' => Follows(d, msgs)'
                /\ ~tx_msg_active' => \A x : x = Append(msgs, tx_cur_msg) => Follows(d, x)'
<1>1. PICK m, n : m = tx_cur_msg /\ n = tx_offset'
  OBVIOUS
<1>2. /\ tx_msg_active /\ Room > 0 /\ tx_cur_msg' = m /\ tx_offset \in Nat
      /\ tx_msg_active' = (n < Len(m.payload)) /\ Len(m.payload) \in Nat
  BY <1>1, WriteFacts
<1>3. /\ n > 0 \/ n = Len(m.payload) \/ Room' <= 0
      /\ n <= Len(m.payload) /\ n \in Nat
  <2>1. PICK h, chunk : Bytes(h, chunk)
    BY WrittenBytes
  <2>2. tx_offset' = tx_offset + Len(chunk) /\ tx_offset' <= Len(tx_cur_msg.payload)
        /\ Len(chunk) \in Nat
    BY <2>1 DEF Bytes
  <2> QED
    BY <1>1, <1>2, <2>2, HeaderEndsPacket
<1>4. \/ tx_offset = 0 /\ c = Ready(msgs)
      \/ tx_offset > 0 /\ c = Within(m, tx_offset, msgs)
  <2>1. ~(Room <= 0)
    <3>1. Room \in Int
      BY DEF Room, IInv, PacketOK
    <3> QED
      BY <1>2, <3>1
  <2> QED
    BY <1>1, <1>2, <2>1 DEF Follows, At
<1>5. PICK d : d = AfterPayload(m, n, msgs)
  OBVIOUS
<1>6. Parsed(start, tx_buffer', d)
  BY <1>1, <1>4, <1>5, WriteRead
<1>7. CASE n = Len(m.payload)
  <2>1. ~tx_msg_active' /\ d = Ready(Append(msgs, m))
    <3>1. ~(n < Len(m.payload))
      BY <1>2, <1>7
    <3> QED
      BY <1>2, <1>5, <1>7, <3>1, Zenon DEF AfterPayload
  <2>2. \A x : x = Append(msgs, m) => Follows(d, x)'
    BY <2>1 DEF Follows, At
  <2> QED
    BY <1>1, <1>6, <2>1, <2>2
<1>8. CASE n # Len(m.payload)
  <2>1. n < Len(m.payload) /\ d = Within(m, n, msgs) /\ (n > 0 \/ Room' <= 0)
    BY <1>3, <1>5, <1>8 DEF AfterPayload
  <2>2. tx_msg_active'
    BY <1>2, <2>1
  <2>3. Follows(d, msgs)'
    BY <1>1, <1>2, <2>1, <2>2 DEF Follows, At
  <2> QED
    BY <1>6, <2>2, <2>3
<1> QED
  BY <1>7, <1>8

(* The rest of a message is skipped. *)
LEMMA WriteSkips ==
  ASSUME IInv, BuilderOK, WriteChunk, NEW start, NEW msgs,
         Parsed(start, tx_buffer, Ready(msgs)), tx_offset > 0
  PROVE  Parsed(start, tx_buffer', Ready(msgs)) /\ tx_offset' > 0
<1>1. PICK h, chunk : Bytes(h, chunk)
  BY WrittenBytes
<1>2. /\ tx_buffer \in Seq(Nat) /\ Len(tx_buffer) >= 1 /\ tx_offset \in Nat
  BY WriteFacts
<1>3. /\ h = <<>> /\ chunk \in Seq(Nat) /\ Len(chunk) \in Nat
      /\ tx_offset' = tx_offset + Len(chunk)
      /\ \A j \in 1..Len(chunk) : chunk[j] # BLE_MAGIC
      /\ tx_buffer' = (tx_buffer \o h) \o chunk
  BY <1>1, <1>2 DEF Bytes
<1>4. tx_buffer' = tx_buffer \o chunk
  <2>1. tx_buffer \o h = tx_buffer
    BY <1>2, <1>3, ConcatEmptySeq
  <2> QED
    BY <1>3, <2>1
<1>5. Parsed(start, tx_buffer \o chunk, Ready(msgs))
  BY <1>2, <1>3, ParsedSkip
<1> QED
  BY <1>2, <1>3, <1>4, <1>5

(* One message alone *)
LEMMA OneMessage ==
  ASSUME NEW x \in Message, NEW ms \in Seq(Message), NEW m \in Message
  PROVE  <<x>> \o <<>> = <<x>> /\ Append(<<x>> \o ms, m) = <<x>> \o Append(ms, m)
<1>1. <<x>> \in Seq(Message) /\ <<m>> \in Seq(Message)
  OBVIOUS
<1>2. <<x>> \o <<>> = <<x>>
  BY <1>1, ConcatEmptySeq
<1>3. <<x>> \o ms \in Seq(Message)
  BY <1>1, ConcatProperties
<1>4. Append(<<x>> \o ms, m) = (<<x>> \o ms) \o <<m>>
  BY <1>3, AppendIsConcat
<1>5. Append(ms, m) = ms \o <<m>>
  BY AppendIsConcat
<1>6. (<<x>> \o ms) \o <<m>> = <<x>> \o (ms \o <<m>>)
  <2>1. \A a, b, c \in Seq(Message) : (a \o b) \o c = a \o (b \o c)
    BY SMTT(40), ConcatAssociative
  <2> QED
    BY <1>1, <2>1, Zenon
<1> QED
  BY <1>2, <1>4, <1>5, <1>6

(* What is due when a chunk is written *)
LEMMA WriteDue ==
  ASSUME IInv, BuilderOK, DueOK, WriteChunk
  PROVE  /\ DueOK' /\ Done \in Seq(Message) /\ Done' \in Seq(Message)
         /\ tx_msg_active' => Done' = Done
         /\ ~tx_msg_active' => Done' = Append(Done, tx_cur_msg)
<1>1. PICK d, m : d = Done /\ m = tx_cur_msg
  OBVIOUS
<1>2. /\ tx_msg_active /\ due' = due /\ tx_cur_msg' = m /\ m \in Message /\ pump = "build"
      /\ tx_msg_active' \in BOOLEAN
  <2>1. /\ tx_msg_active /\ due' = due /\ tx_cur_msg' = m /\ m \in Message /\ pump = "build"
        /\ tx_msg_active' = (tx_offset' < Len(tx_cur_msg.payload))
    BY <1>1, WriteFacts
  <2>2. (tx_offset' < Len(tx_cur_msg.payload)) \in BOOLEAN
    OBVIOUS
  <2> QED
    BY <2>1, <2>2, Zenon
<1>3. d \in Seq(Message) /\ due = Append(d, m)
  BY <1>1, <1>2 DEF DueOK, Building
<1>4. Append(d, m) \in Seq(Message) /\ Front(Append(d, m)) = d
  BY <1>2, <1>3, FrontAppend
<1>5. ASSUME tx_msg_active' PROVE Done' = d
  BY <1>2, <1>3, <1>4, <1>5 DEF Done, Front
<1>6. ASSUME ~tx_msg_active' PROVE Done' = Append(d, m)
  BY <1>2, <1>3, <1>6 DEF Done
<1>7. Done' \in Seq(Message) /\ (tx_msg_active' => due' = Append(Done', tx_cur_msg'))
  BY <1>2, <1>3, <1>4, <1>5, <1>6
<1>8. DueOK'
  BY <1>7 DEF DueOK
<1> QED
  BY <1>1, <1>3, <1>5, <1>6, <1>7, <1>8

(* A parser that was between two messages *)
LEMMA WriteFresh ==
  ASSUME IInv, StreamInv, WriteChunk
  PROVE  FreshRead'
<1>1. PICK s : s = rx_reset_context
  OBVIOUS
<1>2. PICK d0, m : d0 = Done /\ m = tx_cur_msg
  OBVIOUS
<1>3. /\ BuilderOK /\ DueOK /\ pump = "build" /\ tx_msg_active
      /\ m \in Message /\ d0 \in Seq(Message) /\ tx_offset \in Nat
      /\ tx_msg_active' => Done' = d0
      /\ ~tx_msg_active' => Done' = Append(d0, m)
  BY <1>2, WriteFacts, WriteDue DEF StreamInv
<1>4. tx_buffer'[1] = tx_buffer[1]
  <2>1. PICK h, chunk : Bytes(h, chunk)
    BY <1>3, WrittenBytes
  <2> QED
    BY <2>1 DEF Bytes
<1>5. PICK c : Parsed(s, tx_buffer, c) /\ FreshAt(c)
  BY <1>1, <1>3 DEF StreamInv, FreshRead, Building
<1> SUFFICES \E d : Parsed(s, tx_buffer', d) /\ FreshAt(d)'
  BY <1>1 DEF FreshRead
<1>6. CASE Follows(c, d0)
  <2>1. PICK d : /\ Parsed(s, tx_buffer', d)
                 /\ tx_msg_active' => Follows(d, d0)'
                 /\ ~tx_msg_active' => \A x : x = Append(d0, tx_cur_msg) => Follows(d, x)'
    BY <1>3, <1>5, <1>6, WriteFollows
  <2>2. Follows(d, Done)'
    <3>1. CASE tx_msg_active'
      BY <1>3, <2>1, <3>1 DEF Follows, At
    <3>2. CASE ~tx_msg_active'
      BY <1>2, <1>3, <2>1, <3>2 DEF Follows, At
    <3> QED
      BY <3>1, <3>2
  <2> QED
    BY <2>1, <2>2 DEF FreshAt
<1>7. CASE tx_buffer[1] = 1 /\ d0 # <<>> /\ Follows(c, Tail(d0))
  <2>1. PICK t : t = Tail(d0)
    OBVIOUS
  <2>2. PICK d : /\ Parsed(s, tx_buffer', d)
                 /\ tx_msg_active' => Follows(d, t)'
                 /\ ~tx_msg_active' => \A x : x = Append(t, tx_cur_msg) => Follows(d, x)'
    BY <1>3, <1>5, <1>7, <2>1, WriteFollows
  <2>3. Append(d0, m) # <<>> /\ Tail(Append(d0, m)) = Append(t, m)
    BY <1>3, <1>7, <2>1, FrontAppend, HeadTailAppend
  <2>4. Done' # <<>> /\ Follows(d, Tail(Done))'
    <3>1. CASE tx_msg_active'
      <4>1. Tail(Done') = t /\ Done' # <<>>
        BY <1>3, <1>7, <2>1, <3>1
      <4> QED
        BY <2>2, <3>1, <4>1 DEF Follows, At
    <3>2. CASE ~tx_msg_active'
      <4>1. Tail(Done') = Append(t, m) /\ Done' # <<>>
        BY <1>3, <2>3, <3>2
      <4> QED
        BY <1>2, <2>2, <3>2, <4>1 DEF Follows, At
    <3> QED
      BY <3>1, <3>2
  <2> QED
    BY <1>4, <1>7, <2>2, <2>4 DEF FreshAt
<1>8. CASE tx_buffer[1] = 1 /\ d0 = <<>> /\ Skips(c, <<>>)
  <2>1. Parsed(s, tx_buffer', Ready(<<>>)) /\ tx_offset' > 0
    BY <1>3, <1>5, <1>8, WriteSkips DEF Skips
  <2>2. CASE tx_msg_active'
    <3>1. Done' = <<>> /\ Skips(Ready(<<>>), <<>>)'
      BY <1>3, <1>8, <2>1, <2>2 DEF Skips
    <3> QED
      BY <1>4, <1>8, <2>1, <3>1 DEF FreshAt
  <2>3. CASE ~tx_msg_active'
    <3>1. Done' = <<m>> /\ Tail(<<m>>) = <<>> /\ <<m>> # <<>>
      <4>1. Append(<<>>, m) = <<m>>
        OBVIOUS
      <4> QED
        BY <1>3, <1>8, <2>3, <4>1
    <3>2. Tail(Done') = <<>> /\ Done' # <<>>
      BY <3>1
    <3>3. Follows(Ready(<<>>), Tail(Done))'
      BY <2>3, <3>2 DEF Follows, At
    <3> QED
      BY <1>4, <1>8, <2>1, <3>2, <3>3 DEF FreshAt
  <2> QED
    BY <2>2, <2>3
<1> QED
  BY <1>2, <1>5, <1>6, <1>7, <1>8 DEF FreshAt

(* A receiver that was inside a payload *)
LEMMA WriteLate ==
  ASSUME IInv, StreamInv, WriteChunk
  PROVE  LateRead'
<1>1. PICK s : s = rx_ctx
  OBVIOUS
<1>2. PICK d0, m : d0 = Done /\ m = tx_cur_msg
  OBVIOUS
<1>3. /\ BuilderOK /\ DueOK /\ pump = "build" /\ tx_msg_active /\ rx_ctx' = s
      /\ m \in Message /\ d0 \in Seq(Message) /\ tx_offset \in Nat
      /\ tx_buffer \in Seq(Nat) /\ Len(tx_buffer) >= 1
      /\ Done' \in Seq(Message)
      /\ tx_msg_active' => Done' = d0
      /\ ~tx_msg_active' => Done' = Append(d0, m)
  BY <1>1, <1>2, WriteFacts, WriteDue DEF StreamInv
<1> SUFFICES ASSUME s.state = "payload"
             PROVE  \E d : Parsed(s, tx_buffer', d) /\ LateAt(d)'
  BY <1>3 DEF LateRead
<1>5. PICK c : Parsed(s, tx_buffer, c) /\ LateAt(c)
  BY <1>1, <1>3 DEF StreamInv, LateRead, Building
<1>6. ASSUME NEW d, NEW x \in Genuine, d = Ready(<<x>>), Parsed(s, tx_buffer', d)
      PROVE  LateAt(d)'
  <2>1. CASE tx_msg_active' /\ tx_offset' > 0
    <3>1. Skips(d, <<x>>)'
      BY <1>6, <2>1 DEF Skips
    <3> QED
      BY <1>6, <3>1 DEF LateAt
  <2>2. CASE ~(tx_msg_active' /\ tx_offset' > 0)
    <3>1. tx_msg_active' => tx_offset' = 0
      <4>1. tx_offset' \in Nat
        <5>1. PICK h, chunk : Bytes(h, chunk)
          BY <1>3, WrittenBytes
        <5>2. tx_offset' = tx_offset + Len(chunk) /\ Len(chunk) \in Nat
          BY <5>1 DEF Bytes
        <5> QED
          BY <1>3, <5>2
      <4> QED
        BY <2>2, <4>1
    <3>2. <<x>> \o <<>> = <<x>> /\ <<>> \in Seq(Message)
      BY <1>3, OneMessage DEF Genuine
    <3>3. Follows(d, <<x>> \o <<>>)'
      BY <1>6, <3>1, <3>2 DEF Follows, At
    <3>4. EndOf(<<>>, Done)'
      BY <1>3, EndsOf DEF EndOf
    <3> QED
      BY <1>6, <3>2, <3>3, <3>4 DEF LateAt
  <2> QED
    BY <2>1, <2>2
<1>7. CASE Begun(c)
  <2>1. PICK h, chunk : Bytes(h, chunk)
    BY <1>3, WrittenBytes
  <2>2. PICK b : b = h \o chunk
    OBVIOUS
  <2>3. b \in Seq(Nat) /\ tx_buffer' = tx_buffer \o b /\ \A j \in 2..Len(b) : b[j] # BLE_MAGIC
    BY <2>1, <2>2 DEF Bytes
  <2>4. PICK d : /\ Parsed(s, tx_buffer \o b, d)
                 /\ Begun(d) \/ \E x \in Genuine : d = Ready(<<x>>)
    BY <1>3, <1>5, <1>7, <2>3, ParsedEaten
  <2>5. Parsed(s, tx_buffer', d)
    BY <2>3, <2>4
  <2>6. CASE Begun(d)
    BY <2>5, <2>6 DEF LateAt, Begun
  <2>7. CASE \E x \in Genuine : d = Ready(<<x>>)
    BY <1>6, <2>5, <2>7
  <2> QED
    BY <2>4, <2>6, <2>7
<1>8. ASSUME NEW x \in Genuine, Skips(c, <<x>>)
      PROVE  \E d : Parsed(s, tx_buffer', d) /\ LateAt(d)'
  <2>1. Parsed(s, tx_buffer', Ready(<<x>>))
    BY <1>3, <1>5, <1>8, WriteSkips DEF Skips
  <2> QED
    BY <1>6, <2>1
<1>9. ASSUME NEW x \in Genuine, NEW ms \in Seq(Message), EndOf(ms, d0), Follows(c, <<x>> \o ms)
      PROVE  \E d : Parsed(s, tx_buffer', d) /\ LateAt(d)'
  <2>1. PICK t : t = <<x>> \o ms
    OBVIOUS
  <2>2. PICK d : /\ Parsed(s, tx_buffer', d)
                 /\ tx_msg_active' => Follows(d, t)'
                 /\ ~tx_msg_active' => \A y : y = Append(t, tx_cur_msg) => Follows(d, y)'
    BY <1>3, <1>5, <1>9, <2>1, WriteFollows
  <2>3. CASE tx_msg_active'
    <3>1. EndOf(ms, Done)'
      BY <1>3, <1>9, <2>3 DEF EndOf
    <3>2. Follows(d, <<x>> \o ms)'
      BY <2>1, <2>2, <2>3 DEF Follows, At
    <3> QED
      BY <1>9, <2>2, <3>1, <3>2 DEF LateAt
  <2>4. CASE ~tx_msg_active'
    <3>0. PICK ms1 : ms1 = Append(ms, m)
      OBVIOUS
    <3>1. ms1 \in Seq(Message) /\ Append(t, m) = <<x>> \o ms1
      BY <1>3, <1>9, <2>1, <3>0, OneMessage, AppendProperties DEF Genuine
    <3>2. EndOf(ms1, Done)'
      <4>1. EndOf(Append(ms, m), Append(d0, m))
        BY <1>3, <1>9, EndGrows
      <4> QED
        BY <1>3, <2>4, <3>0, <4>1 DEF EndOf
    <3>3. Follows(d, <<x>> \o ms1)'
      BY <1>2, <2>2, <2>4, <3>1 DEF Follows, At
    <3> QED
      BY <1>9, <2>2, <3>1, <3>2, <3>3 DEF LateAt
  <2> QED
    BY <2>3, <2>4
<1> QED
  BY <1>2, <1>5, <1>7, <1>8, <1>9 DEF LateAt

(* The receiver of an exact stream *)
LEMMA WriteExact ==
  ASSUME IInv, StreamInv, WriteChunk
  PROVE  InPacket'
<1>1. PICK s : s = Flagged(tx_buffer[1])
  OBVIOUS
<1>2. PICK d0, m : d0 = Done /\ m = tx_cur_msg
  OBVIOUS
<1>3. /\ BuilderOK /\ DueOK /\ pump = "build" /\ tx_msg_active /\ rx_ctx' = rx_ctx
      /\ tx_cur_msg' = m /\ lossy' = lossy
      /\ m \in Message /\ d0 \in Seq(Message) /\ tx_offset \in Nat /\ Len(m.payload) \in Nat
      /\ tx_msg_active' => Done' = d0
      /\ ~tx_msg_active' => Done' = Append(d0, m)
      /\ tx_msg_active' = (tx_offset' < Len(m.payload))
  BY <1>2, WriteFacts, WriteDue DEF StreamInv
<1>4. PICK h, chunk : Bytes(h, chunk)
  BY <1>3, WrittenBytes
<1>5. Flagged(tx_buffer[1])' = s
  BY <1>1, <1>3, <1>4 DEF Bytes, Flagged
<1> SUFFICES ASSUME Exact'
             PROVE  \E d : Parsed(s, tx_buffer', d) /\ At(d, Done, headers > 0)'
  BY <1>5 DEF InPacket
<1>6. /\ headers' = IF tx_offset = 0 /\ headers < 2 THEN headers + 1 ELSE headers
      /\ repeated' = (repeated \/ headers' > 1)
      /\ headers \in 0..2 /\ repeated \in BOOLEAN
  <2>1. /\ headers' = IF tx_offset = 0 /\ headers < 2 THEN headers + 1 ELSE headers
        /\ repeated' = (repeated \/ headers' > 1)
    BY DEF WriteChunk
  <2> QED
    BY <1>3, <2>1, Zenon DEF BuilderOK
<1>7. ~repeated /\ ~(headers' > 1) /\ Exact
  <2>1. ~repeated' /\ ~lossy'
    BY DEF Exact
  <2> QED
    BY <1>3, <1>6, <2>1, Zenon DEF Exact
<1>8. tx_offset = 0 => headers = 0 /\ headers' = 1
  BY <1>6, <1>7
<1>9. PICK c : Parsed(s, tx_buffer, c) /\ At(c, d0, headers > 0)
  BY <1>1, <1>2, <1>3, <1>7 DEF StreamInv, InPacket, Building
<1>10. \/ tx_offset = 0 /\ c = Ready(d0)
       \/ tx_offset > 0 /\ c = Within(m, tx_offset, d0)
  BY <1>2, <1>3, <1>8, <1>9 DEF At
<1>11. PICK n, d : n = tx_offset' /\ d = AfterPayload(m, n, d0)
  OBVIOUS
<1>12. Parsed(s, tx_buffer', d)
  BY <1>2, <1>3, <1>9, <1>10, <1>11, WriteRead
<1>13. n \in Nat /\ n <= Len(m.payload) /\ (n > 0 \/ headers' > 0)
  <2>1. n = tx_offset + Len(chunk) /\ n <= Len(m.payload) /\ Len(chunk) \in Nat
    BY <1>2, <1>4, <1>11 DEF Bytes
  <2> QED
    BY <1>3, <1>8, <2>1
<1>14. CASE n = Len(m.payload)
  <2>1. ~(n < Len(m.payload))
    BY <1>3, <1>14
  <2>2. ~tx_msg_active' /\ d = Ready(Append(d0, m))
    BY <1>3, <1>11, <1>14, <2>1, Zenon DEF AfterPayload
  <2> QED
    BY <1>3, <1>12, <2>2 DEF At
<1>15. CASE n # Len(m.payload)
  <2>1. n < Len(m.payload) /\ d = Within(m, n, d0)
    BY <1>3, <1>11, <1>13, <1>15 DEF AfterPayload
  <2>2. tx_msg_active'
    BY <1>3, <1>11, <2>1, Zenon
  <2> QED
    BY <1>3, <1>11, <1>12, <1>13, <2>1, <2>2 DEF At
<1> QED
  BY <1>14, <1>15

LEMMA WriteStream ==
  ASSUME IInv, StreamInv, WriteChunk
  PROVE  StreamInv'
<1>1. BuilderOK /\ DueOK /\ MtuOK /\ RxOK
  BY DEF StreamInv
<1>2. /\ pump = "build" /\ pump' = "build" /\ tx_msg_active /\ Room > 0
      /\ tx_cur_msg \in Messages /\ tx_cur_msg' = tx_cur_msg
      /\ tx_msg_active' = (tx_offset' < Len(tx_cur_msg.payload))
      /\ UNCHANGED <<link, pkt_mtu, receiver>>
      /\ Len(tx_buffer) \in Nat /\ Len(tx_buffer) >= 1
  BY <1>1, WriteFacts
<1>3. BuilderOK'
  <2>1. /\ headers' = IF tx_offset = 0 /\ headers < 2 THEN headers + 1 ELSE headers
        /\ repeated' = (repeated \/ headers' > 1)
    BY DEF WriteChunk
  <2>2. headers \in 0..2 /\ repeated \in BOOLEAN /\ lossy \in BOOLEAN
    BY <1>1, Zenon DEF BuilderOK
  <2>3. headers' \in 0..2
    BY <2>1, <2>2
  <2>4. (repeated \/ headers' > 1) \in BOOLEAN
        /\ (tx_offset' < Len(tx_cur_msg.payload)) \in BOOLEAN
    OBVIOUS
  <2>5. tx_msg_active' \in BOOLEAN /\ repeated' \in BOOLEAN /\ lossy' \in BOOLEAN
    BY <1>2, <2>1, <2>2, <2>4, Zenon
  <2>6. tx_msg_active' => tx_cur_msg' \in Messages /\ tx_offset' < Len(tx_cur_msg'.payload)
    BY <1>2, Zenon
  <2> QED
    BY <2>3, <2>5, <2>6, Zenon DEF BuilderOK
<1>4. MtuOK'
  <2>1. pkt_mtu # 0
    <3>1. Room = pkt_mtu - Len(tx_buffer)
      BY DEF Room
    <3> QED
      BY <1>2, <3>1
  <2>2. effective_mtu \in Nat /\ effective_mtu > 0 /\ pkt_mtu >= DefaultMtu
    BY <1>1, <2>1 DEF MtuOK, IInv, LinkOK
  <2> QED
    BY <1>1, <1>2, <2>1, <2>2 DEF MtuOK
<1>5. RxOK' /\ BetweenPackets'
  <2>1. RxOK'
    BY <1>1, <1>2 DEF RxOK, Begun
  <2> QED
    BY <1>2, <2>1 DEF BetweenPackets, Building
<1>6. DueOK'
  BY <1>1, WriteDue
<1> QED
  BY <1>3, <1>4, <1>5, <1>6, WriteFresh, WriteLate, WriteExact DEF StreamInv

-----------------------------------------------------------------------------
(* The other steps *)

(* Before the first message *)
LEMMA InitStream == Init => StreamInv
<1> SUFFICES ASSUME Init PROVE StreamInv
  OBVIOUS
<1>1. BuilderOK
  <2>1. tx_msg_active = FALSE /\ lossy = FALSE /\ repeated = FALSE /\ headers = 0
    BY DEF Init
  <2>2. headers \in 0..2
    BY <2>1
  <2> QED
    BY <2>1, <2>2, Zenon DEF BuilderOK
<1>2. MtuOK
  BY DEF Init, MtuOK
<1>3. rx_ctx = rx_reset_context /\ ~tx_msg_active /\ ~Building
  BY DEF Init, Building
<1>4. rx_ctx.state # "payload" /\ Flagged(NextFlag) = Ready(<<>>)
  BY <1>3, ResetIsReady DEF Flagged, NextFlag
<1> QED
  BY <1>1, <1>2, <1>3, <1>4 DEF StreamInv, DueOK, RxOK, BetweenPackets, InPacket, FreshRead,
     LateRead, At

(* Steps that leave the stream alone *)
LEMMA SameStream ==
  ASSUME StreamInv, UNCHANGED <<packet, builder, receiver, history>>,
         \/ UNCHANGED pump
         \/ pump = "idle" /\ pump' = "start"
         \/ pump = "build" /\ pump' = "notify"
  PROVE  /\ BuilderOK' /\ DueOK' /\ RxOK'
         /\ BetweenPackets' /\ InPacket' /\ FreshRead' /\ LateRead'
<1>1. BuilderOK'
  BY DEF StreamInv, BuilderOK
<1>2. \A flag : Flagged(flag)' = Flagged(flag)
  BY DEF Flagged
<1>3. \A c, msgs, begun : At(c, msgs, begun)' <=> At(c, msgs, begun)
  BY DEF At
<1>4. Done' = Done /\ Building' = Building /\ Room' = Room /\ NextFlag' = NextFlag /\ Exact' = Exact
  BY DEF Done, Building, Room, NextFlag, Exact
<1>5. \A c : At(c, Done, headers > 0)' <=> At(c, Done, headers > 0)
  BY <1>4 DEF At
<1>6. \A c, msgs : Follows(c, msgs)' <=> Follows(c, msgs)
  BY <1>4 DEF Follows, At
<1>7. \A c : FreshAt(c)' <=> FreshAt(c)
  <2>1. \A c : Follows(c, Done)' <=> Follows(c, Done)
    BY <1>4 DEF Follows, At
  <2>2. \A c : Follows(c, Tail(Done))' <=> Follows(c, Tail(Done))
    BY <1>4 DEF Follows, At
  <2> QED
    BY <1>4, <2>1, <2>2 DEF FreshAt, Skips
<1>8. \A c : LateAt(c)' <=> LateAt(c)
  <2>1. \A c, x : Skips(c, x)' <=> Skips(c, x)
    BY DEF Skips
  <2>2. \A ms : EndOf(ms, Done)' <=> EndOf(ms, Done)
    BY <1>4 DEF EndOf
  <2>3. \A c : Begun(c)' <=> Begun(c)
    BY DEF Begun
  <2>4. \A c : (\E x \in Genuine : Skips(c, <<x>>))' <=> (\E x \in Genuine : Skips(c, <<x>>))
    BY DEF Skips
  <2>5. \A c, x, ms : Follows(c, <<x>> \o ms)' <=> Follows(c, <<x>> \o ms)
    BY <1>4 DEF Follows, At
  <2> QED
    BY <2>2, <2>3, <2>4, <2>5 DEF LateAt
<1>9. DueOK' /\ RxOK'
  BY <1>4 DEF StreamInv, DueOK, RxOK, Begun
<1>10. BetweenPackets'
  BY <1>2, <1>3, <1>4 DEF StreamInv, BetweenPackets, At
<1>11. InPacket'
  BY <1>2, <1>4, <1>5 DEF StreamInv, InPacket
<1>12. FreshRead' /\ LateRead'
  BY <1>4, <1>7, <1>8 DEF StreamInv, FreshRead, LateRead
<1> QED
  BY <1>1, <1>9, <1>10, <1>11, <1>12

LEMMA LinkStream ==
  ASSUME IInv, StreamInv,
         \/ \E m \in Messages : handle_ble_request(m)
         \/ disconnected
         \/ \E value \in BOOLEAN : mw_ccc_cfg_changed(value)
         \/ \E mtu \in Mtus : mtu_updated(mtu)
         \/ populate_tx_buffers
  PROVE  StreamInv'
<1>1. /\ UNCHANGED <<packet, builder, receiver, history>>
      /\ UNCHANGED pump \/ (pump = "idle" /\ pump' = "start")
  BY DEF handle_ble_request, disconnected, mw_ccc_cfg_changed, mtu_updated,
     populate_tx_buffers
<1>2. /\ BuilderOK' /\ DueOK' /\ RxOK'
      /\ BetweenPackets' /\ InPacket' /\ FreshRead' /\ LateRead'
  BY <1>1, SameStream
<1>3. MtuOK'
  <2>1. ASSUME NEW mtu \in Mtus, mtu_updated(mtu) PROVE MtuOK'
    <3>1. mtu \in Nat
      BY TransportAssumption
    <3> QED
      BY <2>1, <3>1 DEF mtu_updated, StreamInv, MtuOK
  <2>2. CASE UNCHANGED <<effective_mtu, link_mtu>>
    BY <1>1, <2>2 DEF StreamInv, MtuOK
  <2> QED
    BY <2>1, <2>2 DEF handle_ble_request, disconnected, mw_ccc_cfg_changed,
       populate_tx_buffers
<1> QED
  BY <1>2, <1>3 DEF StreamInv

(* A phone that connects between two packets is between two messages. *)
LEMMA ConnectedStream ==
  ASSUME IInv, StreamInv, connected
  PROVE  StreamInv'
<1>1. /\ UNCHANGED <<effective_mtu, pump, packet, builder, history>>
      /\ link_mtu' = DefaultMtu /\ rx_ctx' = rx_reset_context
      /\ lossy' = (pump # "idle")
  BY DEF connected
<1>2. BuilderOK'
  BY <1>1 DEF StreamInv, BuilderOK
<1>3. MtuOK'
  BY <1>1 DEF StreamInv, MtuOK
<1>4. rx_ctx'.state # "payload" /\ \A flag : Flagged(flag)' = Ready(<<>>)
  BY <1>1, ResetIsReady DEF Flagged
<1>5. Done' = Done /\ Building' = Building /\ Room' = Room
  BY <1>1 DEF Done, Building, Room
<1>6. DueOK' /\ RxOK' /\ LateRead'
  BY <1>1, <1>4, <1>5 DEF StreamInv, DueOK, RxOK, LateRead
<1>7. FreshRead'
  <2>1. \A c : Follows(c, Done)' <=> Follows(c, Done)
    BY <1>1, <1>5 DEF Follows, At
  <2>2. \A c : Follows(c, Tail(Done))' <=> Follows(c, Tail(Done))
    BY <1>1, <1>5 DEF Follows, At
  <2>3. \A c : FreshAt(c)' <=> FreshAt(c)
    BY <1>1, <1>5, <2>1, <2>2 DEF FreshAt, Skips
  <2> QED
    BY <1>1, <1>5, <2>3 DEF StreamInv, FreshRead
<1>8. BetweenPackets' /\ InPacket'
  <2>1. ASSUME Exact' PROVE pump = "idle"
    BY <1>1, <2>1 DEF Exact
  <2>2. pump = "idle" => (tx_msg_active => tx_offset = 0)
    BY DEF StreamInv, MtuOK
  <2> QED
    BY <1>1, <1>4, <2>1, <2>2 DEF BetweenPackets, InPacket, Building, At
<1> QED
  BY <1>2, <1>3, <1>6, <1>7, <1>8 DEF StreamInv

(* The flag says whether the parser is to go on, and it is where the        *)
(* builder is.                                                              *)
LEMMA StartStreamInv ==
  ASSUME IInv, StreamInv, StartPacket
  PROVE  StreamInv'
<1>0. PICK flag : flag = NextFlag
  OBVIOUS
<1>1. /\ pump = "start" /\ pump' = "build" /\ tx_buffer' = <<flag>> /\ pkt_mtu' = effective_mtu
      /\ due' = IF tx_msg_active THEN <<tx_cur_msg>> ELSE <<>>
      /\ lossy' = (lossy /\ tx_msg_active) /\ repeated' = (repeated /\ tx_msg_active)
      /\ UNCHANGED <<effective_mtu, link_mtu, builder, rx_ctx, headers>>
  BY <1>0 DEF StartPacket, ContinuationFlag, NextFlag
<1>2. BuilderOK'
  BY <1>1 DEF StreamInv, BuilderOK
<1>3. MtuOK'
  BY <1>1 DEF StreamInv, MtuOK, IInv, LinkOK
<1>4. Done' = <<>> /\ <<>> \in Seq(Message) /\ Append(<<>>, tx_cur_msg) = <<tx_cur_msg>>
  <2>1. tx_cur_msg \in Message
    BY DEF IInv, QueueOK
  <2>2. Append(<<>>, tx_cur_msg) = <<tx_cur_msg>> /\ <<>> \in Seq(Message)
    OBVIOUS
  <2>3. Front(<<tx_cur_msg>>) = <<>>
    BY <2>1, <2>2, FrontAppend
  <2> QED
    BY <1>1, <2>2, <2>3 DEF Done, Front
<1>5. DueOK'
  BY <1>1, <1>4 DEF DueOK
<1>6. BetweenPackets' /\ RxOK'
  BY <1>1 DEF BetweenPackets, Building, StreamInv, RxOK, Begun
<1>7. rx_reset_context.state \in States /\ (RxOK => \A f : Flagged(f).state \in States)
  <2>1. rx_reset_context.state \in States
    BY ResetIsReady DEF States
  <2> QED
    BY <2>1 DEF Flagged, States
<1>8. FreshRead'
  <2>1. PICK c : c = rx_reset_context
    OBVIOUS
  <2>2. Parsed(c, tx_buffer', c) /\ tx_buffer'[1] = flag
    BY <1>1, <1>7, <2>1, ParsedFlag
  <2>3. c = Ready(<<>>)
    BY <2>1, ResetIsReady
  <2>4. CASE tx_msg_active /\ tx_offset > 0
    <3>1. Skips(c, <<>>)' /\ flag = 1
      BY <1>0, <1>1, <2>3, <2>4 DEF Skips, NextFlag
    <3> QED
      BY <1>4, <2>1, <2>2, <3>1 DEF FreshRead, FreshAt
  <2>5. CASE ~(tx_msg_active /\ tx_offset > 0)
    <3>1. tx_msg_active => tx_offset = 0
      BY <2>5 DEF IInv, QueueOK, Message
    <3>2. Follows(c, Done)'
      BY <1>1, <1>4, <2>3, <3>1 DEF Follows, At
    <3> QED
      BY <2>1, <2>2, <3>2 DEF FreshRead, FreshAt
  <2> QED
    BY <2>4, <2>5
<1>9. LateRead'
  <2> SUFFICES ASSUME rx_ctx.state = "payload"
               PROVE  \E c : Parsed(rx_ctx, tx_buffer', c) /\ LateAt(c)'
    BY <1>1 DEF LateRead
  <2>1. PICK c : c = rx_ctx
    OBVIOUS
  <2>2. Begun(c)
    BY <2>1 DEF StreamInv, RxOK
  <2>3. Parsed(c, tx_buffer', c)
    <3>1. c.state \in States
      BY <2>1 DEF States
    <3> QED
      BY <1>1, <3>1, ParsedFlag
  <2>4. LateAt(c)'
    BY <2>2 DEF LateAt, Begun
  <2> QED
    BY <2>1, <2>3, <2>4
<1>10. InPacket'
  <2> SUFFICES ASSUME Exact'
               PROVE  \E c : /\ Parsed(Flagged(tx_buffer[1])', tx_buffer', c)
                             /\ At(c, Done, headers > 0)'
    BY DEF InPacket
  <2> PICK c : c = Flagged(flag)
    OBVIOUS
  <2>1. Flagged(tx_buffer[1])' = c
    BY <1>1 DEF Flagged
  <2>2. At(c, Done, headers > 0)'
    <3>1. CASE tx_msg_active
      <4>1. Exact
        BY <1>1, <3>1 DEF Exact, StreamInv, BuilderOK
      <4>2. At(c, <<>>, headers > 0)
        BY <1>0, <1>1, <4>1 DEF StreamInv, BetweenPackets, Building
      <4> QED
        BY <1>1, <1>4, <4>2 DEF At
    <3>2. CASE ~tx_msg_active
      <4>1. c = Ready(<<>>)
        BY <1>0, <3>2, ResetIsReady DEF Flagged, NextFlag
      <4> QED
        BY <1>1, <1>4, <3>2, <4>1 DEF At
    <3> QED
      BY <3>1, <3>2
  <2>3. Parsed(c, <<flag>>, c)
    <3>1. c.state \in States
      BY <1>7 DEF StreamInv
    <3> QED
      BY <3>1, ParsedFlag
  <2> QED
    BY <1>1, <2>1, <2>2, <2>3
<1> QED
  BY <1>2, <1>3, <1>5, <1>6, <1>8, <1>9, <1>10 DEF StreamInv

(* A message that is loaded is due behind the ones of the packet. *)
LEMMA LoadStream ==
  ASSUME IInv, StreamInv, LoadMessage
  PROVE  StreamInv'
<1>1. /\ pump = "build" /\ ~tx_msg_active /\ tx_msg_active' = TRUE
      /\ tx_cur_msg' = Head(txq) /\ tx_offset' = 0 /\ headers' = 0
      /\ due' = Append(due, Head(txq))
      /\ UNCHANGED <<link, pump, packet, receiver, repeated>>
  BY DEF LoadMessage
<1>2. Head(txq) \in Messages /\ Head(txq) \in Message
  <2>1. Head(txq) \in Messages
    BY DEF LoadMessage, IInv, QueueOK
  <2> QED
    BY <2>1, KnownMessage
<1>3. BuilderOK'
  BY <1>1, <1>2 DEF StreamInv, BuilderOK
<1>4. MtuOK'
  BY <1>1 DEF StreamInv, MtuOK
<1>5. Done = due /\ due \in Seq(Message)
  BY <1>1 DEF StreamInv, DueOK, Done, Building
<1>6. Done' = Done
  <2>1. Front(Append(due, Head(txq))) = due
    BY <1>2, <1>5, FrontAppend
  <2> QED
    BY <1>1, <1>5, <2>1 DEF Done, Front
<1>7. DueOK'
  BY <1>1, <1>5, <1>6 DEF DueOK
<1>8. BetweenPackets' /\ RxOK'
  BY <1>1 DEF BetweenPackets, Building, StreamInv, RxOK, Begun
<1>9. /\ \A c : Follows(c, Done) => Follows(c, Done)'
      /\ \A c : Follows(c, Tail(Done)) => Follows(c, Tail(Done))'
      /\ \A c, x, ms : Follows(c, <<x>> \o ms) => Follows(c, <<x>> \o ms)'
  BY <1>1, <1>6 DEF Follows, At
<1>10. \A c, ms : ~Skips(c, ms)
  BY <1>1 DEF Skips
<1>11. Building /\ Building'
  BY <1>1 DEF Building
<1>12. FreshRead'
  <2>1. PICK c : Parsed(rx_reset_context, tx_buffer, c) /\ FreshAt(c)
    BY <1>11 DEF StreamInv, FreshRead
  <2>2. FreshAt(c)'
    BY <1>1, <1>6, <1>9, <1>10, <2>1 DEF FreshAt
  <2> QED
    BY <1>1, <2>1, <2>2 DEF FreshRead
<1>13. LateRead'
  <2> SUFFICES ASSUME rx_ctx.state = "payload"
               PROVE  \E c : Parsed(rx_ctx, tx_buffer, c) /\ LateAt(c)'
    BY <1>1 DEF LateRead
  <2>1. PICK c : Parsed(rx_ctx, tx_buffer, c) /\ LateAt(c)
    BY <1>11 DEF StreamInv, LateRead
  <2>2. \A ms : EndOf(ms, Done)' <=> EndOf(ms, Done)
    BY <1>6 DEF EndOf
  <2>3. Begun(c) => Begun(c)'
    BY DEF Begun
  <2>4. LateAt(c)'
    BY <1>9, <1>10, <2>1, <2>2, <2>3 DEF LateAt
  <2> QED
    BY <2>1, <2>4
<1>14. InPacket'
  <2> SUFFICES ASSUME Exact'
               PROVE  \E c : /\ Parsed(Flagged(tx_buffer[1])', tx_buffer', c)
                             /\ At(c, Done, headers > 0)'
    BY DEF InPacket
  <2>1. Exact
    BY <1>1 DEF Exact
  <2>2. PICK c : Parsed(Flagged(tx_buffer[1]), tx_buffer, c) /\ At(c, Done, headers > 0)
    BY <1>11, <2>1 DEF StreamInv, InPacket
  <2>3. At(c, Done, headers > 0)'
    BY <1>1, <1>6, <2>2 DEF At
  <2>4. Flagged(tx_buffer[1])' = Flagged(tx_buffer[1]) /\ tx_buffer' = tx_buffer
    BY <1>1 DEF Flagged
  <2> QED
    BY <2>2, <2>3, <2>4
<1> QED
  BY <1>3, <1>4, <1>7, <1>8, <1>12, <1>13, <1>14 DEF StreamInv

(* The hook stops with a packet that holds the flag alone when there is no  *)
(* message, or when no packet size was negotiated and nothing was ever sent.*)
LEMMA StopStream ==
  ASSUME IInv, StreamInv, EndPacket, ~PacketHasData
  PROVE  tx_msg_active => rx_ctx = rx_reset_context /\ tx_offset = 0
<1>1. pump = "build" /\ (\/ Room <= 0 \/ ~tx_msg_active \/ HeaderMustWait)
  BY DEF EndPacket
<1>2. tx_buffer \in Seq(Nat) /\ pkt_mtu \in Nat /\ Len(tx_buffer) = 1
  BY <1>1 DEF IInv, PacketOK, PacketHasData
<1>3. CASE pkt_mtu = 0
  BY <1>1, <1>3 DEF StreamInv, MtuOK
<1>4. CASE pkt_mtu # 0
  <2>1. pkt_mtu >= DefaultMtu
    BY <1>4 DEF StreamInv, MtuOK
  <2>2. Room > HeaderLen
    BY <1>2, <2>1 DEF Room
  <2> QED
    BY <1>1, <1>2, <2>2 DEF HeaderMustWait, Room
<1> QED
  BY <1>3, <1>4

(* The packet is handed over as it is, or dropped with nothing in it. *)
LEMMA EndStream ==
  ASSUME IInv, StreamInv, EndPacket
  PROVE  StreamInv'
<1>1. /\ pump = "build" /\ UNCHANGED <<link, builder, receiver, history>>
      /\ IF PacketHasData THEN pump' = "notify" /\ UNCHANGED packet
         ELSE pump' = "idle" /\ tx_buffer' = <<>> /\ pkt_mtu' = 0
  BY DEF EndPacket, NoPacket
<1>2. CASE PacketHasData
  <2>1. /\ BuilderOK' /\ DueOK' /\ RxOK'
        /\ BetweenPackets' /\ InPacket' /\ FreshRead' /\ LateRead'
    BY <1>1, <1>2, SameStream
  <2>2. MtuOK'
    BY <1>1, <1>2 DEF StreamInv, MtuOK
  <2> QED
    BY <2>1, <2>2 DEF StreamInv
<1>3. CASE ~PacketHasData
  <2>1. tx_msg_active => rx_ctx = rx_reset_context /\ tx_offset = 0
    BY <1>3, StopStream
  <2>2. BuilderOK' /\ RxOK'
    BY <1>1 DEF StreamInv, BuilderOK, RxOK, Begun
  <2>3. MtuOK'
    BY <1>1, <1>3, <2>1 DEF StreamInv, MtuOK
  <2>4. ~Building' /\ DueOK' /\ InPacket' /\ FreshRead' /\ LateRead'
    BY <1>1, <1>3 DEF Building, DueOK, InPacket, FreshRead, LateRead
  <2>5. Flagged(NextFlag)' = Ready(<<>>)
    BY <1>1, <2>1, ResetIsReady DEF Flagged, NextFlag
  <2>6. BetweenPackets'
    BY <1>1, <2>1, <2>5 DEF BetweenPackets, At
  <2> QED
    BY <2>2, <2>3, <2>4, <2>6 DEF StreamInv
<1> QED
  BY <1>2, <1>3

(* Nothing is left of the packet for the next one. *)
LEMMA ClearMsgs ==
  ASSUME NEW x
  PROVE  /\ [Ready(x) EXCEPT !.msgs = <<>>] = Ready(<<>>)
         /\ \A m, n : [Within(m, n, x) EXCEPT !.msgs = <<>>] = Within(m, n, <<>>)
<1>1. \A s, g, h, y : [Ctx(s, g, h, y) EXCEPT !.msgs = <<>>] = Ctx(s, g, h, <<>>)
  BY DEF Ctx
<1> QED
  BY <1>1, Zenon DEF Ready, Within

(* A parser that is where the builder is, and its messages taken from it *)
LEMMA AtCleared ==
  ASSUME IInv, StreamInv, NEW c, NEW msgs, NEW begun, At(c, msgs, begun)
  PROVE  /\ c.msgs = msgs
         /\ \A d : d = [c EXCEPT !.msgs = <<>>] =>
              At(d, <<>>, begun) /\ (d.state = "payload" => Begun(d) /\ tx_msg_active)
              /\ (d.state # "payload" => d = Ready(<<>>))
<1>1. PICK d : d = [c EXCEPT !.msgs = <<>>]
  OBVIOUS
<1>2. CASE c = Ready(msgs) /\ (tx_msg_active => tx_offset = 0)
  <2>1. c.msgs = msgs /\ d = Ready(<<>>)
    BY <1>1, <1>2, ResetIsReady, ClearMsgs
  <2>2. d.state = "magic"
    BY <2>1, ResetIsReady
  <2> QED
    BY <1>1, <1>2, <2>1, <2>2 DEF At
<1>3. CASE /\ tx_msg_active /\ (tx_offset > 0 \/ begun)
           /\ tx_offset < Len(tx_cur_msg.payload)
           /\ c = Within(tx_cur_msg, tx_offset, msgs)
  <2>1. c.msgs = msgs /\ d = Within(tx_cur_msg, tx_offset, <<>>)
    BY <1>1, <1>3, ResetIsReady, ClearMsgs
  <2>2. d.state = "payload"
    BY <2>1, ResetIsReady
  <2>3. PICK g : g = SubSeq(tx_cur_msg.payload, 1, tx_offset)
    OBVIOUS
  <2>4. d = Ctx("payload", g, HeaderOf(tx_cur_msg), <<>>)
    BY <2>1, <2>3 DEF Within
  <2>5. d.got = g /\ d.hdr = HeaderOf(tx_cur_msg)
    BY <2>4 DEF Ctx
  <2>6. tx_cur_msg \in Messages /\ tx_cur_msg.payload \in Seq(Nat) /\ tx_offset \in Nat
        /\ tx_offset <= Len(tx_cur_msg.payload)
    BY <1>3, MessageIs DEF IInv, QueueOK, StreamInv, BuilderOK
  <2>7. g \in Seq(Nat) /\ Len(g) = tx_offset
    BY <2>3, <2>6
  <2>8. Begun(d)
    BY <1>3, <2>4, <2>5, <2>6, <2>7 DEF Begun
  <2> QED
    BY <1>1, <1>3, <2>1, <2>2, <2>8 DEF At
<1> QED
  BY <1>2, <1>3 DEF At

(* What a packet that arrives does to the receiver *)
LEMMA PacketRead ==
  ASSUME IInv, StreamInv, NotifySucceeds
  PROVE  \E c : /\ received' = c.msgs /\ rx_ctx' = [c EXCEPT !.msgs = <<>>]
                /\ Exact => At(c, Done, headers > 0)
                /\ Fresh => FreshAt(c)
                /\ ~Fresh => LateAt(c)
<1>1. PICK c : c = ble_retrieve_packet(rx_ctx, tx_buffer)
  OBVIOUS
<1>2. rx_ctx' = [c EXCEPT !.msgs = <<>>] /\ received' = c.msgs /\ pump = "notify"
  BY <1>1 DEF NotifySucceeds
<1>3. tx_buffer \in Seq(Nat) /\ Len(tx_buffer) >= 1 /\ Building
  <2>1. tx_buffer \in Seq(Nat) /\ pkt_mtu \in Nat /\ Len(tx_buffer) \in 2..pkt_mtu
    BY <1>2 DEF IInv, PacketOK
  <2> QED
    BY <1>2, <2>1 DEF Building
<1>4. c = ReadBytes(Flagged(tx_buffer[1]), tx_buffer)
  BY <1>1 DEF ble_retrieve_packet, Flagged
<1>5. \A start, d : Parsed(start, tx_buffer, d) => ReadBytes(start, tx_buffer) = d
  BY <1>3, ParsedReads
<1>6. ASSUME Exact PROVE At(c, Done, headers > 0)
  <2>1. PICK d : Parsed(Flagged(tx_buffer[1]), tx_buffer, d) /\ At(d, Done, headers > 0)
    BY <1>3, <1>6 DEF StreamInv, InPacket
  <2>2. c = d
    BY <1>4, <1>5, <2>1
  <2> QED
    BY <2>1, <2>2
<1>7. ASSUME Fresh PROVE FreshAt(c)
  <2>1. PICK d : Parsed(rx_reset_context, tx_buffer, d) /\ FreshAt(d)
    BY <1>3 DEF StreamInv, FreshRead
  <2>2. Flagged(tx_buffer[1]) = rx_reset_context
    BY <1>7 DEF Fresh, Flagged
  <2>3. c = d
    BY <1>4, <1>5, <2>1, <2>2
  <2> QED
    BY <2>1, <2>3
<1>8. ASSUME ~Fresh PROVE LateAt(c)
  <2>1. rx_ctx.state = "payload" /\ Flagged(tx_buffer[1]) = rx_ctx
    BY <1>8 DEF Fresh, Flagged
  <2>2. PICK d : Parsed(rx_ctx, tx_buffer, d) /\ LateAt(d)
    BY <1>3, <2>1 DEF StreamInv, LateRead
  <2>3. c = d
    BY <1>4, <1>5, <2>1, <2>2
  <2> QED
    BY <2>2, <2>3
<1> QED
  BY <1>2, <1>6, <1>7, <1>8

(* The messages of the packet *)
LEMMA NotifyComplete ==
  ASSUME IInv, StreamInv, NotifySucceeds, Exact
  PROVE  received' = Done
<1>1. PICK c : received' = c.msgs /\ At(c, Done, headers > 0)
  BY PacketRead
<1> QED
  BY <1>1, AtCleared

LEMMA NotifyHeals ==
  ASSUME IInv, StreamInv, NotifySucceeds, Fresh
  PROVE  received' = Done \/ (tx_buffer[1] = 1 /\ Done # <<>> /\ received' = Tail(Done))
<1>1. PICK c : received' = c.msgs /\ FreshAt(c)
  BY PacketRead
<1>2. \A ms : Follows(c, ms) => c.msgs = ms
  BY AtCleared DEF Follows
<1>3. \A ms : Skips(c, ms) => c.msgs = ms
  BY ResetIsReady DEF Skips
<1> QED
  BY <1>1, <1>2, <1>3 DEF FreshAt

LEMMA NotifyInOrder ==
  ASSUME IInv, StreamInv, NotifySucceeds
  PROVE  /\ EndOf(IF CarriedOver THEN Tail(received') ELSE received', Done)
         /\ CarriedOver =>
              \E m \in Messages :
                /\ received'[1].opcode = m.opcode /\ received'[1].req_app = m.req_app
                /\ Len(received'[1].payload) = Len(m.payload)
<1>1. Done \in Seq(Message)
  BY DEF NotifySucceeds, StreamInv, DueOK, Building
<1>2. CASE Fresh
  <2>1. EndOf(received', Done)
    BY <1>1, <1>2, NotifyHeals, EndsOf
  <2> QED
    BY <1>2, <2>1 DEF CarriedOver
<1>3. CASE ~Fresh
  <2>1. PICK c : received' = c.msgs /\ LateAt(c)
    BY <1>3, PacketRead
  <2>2. CASE c.msgs = <<>>
    BY <1>1, <2>1, <2>2, EndsOf DEF CarriedOver
  <2>3. ASSUME NEW x \in Genuine, NEW ms \in Seq(Message), EndOf(ms, Done), c.msgs = <<x>> \o ms
        PROVE  /\ EndOf(Tail(received'), Done) /\ CarriedOver
               /\ \E m \in Messages :
                    /\ received'[1].opcode = m.opcode /\ received'[1].req_app = m.req_app
                    /\ Len(received'[1].payload) = Len(m.payload)
    <3>1. x \in Message /\ <<x>> \in Seq(Message) /\ Len(<<x>>) = 1 /\ <<x>>[1] = x
      BY DEF Genuine
    <3>2. PICK r : r = <<x>> \o ms
      OBVIOUS
    <3>3. /\ r \in Seq(Message) /\ Len(r) = 1 + Len(ms) /\ Len(ms) \in Nat
          /\ \A i \in 1..(1 + Len(ms)) : r[i] = IF i <= 1 THEN <<x>>[i] ELSE ms[i - 1]
      BY <3>1, <3>2, ConcatProperties
    <3>4. r[1] = x /\ r # <<>>
      BY <3>1, <3>3
    <3>5. Tail(r) = ms
      <4>1. PICK t : t = Tail(r)
        OBVIOUS
      <4>2. t \in Seq(Message) /\ Len(t) = Len(ms) /\ \A i \in 1..Len(ms) : t[i] = r[i + 1]
        BY <3>3, <3>4, <4>1, HeadTailProperties
      <4>3. ASSUME NEW i \in 1..Len(ms) PROVE t[i] = ms[i]
        <5>1. i + 1 \in 1..(1 + Len(ms)) /\ ~(i + 1 <= 1) /\ (i + 1) - 1 = i
          BY <3>3
        <5> QED
          BY <3>3, <4>2, <5>1
      <4> QED
        BY <4>1, <4>2, <4>3, SeqEqual
    <3>6. received' = r /\ CarriedOver
      BY <1>3, <2>1, <2>3, <3>2, <3>4 DEF CarriedOver
    <3> QED
      BY <2>3, <3>4, <3>5, <3>6 DEF Genuine
  <2>4. CASE Begun(c)
    BY <2>2, <2>4 DEF Begun, Ctx
  <2>5. ASSUME NEW x \in Genuine, Skips(c, <<x>>) PROVE c.msgs = <<x>> \o <<>>
    <3>1. <<x>> \o <<>> = <<x>>
      <4>1. <<x>> \in Seq(Message)
        BY DEF Genuine
      <4> QED
        BY <4>1, ConcatEmptySeq
    <3> QED
      BY <2>5, <3>1, ResetIsReady DEF Skips
  <2>6. ASSUME NEW x, NEW ms, Follows(c, <<x>> \o ms) PROVE c.msgs = <<x>> \o ms
    BY <2>6, AtCleared DEF Follows
  <2>7. <<>> \in Seq(Message) /\ EndOf(<<>>, Done)
    BY <1>1, EndsOf
  <2> QED
    BY <2>1, <2>3, <2>4, <2>5, <2>6, <2>7 DEF LateAt
<1> QED
  BY <1>2, <1>3

(* A packet that is received leaves the receiver where the builder is. *)
LEMMA NotifyStream ==
  ASSUME IInv, StreamInv, NotifySucceeds
  PROVE  StreamInv'
<1>1. /\ pump = "notify" /\ pump' = "start" /\ tx_buffer' = <<>> /\ pkt_mtu' = 0
      /\ UNCHANGED <<link, builder, lossy, history>>
  BY DEF NotifySucceeds, NoPacket
<1>2. BuilderOK'
  BY <1>1 DEF StreamInv, BuilderOK
<1>3. MtuOK'
  <2>1. pkt_mtu \in Nat /\ Len(tx_buffer) \in 2..pkt_mtu
    BY <1>1 DEF IInv, PacketOK
  <2>2. effective_mtu > 0 /\ effective_mtu \in Nat
    BY <2>1 DEF StreamInv, MtuOK, IInv, LinkOK
  <2> QED
    BY <1>1, <2>2 DEF StreamInv, MtuOK
<1>4. ~Building' /\ DueOK' /\ InPacket' /\ FreshRead' /\ LateRead'
  BY <1>1 DEF Building, DueOK, InPacket, FreshRead, LateRead
<1>5. PICK c : /\ received' = c.msgs /\ rx_ctx' = [c EXCEPT !.msgs = <<>>]
               /\ Exact => At(c, Done, headers > 0)
               /\ Fresh => FreshAt(c)
               /\ ~Fresh => LateAt(c)
  BY PacketRead
<1>6. PICK d : d = [c EXCEPT !.msgs = <<>>]
  OBVIOUS
<1>7. RxOK'
  <2>1. ASSUME NEW ms, Follows(c, ms) PROVE d.state = "payload" => Begun(d)
    BY <1>6, <2>1, AtCleared DEF Follows
  <2>2. ASSUME NEW ms, Skips(c, ms) PROVE d.state # "payload"
    <3>1. d = Ready(<<>>)
      BY <1>6, <2>2, ClearMsgs DEF Skips
    <3> QED
      BY <3>1, ResetIsReady
  <2>3. ASSUME Begun(c) PROVE Begun(d)
    <3>1. PICK g, h : g = c.got /\ h = c.hdr
      OBVIOUS
    <3>2. c = Ctx("payload", g, h, <<>>)
      BY <2>3, <3>1 DEF Begun
    <3>3. d = Ctx("payload", g, h, <<>>)
      BY <1>6, <3>2 DEF Ctx
    <3> QED
      BY <2>3, <3>2, <3>3
  <2>4. d.state = "payload" => Begun(d)
    BY <1>5, <2>1, <2>2, <2>3 DEF FreshAt, LateAt
  <2> QED
    BY <1>5, <1>6, <2>4 DEF RxOK, Begun
<1>8. BetweenPackets'
  <2> SUFFICES ASSUME Exact' PROVE At(Flagged(NextFlag), <<>>, headers > 0)'
    BY DEF BetweenPackets
  <2>1. At(c, Done, headers > 0)
    BY <1>1, <1>5 DEF Exact
  <2>2. /\ At(d, <<>>, headers > 0)
        /\ d.state = "payload" => tx_msg_active
        /\ d.state # "payload" => d = Ready(<<>>)
    BY <1>6, <2>1, AtCleared
  <2>3. Flagged(NextFlag)' = d
    <3>1. CASE d.state = "payload"
      BY <1>1, <1>5, <1>6, <2>2, <3>1 DEF Flagged, NextFlag
    <3>2. CASE d.state # "payload"
      BY <1>1, <1>5, <1>6, <2>2, <3>2, ResetIsReady DEF Flagged
    <3> QED
      BY <3>1, <3>2
  <2> QED
    BY <1>1, <2>2, <2>3 DEF At
<1> QED
  BY <1>2, <1>3, <1>4, <1>7, <1>8 DEF StreamInv

(* After a packet that is lost nothing exact is promised of its stream. *)
LEMMA LostStream ==
  ASSUME StreamInv, PacketLost
  PROVE  StreamInv'
<1>1. /\ lossy' = TRUE /\ pump' = "start" /\ pkt_mtu' = 0
      /\ UNCHANGED <<link, builder, rx_ctx, history>> /\ pump = "notify"
  BY DEF PacketLost, NoPacket
<1>2. BuilderOK' /\ RxOK'
  BY <1>1 DEF StreamInv, BuilderOK, RxOK, Begun
<1>3. MtuOK'
  BY <1>1 DEF StreamInv, MtuOK
<1>4. ~Building' /\ ~Exact'
  BY <1>1 DEF Building, Exact
<1> QED
  BY <1>2, <1>3, <1>4 DEF StreamInv, DueOK, BetweenPackets, InPacket, FreshRead, LateRead

(* Every step keeps the receiver in its place in the stream. *)
LEMMA NextStream ==
  ASSUME IInv, StreamInv, [Next]_vars
  PROVE  StreamInv'
<1>1. CASE UNCHANGED vars
  <2>1. /\ BuilderOK' /\ DueOK' /\ RxOK'
        /\ BetweenPackets' /\ InPacket' /\ FreshRead' /\ LateRead'
    BY <1>1, SameStream DEF vars
  <2>2. MtuOK'
    BY <1>1 DEF vars, StreamInv, MtuOK
  <2> QED
    BY <2>1, <2>2 DEF StreamInv
<1>2. CASE Hook
  BY <1>2, LinkStream, StartStreamInv, LoadStream, WriteStream, EndStream, NotifyStream,
     LostStream DEF Hook
<1> QED
  BY <1>1, <1>2, LinkStream, ConnectedStream DEF Next, Request

(* The place of the phone's parser in the stream, between packets and at    *)
(* every byte of the packet in hand, whatever was lost before: it is where  *)
(* the firmware's builder is, it skips the rest of one message, or it reads *)
(* into the payload of a message it had begun.                              *)
THEOREM StreamInvariant == Spec => []StreamInv
<1>1. IInv /\ StreamInv /\ [Next]_vars => StreamInv'
  BY NextStream
<1> QED
  BY InitStream, <1>1, TransportInvariant, PTL DEF Spec

(* From a packet of a stream in which no packet was lost and no header      *)
(* repeated the phone parses exactly the messages that end in it: for any   *)
(* messages, any cut into packets, any sizes, and any connection that ends  *)
(* in between (ble_packet_handler.c:28-84 and 238-345).                     *)
THEOREM StreamsComplete == Spec => StreamComplete
<1>1. IInv /\ StreamInv /\ [Next]_vars
        => [NotifySucceeds /\ ~lossy /\ ~repeated => received' = Done]_vars
  BY NotifyComplete DEF Exact
<1> QED
  BY <1>1, TransportInvariant, StreamInvariant, PTL DEF Spec, StreamComplete

(* Whatever packets are lost and headers repeated, what is parsed from a    *)
(* packet behind a message begun before it are queued messages, unchanged,  *)
(* in order and once each; the one begun before has the header of a queued  *)
(* message (ble_packet_handler.c:213-346).                                  *)
THEOREM MessagesInOrder == Spec => StreamInOrder
<1>1. IInv /\ StreamInv /\ [Next]_vars
        => [NotifySucceeds =>
              /\ EndOf(IF CarriedOver THEN Tail(received') ELSE received', Done)
              /\ CarriedOver =>
                   \E m \in Messages :
                     /\ received'[1].opcode = m.opcode /\ received'[1].req_app = m.req_app
                     /\ Len(received'[1].payload) = Len(m.payload)]_vars
  BY NotifyInOrder
<1> QED
  BY <1>1, TransportInvariant, StreamInvariant, PTL DEF Spec, StreamInOrder

(* After any loss, the first packet that finds the phone between two        *)
(* messages brings it back into step, at the price of at most the message   *)
(* whose beginning it missed (ble_packet_handler.c:213-262).                *)
THEOREM LossesHeal == Spec => LossHeals
<1>1. IInv /\ StreamInv /\ [Next]_vars
        => [NotifySucceeds /\ Fresh =>
              \/ received' = Done
              \/ tx_buffer[1] = 1 /\ Done # <<>> /\ received' = Tail(Done)]_vars
  BY NotifyHeals
<1> QED
  BY <1>1, TransportInvariant, StreamInvariant, PTL DEF Spec, LossHeals
=============================================================================
