---------------------------- MODULE BleTransport ----------------------------
(***************************************************************************)
(* From the queue of outgoing messages to the phone: the curfew hook       *)
(* populate_tx_buffers and the connection callbacks of ble_manager.c, the  *)
(* packet builder and the packet parser of BLE/ble_packet_handler.c.       *)
(*                                                                         *)
(* Messages are cut into packets of the negotiated size, every packet led  *)
(* by a flag that says whether it continues a message.  The hook runs on   *)
(* the maintenance thread; the Bluetooth thread may change the connection  *)
(* between any two of its steps, and the LVGL thread may queue a message.  *)
(* The queue is the one that BleFifo implements.  The phone's application  *)
(* is not part of the repository: it is taken to parse the wire format the *)
(* way the firmware's own parser does.                                     *)
(***************************************************************************)
EXTENDS Integers, SequencesExt

CONSTANTS
  Messages,  \* records [opcode, req_app, payload] that applications send
  Cap,       \* messages the queue holds
  Mtus       \* payload sizes a link may negotiate

BLE_MAGIC == 165
HeaderLen == 4
DefaultMtu == 20  \* ATT_MTU is 23 until it is exchanged

(* No byte of a message but its first is the magic byte: operations and     *)
(* applications are numbered from 1, a payload is empty or a date.          *)
ASSUME TransportAssumption ==
  /\ Cap \in Nat \ {0} /\ Mtus \subseteq Nat
  /\ Messages \subseteq [opcode : Nat, req_app : Nat, payload : Seq(Nat)]
  /\ \A m \in Messages :
       BLE_MAGIC \notin {m.opcode, m.req_app, Len(m.payload)} \cup Range(m.payload)

VARIABLES
  txq,                    \* messages to the phone
  ready,                  \* ble_conn, ble_connected and notifications_enabled
  linked,                 \* ble_conn, ble_connected
  effective_mtu, link_mtu,\* what the firmware believes and what the link carries
  pump,                   \* where populate_tx_buffers is
  tx_buffer, pkt_mtu,     \* the packet being built and its limit
  tx_cur_msg, tx_offset, tx_msg_active,
  rx_ctx,                 \* the receiver's parser
  received,               \* messages parsed from the last packet
  due,                    \* history: messages with a byte in the packet in hand,
                          \* then the one that is loaded and not yet begun
  lossy,                  \* history: a packet of this stream was lost, or the
                          \* phone connected in the middle of it
  repeated,               \* history: this stream holds a header twice
  headers                 \* history: headers written for tx_cur_msg

builder == <<tx_cur_msg, tx_offset, tx_msg_active>>
packet == <<tx_buffer, pkt_mtu>>
link == <<ready, linked, effective_mtu, link_mtu>>
receiver == <<rx_ctx, received, lossy>>
history == <<due, repeated, headers>>
vars == <<txq, link, pump, packet, builder, receiver, history>>

Header(m) == <<BLE_MAGIC, m.opcode, m.req_app, Len(m.payload)>>

-----------------------------------------------------------------------------
(* The parser, ble_retrieve_packet: one step for every byte of the stream.  *)
(* c.got are the bytes of the header or of the payload read so far.         *)

rx_reset_context == [state |-> "magic", got |-> <<>>, hdr |-> <<>>, msgs |-> <<>>]

Deliver(c, hdr, payload) ==
  [rx_reset_context EXCEPT !.msgs =
     Append(c.msgs, [opcode |-> hdr[1], req_app |-> hdr[2], payload |-> payload])]

(* Mutant: any byte is taken for the start of a message *)
ReadByteAnyStart(c, b, left) ==
  CASE c.state = "magic" -> [c EXCEPT !.state = "header"]
    [] c.state = "header" ->
         LET hdr == Append(c.got, b) IN
         IF Len(hdr) < HeaderLen - 1 THEN [c EXCEPT !.got = hdr]
         ELSE IF b = 0 THEN Deliver(c, hdr, <<>>)
         ELSE [c EXCEPT !.state = "payload", !.hdr = hdr, !.got = <<>>]
    [] c.state = "payload" ->
         LET payload == Append(c.got, b) IN
         IF Len(payload) = c.hdr[3] THEN Deliver(c, c.hdr, payload)
         ELSE [c EXCEPT !.got = payload]

(* A magic byte is only taken when the whole header is in the packet. *)
ReadByte(c, b, left) ==
  CASE c.state = "magic" ->
         IF b = BLE_MAGIC /\ left >= HeaderLen - 1 THEN [c EXCEPT !.state = "header"] ELSE c
    [] c.state = "header" ->
         LET hdr == Append(c.got, b) IN
         IF Len(hdr) < HeaderLen - 1 THEN [c EXCEPT !.got = hdr]
         ELSE IF b = 0 THEN Deliver(c, hdr, <<>>)
         ELSE [c EXCEPT !.state = "payload", !.hdr = hdr, !.got = <<>>]
    [] c.state = "payload" ->
         LET payload == Append(c.got, b) IN
         IF Len(payload) = c.hdr[3] THEN Deliver(c, c.hdr, payload)
         ELSE [c EXCEPT !.got = payload]

(* The bytes behind the flag *)
ReadBytes(start, pkt) ==
  LET after[i \in DOMAIN pkt] ==  \* the parser when the first i bytes are read
        IF i = 1 THEN start ELSE ReadByte(after[i - 1], pkt[i], Len(pkt) - i)
  IN  after[Len(pkt)]

(* Mutant: the flag is not looked at *)
IgnoreFlag(c, pkt) == ReadBytes(c, pkt)

(* A packet that starts a stream, or one that continues a message nobody    *)
(* began, resets the parser.                                                *)
ble_retrieve_packet(c, pkt) ==
  ReadBytes(IF pkt[1] = 0 \/ c.state # "payload" THEN rx_reset_context ELSE c, pkt)

-----------------------------------------------------------------------------
(* Applications and the link *)

(* add_ble_msg_to_queue through handle_ble_request *)
handle_ble_request(m) ==
  /\ txq' = Append(IF Len(txq) = Cap THEN Tail(txq) ELSE txq, m)
  /\ UNCHANGED <<link, pump, packet, builder, receiver, history>>

(* The phone that connects starts with a fresh parser.  It can resume a     *)
(* stream unless the hook still holds a packet from the connection before.  *)
connected ==
  /\ ~linked /\ linked' = TRUE
  /\ link_mtu' = DefaultMtu
  /\ rx_ctx' = rx_reset_context /\ received' = <<>>
  /\ lossy' = (pump # "idle")
  /\ UNCHANGED <<txq, ready, effective_mtu, pump, packet, builder, history>>

disconnected ==
  /\ linked /\ linked' = FALSE /\ ready' = FALSE
  /\ UNCHANGED <<txq, effective_mtu, link_mtu, pump, packet, builder, receiver, history>>

mw_ccc_cfg_changed(value) ==
  /\ linked /\ ready' = value
  /\ UNCHANGED <<txq, linked, effective_mtu, link_mtu, pump, packet, builder, receiver,
                 history>>

(* The exchange happens once in a connection. *)
mtu_updated(mtu) ==
  /\ linked /\ link_mtu = DefaultMtu /\ mtu >= link_mtu
  /\ link_mtu' = mtu /\ effective_mtu' = mtu
  /\ UNCHANGED <<txq, ready, linked, pump, packet, builder, receiver, history>>

-----------------------------------------------------------------------------
(* populate_tx_buffers and ble_build_next_packet *)

populate_tx_buffers ==
  /\ pump = "idle" /\ ready
  /\ pump' = "start"
  /\ UNCHANGED <<txq, link, packet, builder, receiver, history>>

(* Mutant: the flag says that a stream starts whatever was sent before *)
StartStream == <<0>>
ContinuationFlag == IF tx_msg_active THEN <<1>> ELSE <<0>>

NoPacket == tx_buffer' = <<>> /\ pkt_mtu' = 0

StartPacket ==
  /\ pump = "start" /\ pump' = "build"
  /\ tx_buffer' = ContinuationFlag
  /\ pkt_mtu' = effective_mtu
  /\ due' = IF tx_msg_active THEN <<tx_cur_msg>> ELSE <<>>
  /\ lossy' = (lossy /\ tx_msg_active)
  /\ repeated' = (repeated /\ tx_msg_active)
  /\ received' = <<>>
  /\ UNCHANGED <<txq, link, builder, rx_ctx, headers>>

Room == pkt_mtu - Len(tx_buffer)

(* get_next_ble_msg, when a message is needed *)
LoadMessage ==
  /\ pump = "build" /\ Room > 0 /\ ~tx_msg_active /\ txq # <<>>
  /\ tx_cur_msg' = Head(txq) /\ txq' = Tail(txq)
  /\ tx_offset' = 0 /\ tx_msg_active' = TRUE
  /\ due' = Append(due, Head(txq))
  /\ headers' = 0
  /\ UNCHANGED <<link, pump, packet, receiver, repeated>>

HeaderMustWait == tx_offset = 0 /\ Room < HeaderLen

(* Mutant: the chunk is as long as the room before the header *)
ChunkIgnoresHeader(m) ==
  SubSeq(m.payload, tx_offset + 1, IF Len(m.payload) - tx_offset < Room
                                   THEN Len(m.payload) ELSE tx_offset + Room)

(* The bytes of the payload that fit in the packet, behind the header if it *)
(* has to be written.                                                       *)
Chunk(m) ==
  LET room == IF tx_offset = 0 THEN Room - HeaderLen ELSE Room
      left == Len(m.payload) - tx_offset
  IN  SubSeq(m.payload, tx_offset + 1, tx_offset + (IF left < room THEN left ELSE room))

WriteChunk ==
  /\ pump = "build" /\ Room > 0 /\ tx_msg_active /\ ~HeaderMustWait
  /\ LET m == tx_cur_msg IN
       /\ tx_buffer' = tx_buffer \o (IF tx_offset = 0 THEN Header(m) ELSE <<>>) \o Chunk(m)
       /\ headers' = IF tx_offset = 0 /\ headers < 2 THEN headers + 1 ELSE headers
       /\ repeated' = (repeated \/ headers' > 1)
       /\ tx_offset' = tx_offset + Len(Chunk(m))
       /\ tx_msg_active' = (tx_offset' < Len(m.payload))
  /\ UNCHANGED <<txq, link, pump, pkt_mtu, tx_cur_msg, receiver, due>>

PacketAlways == Len(tx_buffer) >= 1  \* mutant
PacketHasData == Len(tx_buffer) > 1

(* The loop ends; a packet that holds the flag alone ends the hook. *)
EndPacket ==
  /\ pump = "build"
  /\ Room <= 0 \/ (~tx_msg_active /\ txq = <<>>) \/ (tx_msg_active /\ HeaderMustWait)
  /\ IF PacketHasData
     THEN pump' = "notify" /\ UNCHANGED packet
     ELSE pump' = "idle" /\ NoPacket
  /\ UNCHANGED <<txq, link, builder, receiver, history>>

(* The packet reaches the phone, or is given up: bt_gatt_notify fails when  *)
(* the packet is longer than the link carries and when it has no buffer,    *)
(* and is not called when the phone is gone.                                *)
NotifySucceeds ==
  /\ pump = "notify" /\ pump' = "start"
  /\ ready /\ Len(tx_buffer) <= link_mtu
  /\ LET c == ble_retrieve_packet(rx_ctx, tx_buffer)
     IN  rx_ctx' = [c EXCEPT !.msgs = <<>>] /\ received' = c.msgs
  /\ NoPacket
  /\ UNCHANGED <<txq, link, builder, lossy, history>>

PacketLost ==
  /\ pump = "notify" /\ pump' = "start"
  /\ lossy' = TRUE
  /\ NoPacket
  /\ UNCHANGED <<txq, link, builder, rx_ctx, received, history>>

-----------------------------------------------------------------------------
Init ==
  /\ txq = <<>> /\ ready = FALSE /\ linked = FALSE
  /\ effective_mtu = 0 /\ link_mtu = DefaultMtu
  /\ pump = "idle" /\ tx_buffer = <<>> /\ pkt_mtu = 0
  /\ tx_cur_msg \in {[opcode |-> 0, req_app |-> 0, payload |-> <<>>]}
  /\ tx_offset = 0 /\ tx_msg_active = FALSE
  /\ rx_ctx = rx_reset_context /\ received = <<>>
  /\ due = <<>> /\ lossy = FALSE /\ repeated = FALSE /\ headers = 0

Request == \E m \in Messages : handle_ble_request(m)

Hook ==
  populate_tx_buffers \/ StartPacket \/ LoadMessage \/ WriteChunk \/ EndPacket
    \/ NotifySucceeds \/ PacketLost

Next ==
  \/ Request
  \/ connected \/ disconnected
  \/ \E value \in BOOLEAN : mw_ccc_cfg_changed(value)
  \/ \E mtu \in Mtus : mtu_updated(mtu)
  \/ Hook

Spec == Init /\ [][Next]_vars

(* The maintenance thread keeps running inside the hook: it waits there for *)
(* nothing but a buffer in bt_gatt_notify, which returns in the end.        *)
FairSpec ==
  /\ Spec
  /\ WF_vars(StartPacket) /\ WF_vars(LoadMessage) /\ WF_vars(WriteChunk)
  /\ WF_vars(EndPacket) /\ []<>(pump # "notify")

-----------------------------------------------------------------------------
(* Properties *)

(* Types; a packet in hand is never longer than the limit it was built for, *)
(* and the offset stays inside the message.                                 *)
TypeOK ==
  /\ Len(txq) <= Cap /\ Range(txq) \subseteq Messages
  /\ ready \in BOOLEAN /\ linked \in BOOLEAN /\ (ready => linked)
  /\ pump \in {"idle", "start", "build", "notify"}
  /\ pump = "notify" => Len(tx_buffer) \in 2..pkt_mtu
  /\ tx_offset \in 0..Len(tx_cur_msg.payload)

(* The messages whose last byte is in the packet in hand *)
Done == IF tx_msg_active THEN Front(due) ELSE due

(* The packet in hand finds the phone between two messages, or it starts a  *)
(* stream; otherwise it goes on with a message that the phone has begun.    *)
Fresh == tx_buffer[1] = 0 \/ rx_ctx.state # "payload"

(* The first message parsed from the packet was begun in an earlier one. *)
CarriedOver == ~Fresh /\ received' # <<>>

(* s is what is left of t without some of its first messages. *)
EndOf(s, t) == \E i \in 1..(Len(t) + 1) : s = SubSeq(t, i, Len(t))

(* In a stream of which no packet was lost and no header repeated, the      *)
(* phone parses exactly the messages that end in a packet, byte for byte,   *)
(* wherever packets end.  The phone that connects between two streams, or   *)
(* where the hook ended with a message it had not begun, starts such a      *)
(* stream.                                                                  *)
StreamComplete ==
  [][NotifySucceeds /\ ~lossy /\ ~repeated => received' = Done]_vars

(* Whatever packets are lost and headers repeated, only the first message   *)
(* parsed from a packet can be wrong, and only when the phone had begun it  *)
(* before: it has the header of a queued message and a payload pieced       *)
(* together.  All others are messages that end in this packet, as they were *)
(* queued, in order and once each.                                          *)
StreamInOrder ==
  [][NotifySucceeds =>
       /\ EndOf(IF CarriedOver THEN Tail(received') ELSE received', Done)
       /\ CarriedOver =>
            \E m \in Messages :
              /\ received'[1].opcode = m.opcode /\ received'[1].req_app = m.req_app
              /\ Len(received'[1].payload) = Len(m.payload)]_vars

(* A phone that is between two messages when a packet arrives is in step    *)
(* again: it parses every message that ends in the packet, but the first    *)
(* when the packet goes on with one of which the phone has missed the       *)
(* beginning.  What is left of that one is skipped, not taken for a header. *)
LossHeals ==
  [][NotifySucceeds /\ Fresh =>
       \/ received' = Done
       \/ tx_buffer[1] = 1 /\ Done # <<>> /\ received' = Tail(Done)]_vars

(* The hook ends, whatever the connection does meanwhile, unless messages   *)
(* keep coming: no message and no packet size makes it build packets        *)
(* forever.  It runs on the maintenance thread, which does nothing else     *)
(* until then.                                                              *)
HookEnds == []<><<Request>>_vars \/ []<>(pump = "idle")

(* "it is continued in the next packet without repeating the header"        *)
(* (ble_packet_handler.c:79).                                               *)
HeaderOnce == headers <= 1
=============================================================================
