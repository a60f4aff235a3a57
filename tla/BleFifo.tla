------------------------------ MODULE BleFifo ------------------------------
(***************************************************************************)
(* The two circular buffers of BLE/ble_fifo.c, for messages to the phone   *)
(* (BLE_TX) and from it (BLE_RX).  Both operations run under the buffer's  *)
(* spin lock and are atomic.  One slot stays free, so that equal indices   *)
(* mean an empty buffer.                                                   *)
(***************************************************************************)
EXTENDS Integers, Sequences

CONSTANTS
  BLE_FIFO_SIZE,
  Msgs,   \* message contents
  NoMsg,  \* no message: an unused slot, or the answer false of a pop
  Added   \* the answer of an add

ASSUME FifoAssumption ==
  /\ BLE_FIFO_SIZE \in Nat /\ BLE_FIFO_SIZE > 1
  /\ NoMsg \notin Msgs /\ Added \notin Msgs \cup {NoMsg}

VARIABLES
  fifo,       \* ble_tx_fifo, ble_rx_fifo
  write_idx,  \* tx_write_idx, rx_write_idx
  read_idx,   \* tx_read_idx, rx_read_idx
  out         \* what the last call on each buffer returned

vars == <<fifo, write_idx, read_idx, out>>

Types == {"BLE_TX", "BLE_RX"}
Slots == 0..(BLE_FIFO_SIZE - 1)

Succ(idx) == (idx + 1) % BLE_FIFO_SIZE

fifo_is_full_when_equal(t) == write_idx[t] = read_idx[t]  \* mutant
fifo_is_full_unsafe(t) == Succ(write_idx[t]) = read_idx[t]
fifo_is_empty_unsafe(t) == write_idx[t] = read_idx[t]

(* Mutant: the index wraps one slot late *)
AddLateWrap(t, m) ==
  /\ read_idx' = IF fifo_is_full_unsafe(t)
                 THEN [read_idx EXCEPT ![t] = Succ(read_idx[t])] ELSE read_idx
  /\ fifo' = [fifo EXCEPT ![t] = [fifo[t] EXCEPT ![write_idx[t]] = m]]
  /\ write_idx' = [write_idx EXCEPT ![t] = (write_idx[t] + 1) % (BLE_FIFO_SIZE + 1)]
  /\ out' = [out EXCEPT ![t] = Added]

(* add_ble_msg_to_queue; a length is one byte, never above the 256 limit *)
add_ble_msg_to_queue(t, m) ==
  /\ read_idx' = IF fifo_is_full_unsafe(t)
                 THEN [read_idx EXCEPT ![t] = Succ(read_idx[t])] ELSE read_idx
  /\ fifo' = [fifo EXCEPT ![t] = [fifo[t] EXCEPT ![write_idx[t]] = m]]
  /\ write_idx' = [write_idx EXCEPT ![t] = Succ(write_idx[t])]
  /\ out' = [out EXCEPT ![t] = Added]

get_next_ble_msg(t) ==
  /\ \/ /\ fifo_is_empty_unsafe(t)
        /\ out' = [out EXCEPT ![t] = NoMsg]
        /\ UNCHANGED read_idx
     \/ /\ ~fifo_is_empty_unsafe(t)
        /\ out' = [out EXCEPT ![t] = fifo[t][read_idx[t]]]
        /\ read_idx' = [read_idx EXCEPT ![t] = Succ(read_idx[t])]
  /\ UNCHANGED <<fifo, write_idx>>

Init ==
  /\ fifo = [t \in Types |-> [i \in Slots |-> NoMsg]]
  /\ write_idx = [t \in Types |-> 0]
  /\ read_idx = [t \in Types |-> 0]
  /\ out = [t \in Types |-> NoMsg]

Next == \E t \in Types : get_next_ble_msg(t) \/ \E m \in Msgs : add_ble_msg_to_queue(t, m)

Spec == Init /\ [][Next]_vars

-----------------------------------------------------------------------------
(* Properties *)

(* The slots in use, oldest first. *)
Used(t) == IF write_idx[t] >= read_idx[t] THEN write_idx[t] - read_idx[t]
           ELSE write_idx[t] - read_idx[t] + BLE_FIFO_SIZE
SlotOf(t, i) == IF read_idx[t] + i - 1 < BLE_FIFO_SIZE THEN read_idx[t] + i - 1
                ELSE read_idx[t] + i - 1 - BLE_FIFO_SIZE
Contents(t) == [i \in 1..Used(t) |-> fifo[t][SlotOf(t, i)]]

(* The indices stay inside the arrays, and every slot between them holds a  *)
(* message: no pop returns a slot that was never written.                   *)
TypeOK ==
  /\ fifo \in [Types -> [Slots -> Msgs \cup {NoMsg}]]
  /\ write_idx \in [Types -> Slots] /\ read_idx \in [Types -> Slots]
  /\ out \in [Types -> Msgs \cup {NoMsg, Added}]
  /\ \A t \in Types : \A i \in 1..Used(t) : fifo[t][SlotOf(t, i)] \in Msgs

(* Each circular buffer is a queue of BLE_FIFO_SIZE - 1 messages that drops *)
(* its oldest message when full (ble_fifo.c:105) and nothing else, however  *)
(* producers and consumers of both buffers interleave.                      *)
Tx == INSTANCE DropOldestQueue WITH
        Cap <- BLE_FIFO_SIZE - 1, queue <- Contents("BLE_TX"), out <- out["BLE_TX"]
Rx == INSTANCE DropOldestQueue WITH
        Cap <- BLE_FIFO_SIZE - 1, queue <- Contents("BLE_RX"), out <- out["BLE_RX"]
FifosAreQueues == Tx!Spec /\ Rx!Spec
=============================================================================
