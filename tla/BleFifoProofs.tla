--------------------------- MODULE BleFifoProofs ---------------------------
(***************************************************************************)
(* Each circular buffer of ble_fifo.c implements DropOldestQueue, for any  *)
(* buffer size above 1 and any messages.                                   *)
(***************************************************************************)
EXTENDS BleFifo, SequenceTheorems, TLAPS

USE FifoAssumption DEF Types

(* The index arithmetic modulo the size, without the modulo. *)
LEMMA SuccValue ==
  ASSUME NEW x \in Slots
  PROVE  Succ(x) = IF x = BLE_FIFO_SIZE - 1 THEN 0 ELSE x + 1
<1>1. CASE x = BLE_FIFO_SIZE - 1
  BY <1>1 DEF Slots, Succ
<1>2. CASE x # BLE_FIFO_SIZE - 1
  BY <1>2 DEF Slots, Succ
<1> QED
  BY <1>1, <1>2

(* What Contents is in a state of the right type. *)
LEMMA ContentsSeq ==
  ASSUME TypeOK, NEW t \in Types
  PROVE  /\ Used(t) \in 0..(BLE_FIFO_SIZE - 1)
         /\ \A i \in 1..Used(t) : SlotOf(t, i) \in Slots
         /\ Contents(t) \in Seq(Msgs)
         /\ Len(Contents(t)) = Used(t)
         /\ \A i \in 1..Used(t) : Contents(t)[i] = fifo[t][SlotOf(t, i)]
<1>1. write_idx[t] \in Slots /\ read_idx[t] \in Slots
  BY DEF TypeOK
<1>2. Used(t) \in 0..(BLE_FIFO_SIZE - 1)
  BY <1>1 DEF Used, Slots
<1>3. \A i \in 1..Used(t) : SlotOf(t, i) \in Slots
  BY <1>1, <1>2 DEF SlotOf, Slots
<1>4. Contents(t) \in Seq(Msgs) /\ Len(Contents(t)) = Used(t)
  BY <1>2 DEF Contents, TypeOK
<1> QED
  BY <1>2, <1>3, <1>4 DEF Contents

(* The same, of both buffers, in a form that can be primed. *)
ContentsAreSeqs ==
  \A t \in Types :
    /\ Contents(t) \in Seq(Msgs) /\ Len(Contents(t)) = Used(t)
    /\ \A i \in 1..Used(t) : Contents(t)[i] = fifo[t][SlotOf(t, i)]

LEMMA ContentsSeqAlways == TypeOK => ContentsAreSeqs
  BY ContentsSeq DEF ContentsAreSeqs

(* The buffer is full exactly when one slot is left, and empty exactly when *)
(* none is used.                                                            *)
LEMMA FullEmpty ==
  ASSUME TypeOK, NEW t \in Types
  PROVE  /\ fifo_is_full_unsafe(t) <=> Used(t) = BLE_FIFO_SIZE - 1
         /\ fifo_is_empty_unsafe(t) <=> Used(t) = 0
<1>1. write_idx[t] \in Slots /\ read_idx[t] \in Slots
  BY DEF TypeOK
<1>2. Succ(write_idx[t]) = IF write_idx[t] = BLE_FIFO_SIZE - 1 THEN 0 ELSE write_idx[t] + 1
  BY <1>1, SuccValue
<1> QED
  BY <1>1, <1>2 DEF fifo_is_full_unsafe, fifo_is_empty_unsafe, Used, Slots

(* A buffer whose array and indices a step leaves alone keeps its contents. *)
LEMMA SameContents ==
  ASSUME NEW t \in Types, fifo'[t] = fifo[t], write_idx'[t] = write_idx[t],
         read_idx'[t] = read_idx[t]
  PROVE  Used(t)' = Used(t) /\ Contents(t)' = Contents(t)
         /\ \A i : SlotOf(t, i)' = SlotOf(t, i)
  BY DEF Contents, Used, SlotOf

(* Adding a message: what becomes of the indices. *)
LEMMA AddIndices ==
  ASSUME TypeOK, NEW t \in Types, NEW m \in Msgs, add_ble_msg_to_queue(t, m)
  PROVE  /\ Used(t)' = IF Used(t) = BLE_FIFO_SIZE - 1 THEN Used(t) ELSE Used(t) + 1
         /\ fifo'[t] = [fifo[t] EXCEPT ![write_idx[t]] = m]
         /\ \A i : i = Used(t)' => SlotOf(t, i)' = write_idx[t]
         /\ \A i \in 1..(Used(t)' - 1) :
              /\ SlotOf(t, i)' = SlotOf(t, IF Used(t) = BLE_FIFO_SIZE - 1 THEN i + 1 ELSE i)
              /\ SlotOf(t, i)' # write_idx[t]
<1>1. write_idx[t] \in Slots /\ read_idx[t] \in Slots
  BY DEF TypeOK
<1>2. /\ Succ(write_idx[t]) = IF write_idx[t] = BLE_FIFO_SIZE - 1 THEN 0 ELSE write_idx[t] + 1
      /\ Succ(read_idx[t]) = IF read_idx[t] = BLE_FIFO_SIZE - 1 THEN 0 ELSE read_idx[t] + 1
  BY <1>1, SuccValue
<1>3. /\ write_idx'[t] = Succ(write_idx[t])
      /\ read_idx'[t] = IF Used(t) = BLE_FIFO_SIZE - 1 THEN Succ(read_idx[t]) ELSE read_idx[t]
      /\ fifo'[t] = [fifo[t] EXCEPT ![write_idx[t]] = m]
  BY FullEmpty DEF add_ble_msg_to_queue, TypeOK
<1>4. Used(t)' = IF Used(t) = BLE_FIFO_SIZE - 1 THEN Used(t) ELSE Used(t) + 1
  BY <1>1, <1>2, <1>3 DEF Used, Slots
<1>5. \A i : i = Used(t)' => SlotOf(t, i)' = write_idx[t]
  BY <1>1, <1>2, <1>3 DEF Used, SlotOf, Slots
<1>6. ASSUME NEW i \in 1..(Used(t)' - 1)
      PROVE  /\ SlotOf(t, i)' = SlotOf(t, IF Used(t) = BLE_FIFO_SIZE - 1 THEN i + 1 ELSE i)
             /\ SlotOf(t, i)' # write_idx[t]
  BY <1>1, <1>2, <1>3, <1>4, <1>6 DEF Used, SlotOf, Slots
<1> QED
  BY <1>3, <1>4, <1>5, <1>6

(* Adding a message keeps the type invariant. *)
LEMMA AddTypeOK ==
  ASSUME TypeOK, NEW t \in Types, NEW m \in Msgs, add_ble_msg_to_queue(t, m)
  PROVE  TypeOK'
<1>0. /\ Used(t)' = IF Used(t) = BLE_FIFO_SIZE - 1 THEN Used(t) ELSE Used(t) + 1
      /\ fifo'[t] = [fifo[t] EXCEPT ![write_idx[t]] = m]
      /\ \A i : i = Used(t)' => SlotOf(t, i)' = write_idx[t]
      /\ \A i \in 1..(Used(t)' - 1) :
           /\ SlotOf(t, i)' = SlotOf(t, IF Used(t) = BLE_FIFO_SIZE - 1 THEN i + 1 ELSE i)
           /\ SlotOf(t, i)' # write_idx[t]
  BY AddIndices
<1>1. /\ fifo' \in [Types -> [Slots -> Msgs \cup {NoMsg}]]
      /\ write_idx' \in [Types -> Slots] /\ read_idx' \in [Types -> Slots]
      /\ out' \in [Types -> Msgs \cup {NoMsg, Added}]
  <2>1. \A x \in Slots : Succ(x) \in Slots
    BY SuccValue DEF Slots
  <2> QED
    BY <2>1 DEF TypeOK, add_ble_msg_to_queue
<1>2. ASSUME NEW i \in 1..Used(t)'
      PROVE  fifo'[t][SlotOf(t, i)'] \in Msgs
  <2>1. Used(t) \in 0..(BLE_FIFO_SIZE - 1)
    BY ContentsSeq
  <2>2. write_idx[t] \in Slots /\ fifo[t] \in [Slots -> Msgs \cup {NoMsg}]
    BY DEF TypeOK
  <2>3. CASE i = Used(t)'
    BY <2>2, <2>3, <1>0
  <2>4. CASE i # Used(t)'
    <3> DEFINE j == IF Used(t) = BLE_FIFO_SIZE - 1 THEN i + 1 ELSE i
    <3>1. j \in 1..Used(t) /\ i \in 1..(Used(t)' - 1)
      BY <1>2, <2>1, <2>4, <1>0
    <3>2. SlotOf(t, j) \in Slots /\ fifo[t][SlotOf(t, j)] \in Msgs
      BY <3>1, ContentsSeq DEF TypeOK
    <3>3. SlotOf(t, i)' = SlotOf(t, j) /\ SlotOf(t, i)' # write_idx[t]
      BY <3>1, <1>0
    <3>4. fifo'[t] = [fifo[t] EXCEPT ![write_idx[t]] = m]
      BY <1>0
    <3> QED
      BY <2>2, <3>2, <3>3, <3>4
  <2> QED
    BY <2>3, <2>4
<1>3. ASSUME NEW u \in Types, u # t, NEW i \in 1..Used(u)'
      PROVE  fifo'[u][SlotOf(u, i)'] \in Msgs
  <2>1. fifo'[u] = fifo[u] /\ write_idx'[u] = write_idx[u] /\ read_idx'[u] = read_idx[u]
    BY <1>3 DEF TypeOK, add_ble_msg_to_queue
  <2> QED
    BY <1>3, <2>1, SameContents DEF TypeOK
<1> QED
  BY <1>1, <1>2, <1>3 DEF TypeOK

(* Adding a message appends it, after the oldest one left a full buffer. *)
LEMMA AddContents ==
  ASSUME TypeOK, NEW t \in Types, NEW m \in Msgs, add_ble_msg_to_queue(t, m)
  PROVE  Contents(t)' = Append(IF Len(Contents(t)) = BLE_FIFO_SIZE - 1
                               THEN Tail(Contents(t)) ELSE Contents(t), m)
<1> DEFINE q == Contents(t)
           d == IF Len(q) = BLE_FIFO_SIZE - 1 THEN Tail(q) ELSE q
<1>0. /\ Used(t)' = IF Used(t) = BLE_FIFO_SIZE - 1 THEN Used(t) ELSE Used(t) + 1
      /\ fifo'[t] = [fifo[t] EXCEPT ![write_idx[t]] = m]
      /\ \A i : i = Used(t)' => SlotOf(t, i)' = write_idx[t]
      /\ \A i \in 1..(Used(t)' - 1) :
           /\ SlotOf(t, i)' = SlotOf(t, IF Used(t) = BLE_FIFO_SIZE - 1 THEN i + 1 ELSE i)
           /\ SlotOf(t, i)' # write_idx[t]
  BY AddIndices
<1>1. /\ q \in Seq(Msgs) /\ Len(q) = Used(t) /\ Used(t) \in 0..(BLE_FIFO_SIZE - 1)
      /\ \A i \in 1..Used(t) : q[i] = fifo[t][SlotOf(t, i)] /\ SlotOf(t, i) \in Slots
  BY ContentsSeq
<1>2. /\ q' \in Seq(Msgs) /\ Len(q') = Used(t)'
      /\ \A i \in 1..Used(t)' : q'[i] = fifo'[t][SlotOf(t, i)']
  <2>1. TypeOK'
    BY AddTypeOK
  <2>2. ContentsAreSeqs'
    BY <2>1, ContentsSeqAlways, PTL
  <2> QED
    BY <2>2 DEF ContentsAreSeqs
<1>3. /\ d \in Seq(Msgs) /\ Len(d) = Used(t)' - 1
      /\ \A i \in 1..Len(d) : d[i] = q[IF Used(t) = BLE_FIFO_SIZE - 1 THEN i + 1 ELSE i]
  <2>1. CASE Len(q) = BLE_FIFO_SIZE - 1
    <3>1. q # <<>>
      BY <1>1, <2>1
    <3> QED
      BY ZenonT(60), <1>1, <2>1, <3>1, HeadTailProperties, <1>0
  <2>2. CASE Len(q) # BLE_FIFO_SIZE - 1
    BY <1>1, <2>2, <1>0
  <2> QED
    BY <2>1, <2>2
<1>4. /\ Append(d, m) \in Seq(Msgs) /\ Len(Append(d, m)) = Len(d) + 1
      /\ \A i \in 1..Len(d) : Append(d, m)[i] = d[i]
      /\ Append(d, m)[Len(d) + 1] = m
  BY <1>3
<1>5. fifo[t] \in [Slots -> Msgs \cup {NoMsg}] /\ write_idx[t] \in Slots
  BY DEF TypeOK
<1>6. ASSUME NEW i \in 1..Len(q')
      PROVE  q'[i] = Append(d, m)[i]
  <2>1. Len(d) \in Nat /\ Len(q') = Len(d) + 1
    BY <1>1, <1>2, <1>3
  <2>2. CASE i = Len(d) + 1
    <3>1. q'[i] = fifo'[t][write_idx[t]]
      BY <1>2, <1>3, <2>1, <2>2, <1>0
    <3> QED
      BY <1>4, <1>5, <2>2, <3>1, <1>0
  <2>3. CASE i \in 1..Len(d)
    <3> DEFINE j == IF Used(t) = BLE_FIFO_SIZE - 1 THEN i + 1 ELSE i
    <3>1. j \in 1..Used(t) /\ i \in 1..(Used(t)' - 1) /\ i \in 1..Used(t)'
      BY <1>1, <1>3, <2>1, <2>3, <1>0
    <3>2. q'[i] = fifo'[t][SlotOf(t, i)']
      BY <1>2, <3>1
    <3>3. SlotOf(t, i)' = SlotOf(t, j) /\ SlotOf(t, i)' # write_idx[t]
      BY <3>1, <1>0
    <3>4. fifo'[t] = [fifo[t] EXCEPT ![write_idx[t]] = m]
      BY <1>0
    <3>5. fifo'[t][SlotOf(t, j)] = fifo[t][SlotOf(t, j)]
      BY <1>1, <1>5, <3>1, <3>3, <3>4
    <3>6. d[i] = q[j]
      BY <1>3, <2>3
    <3> QED
      BY <1>1, <1>4, <2>3, <3>1, <3>2, <3>3, <3>5, <3>6
  <2> QED
    BY <1>6, <2>1, <2>2, <2>3
<1>7. Len(q') = Len(Append(d, m))
  BY <1>1, <1>2, <1>3, <1>4
<1> HIDE DEF q, d
<1>8. q' = Append(d, m)
  BY <1>2, <1>4, <1>6, <1>7, SeqEqual
<1> QED
  BY <1>8 DEF q, d

(* A pop: an empty buffer answers that it is empty, any other gives up its  *)
(* oldest message.                                                          *)
LEMMA GetTypeOK ==
  ASSUME TypeOK, NEW t \in Types, get_next_ble_msg(t)
  PROVE  /\ TypeOK'
         /\ \/ /\ Contents(t) = <<>> /\ out'[t] = NoMsg
               /\ Contents(t)' = Contents(t)
            \/ /\ Contents(t) # <<>> /\ out'[t] = Head(Contents(t))
               /\ Contents(t)' = Tail(Contents(t))
<1> DEFINE q == Contents(t)
<1>1. /\ q \in Seq(Msgs) /\ Len(q) = Used(t) /\ Used(t) \in 0..(BLE_FIFO_SIZE - 1)
      /\ \A i \in 1..Used(t) : q[i] = fifo[t][SlotOf(t, i)] /\ SlotOf(t, i) \in Slots
  BY ContentsSeq
<1>2. write_idx[t] \in Slots /\ read_idx[t] \in Slots
  BY DEF TypeOK
<1>3. fifo' = fifo /\ write_idx' = write_idx
  BY DEF get_next_ble_msg
<1>4. CASE fifo_is_empty_unsafe(t)
  <2>1. read_idx' = read_idx /\ out' = [out EXCEPT ![t] = NoMsg]
    BY <1>4 DEF get_next_ble_msg
  <2>2. q = <<>>
    BY <1>1, <1>4, FullEmpty
  <2>3. \A u \in Types : Used(u)' = Used(u) /\ Contents(u)' = Contents(u)
                         /\ \A i : SlotOf(u, i)' = SlotOf(u, i)
    BY <1>3, <2>1, SameContents
  <2>4. TypeOK'
    BY <1>3, <2>1, <2>3 DEF TypeOK
  <2>5. out'[t] = NoMsg
    BY <2>1 DEF TypeOK
  <2> QED
    BY <2>2, <2>3, <2>4, <2>5
<1>5. CASE ~fifo_is_empty_unsafe(t)
  <2>1. /\ read_idx' = [read_idx EXCEPT ![t] = Succ(read_idx[t])]
        /\ out' = [out EXCEPT ![t] = fifo[t][read_idx[t]]]
    BY <1>5 DEF get_next_ble_msg
  <2>2. Used(t) > 0 /\ q # <<>>
    BY <1>1, <1>5, FullEmpty
  <2>3. Succ(read_idx[t]) = IF read_idx[t] = BLE_FIFO_SIZE - 1 THEN 0 ELSE read_idx[t] + 1
    BY <1>2, SuccValue
  <2>4. read_idx'[t] = Succ(read_idx[t])
    BY <2>1 DEF TypeOK
  <2>5. Used(t)' = Used(t) - 1 /\ \A i \in 1..Used(t)' : SlotOf(t, i)' = SlotOf(t, i + 1)
    <3>1. Used(t)' = Used(t) - 1
      BY <1>2, <1>3, <2>2, <2>3, <2>4 DEF Used, Slots
    <3> QED
      BY <1>2, <1>3, <2>3, <2>4, <3>1 DEF Used, SlotOf, Slots
  <2>6. SlotOf(t, 1) = read_idx[t]
    BY <1>2 DEF SlotOf, Slots
  <2>7. fifo[t][read_idx[t]] \in Msgs /\ q[1] = fifo[t][read_idx[t]]
    BY <1>1, <2>2, <2>6 DEF TypeOK
  <2>8. out'[t] = Head(q)
    <3>1. out'[t] = fifo[t][read_idx[t]]
      BY <2>1 DEF TypeOK
    <3> QED
      BY <1>1, <2>2, <2>7, <3>1
  <2>9. TypeOK'
    <3>1. /\ fifo' \in [Types -> [Slots -> Msgs \cup {NoMsg}]]
          /\ write_idx' \in [Types -> Slots] /\ read_idx' \in [Types -> Slots]
          /\ out' \in [Types -> Msgs \cup {NoMsg, Added}]
      BY <1>2, <1>3, <2>1, <2>3, <2>7 DEF TypeOK, Slots
    <3>2. ASSUME NEW i \in 1..Used(t)' PROVE fifo'[t][SlotOf(t, i)'] \in Msgs
      <4>1. i + 1 \in 1..Used(t)
        BY <1>1, <2>5
      <4> QED
        BY <1>3, <2>5, <4>1 DEF TypeOK
    <3>3. ASSUME NEW u \in Types, u # t, NEW i \in 1..Used(u)'
          PROVE  fifo'[u][SlotOf(u, i)'] \in Msgs
      <4>1. read_idx'[u] = read_idx[u]
        BY <2>1, <3>3 DEF TypeOK
      <4> QED
        BY <1>3, <4>1, SameContents DEF TypeOK
    <3> QED
      BY <3>1, <3>2, <3>3 DEF TypeOK
  <2>10. Contents(t)' = Tail(q)
    <3>1. ContentsAreSeqs'
      BY <2>9, ContentsSeqAlways, PTL
    <3>2. /\ q' \in Seq(Msgs) /\ Len(q') = Used(t)'
          /\ \A i \in 1..Used(t)' : q'[i] = fifo'[t][SlotOf(t, i)']
      BY <3>1 DEF ContentsAreSeqs
    <3>3. /\ Tail(q) \in Seq(Msgs) /\ Len(Tail(q)) = Len(q) - 1
          /\ \A i \in 1..Len(Tail(q)) : Tail(q)[i] = q[i + 1]
      BY <1>1, <2>2, HeadTailProperties
    <3>4. Len(q') = Len(Tail(q))
      BY <1>1, <2>5, <3>2, <3>3
    <3>5. ASSUME NEW i \in 1..Len(q') PROVE q'[i] = Tail(q)[i]
      <4>1. i \in 1..Used(t)' /\ i + 1 \in 1..Used(t) /\ i \in 1..Len(Tail(q))
        BY <1>1, <2>5, <3>2, <3>4
      <4> QED
        BY <1>1, <1>3, <2>5, <3>2, <3>3, <4>1
    <3> HIDE DEF q
    <3>6. q' = Tail(q)
      BY <3>2, <3>3, <3>4, <3>5, SeqEqual
    <3> QED
      BY <3>6 DEF q
  <2> QED
    BY <2>2, <2>8, <2>9, <2>10
<1> QED
  BY <1>4, <1>5

-----------------------------------------------------------------------------
(* The type invariant. *)
THEOREM FifoTypeOK == Spec => []TypeOK
<1>1. Init => TypeOK
  BY DEF Init, TypeOK, Used, Slots
<1>2. TypeOK /\ [Next]_vars => TypeOK'
  <2> SUFFICES ASSUME TypeOK, [Next]_vars PROVE TypeOK'
    OBVIOUS
  <2>1. CASE UNCHANGED vars
    BY <2>1 DEF vars, TypeOK, Used, SlotOf
  <2>2. ASSUME NEW t \in Types, get_next_ble_msg(t) PROVE TypeOK'
    BY <2>2, GetTypeOK
  <2>3. ASSUME NEW t \in Types, NEW m \in Msgs, add_ble_msg_to_queue(t, m) PROVE TypeOK'
    BY <2>3, AddTypeOK
  <2> QED
    BY <2>1, <2>2, <2>3 DEF Next
<1> QED
  BY <1>1, <1>2, PTL DEF Spec

(* A step on one buffer leaves the contents of the other alone. *)
LEMMA OtherBuffer ==
  ASSUME TypeOK, NEW t \in Types, NEW u \in Types, t # u,
         get_next_ble_msg(t) \/ \E m \in Msgs : add_ble_msg_to_queue(t, m)
  PROVE  Contents(u)' = Contents(u) /\ out'[u] = out[u]
<1>1. /\ fifo'[u] = fifo[u] /\ write_idx'[u] = write_idx[u]
      /\ read_idx'[u] = read_idx[u] /\ out'[u] = out[u]
  BY DEF get_next_ble_msg, add_ble_msg_to_queue, TypeOK
<1> QED
  BY <1>1, SameContents

(* Each step of the program is, for each buffer, a step of the abstract     *)
(* queue or a stutter.                                                      *)
LEMMA StepIsQueueStep ==
  ASSUME TypeOK, [Next]_vars, NEW u \in Types
  PROVE  \/ Contents(u)' = Contents(u) /\ out'[u] = out[u]
         \/ /\ Contents(u) # <<>> /\ out'[u] = Head(Contents(u))
            /\ Contents(u)' = Tail(Contents(u))
         \/ Contents(u) = <<>> /\ out'[u] = NoMsg /\ Contents(u)' = Contents(u)
         \/ /\ out'[u] = Added
            /\ \E m \in Msgs :
                 Contents(u)' = Append(IF Len(Contents(u)) = BLE_FIFO_SIZE - 1
                                       THEN Tail(Contents(u)) ELSE Contents(u), m)
<1>1. CASE UNCHANGED vars
  BY <1>1, SameContents DEF vars
<1>2. ASSUME NEW t \in Types, t # u,
             get_next_ble_msg(t) \/ \E m \in Msgs : add_ble_msg_to_queue(t, m)
      PROVE  Contents(u)' = Contents(u) /\ out'[u] = out[u]
  BY <1>2, OtherBuffer
<1>3. CASE get_next_ble_msg(u)
  BY <1>3, GetTypeOK
<1>4. ASSUME NEW m \in Msgs, add_ble_msg_to_queue(u, m)
      PROVE  /\ out'[u] = Added
             /\ Contents(u)' = Append(IF Len(Contents(u)) = BLE_FIFO_SIZE - 1
                                      THEN Tail(Contents(u)) ELSE Contents(u), m)
  BY <1>4, AddContents DEF add_ble_msg_to_queue, TypeOK
<1> QED
  BY <1>1, <1>2, <1>3, <1>4 DEF Next

(* Each buffer implements the queue that drops its oldest message. *)
THEOREM FifosImplementQueues == Spec => FifosAreQueues
<1>1. Init => Tx!Init /\ Rx!Init
  <2> SUFFICES ASSUME Init PROVE Tx!Init /\ Rx!Init
    OBVIOUS
  <2>1. \A t \in Types : Contents(t) = <<>> /\ out[t] = NoMsg
    BY DEF Init, Contents, Used
  <2> QED
    BY <2>1 DEF Tx!Init, Rx!Init
<1>2. TypeOK /\ [Next]_vars => [Tx!Next]_<<Contents("BLE_TX"), out["BLE_TX"]>>
  <2> SUFFICES ASSUME TypeOK, [Next]_vars
               PROVE  [Tx!Next]_<<Contents("BLE_TX"), out["BLE_TX"]>>
    OBVIOUS
  <2> QED
    BY StepIsQueueStep DEF Tx!Next, Tx!Get, Tx!Add
<1>3. TypeOK /\ [Next]_vars => [Rx!Next]_<<Contents("BLE_RX"), out["BLE_RX"]>>
  <2> SUFFICES ASSUME TypeOK, [Next]_vars
               PROVE  [Rx!Next]_<<Contents("BLE_RX"), out["BLE_RX"]>>
    OBVIOUS
  <2> QED
    BY StepIsQueueStep DEF Rx!Next, Rx!Get, Rx!Add
<1> QED
  BY <1>1, <1>2, <1>3, FifoTypeOK, PTL DEF Spec, FifosAreQueues, Tx!Spec, Rx!Spec
=============================================================================
