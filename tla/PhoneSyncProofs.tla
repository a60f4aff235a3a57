-------------------------- MODULE PhoneSyncProofs --------------------------
(***************************************************************************)
(* Proofs about PhoneSync, for queues, days and clocks of every size and   *)
(* any set of notification payloads.                                       *)
(*                                                                         *)
(* What the tick shows cannot be explained from the shared state alone: in *)
(* the middle of an update the stores already made must be those of the    *)
(* message in hand, and that message no newer than the uptime that goes    *)
(* with it.                                                                *)
(***************************************************************************)
EXTENDS PhoneSync, SequenceTheorems, TLAPS

Messages ==
  [op : {"time", "weather", "notification"}, len : Nat, epoch : Int]

(* A time message in the queue is not from the future. *)
QueueOK ==
  /\ txq \in Seq({"time", "other"}) /\ rxq \in Seq(Messages)
  /\ \A i \in 1..Len(rxq) :
       IsTime(rxq[i]) => rxq[i].epoch \in Nat /\ rxq[i].epoch <= PhoneClock

ClockOK ==
  /\ time_state \in [last_sync_time : Nat, time_sync_uptime : Nat, valid : {0, 1}]
  /\ uptime_read \in 0..uptime
  /\ pc \in {"epoch", "uptime", "stores"} =>
       msg.op = "time" /\ msg.epoch \in Nat /\ msg.epoch <= PhoneClock

(* The stores of a time message that have been made. *)
UpdateOK ==
  /\ pc \in {"uptime", "stores"} => time_state.last_sync_time = msg.epoch
  /\ pc = "stores" =>
       /\ msg.epoch <= uptime_read + PhoneOffset
       /\ time_state.time_sync_uptime <= uptime_read
       /\ todo \subseteq {"time_sync_uptime", "valid"}
       /\ "time_sync_uptime" \notin todo => time_state.time_sync_uptime = uptime_read
  /\ pc \notin {"uptime", "stores"} =>
       time_state.last_sync_time <= time_state.time_sync_uptime + PhoneOffset

(* The words of a forecast that have been copied. *)
ForecastOK ==
  /\ weather_state = [w \in Words |-> weather_state[w]]
  /\ IF pc = "weather"
     THEN /\ msg.op = "weather"
          /\ \A w \in Words \ todo : weather_state[w] = Day(msg.epoch)
     ELSE \A w \in Words : weather_state[w] = weather_state[0]

IInv == TypeOK /\ QueueOK /\ ClockOK /\ UpdateOK /\ ForecastOK

LEMMA SyncArithmetic ==
  /\ Cap \in Nat /\ Cap > 0 /\ HOURS \in Nat /\ HOURS > 0
  /\ PhoneOffset \in Nat /\ MaxUptime \in Nat
  BY SyncAssumption

-----------------------------------------------------------------------------
(* The queues *)

(* The bounded queue holds what it held, without its oldest, and the new.   *)
LEMMA AppendKeeps ==
  ASSUME NEW S, NEW q \in Seq(S), Len(q) <= Cap, NEW m \in S
  PROVE  /\ Append1(q, m) \in Seq(S)
         /\ Len(Append1(q, m)) <= Cap
         /\ \A i \in 1..Len(Append1(q, m)) :
              Append1(q, m)[i] = m \/ \E j \in 1..Len(q) : Append1(q, m)[i] = q[j]
<1>1. CASE Len(q) = Cap
  <2>1. q # <<>>
    BY <1>1, SyncArithmetic
  <2>2. Append1(q, m) = Append(Tail(q), m)
    BY <1>1 DEF Append1
  <2>3. Tail(q) \in Seq(S) /\ Len(Tail(q)) = Len(q) - 1
    BY <2>1
  <2>4. \A i \in 1..Len(Tail(q)) : Tail(q)[i] = q[i + 1] /\ i + 1 \in 1..Len(q)
    BY <2>1, <2>3
  <2> QED
    BY <1>1, <2>2, <2>3, <2>4, SyncArithmetic
<1>2. CASE Len(q) # Cap
  <2>1. Append1(q, m) = Append(q, m)
    BY <1>2 DEF Append1
  <2> QED
    BY <1>2, <2>1, SyncArithmetic
<1> QED
  BY <1>1, <1>2

LEMMA WeatherMsgType ==
  ASSUME uptime \in Nat
  PROVE  WeatherMsg \in Messages /\ ~IsTime(WeatherMsg)
<1>1. Day(PhoneClock) \in Int
  BY SyncArithmetic DEF Day, PhoneClock
<1>2. HOURS * (Day(PhoneClock) + 1) - 1 \in Int
  BY <1>1, SyncArithmetic
<1>3. WeatherLen \in Nat
  BY DEF WeatherLen
<1> QED
  BY <1>2, <1>3 DEF WeatherMsg, Messages, IsTime

(* What is received keeps the queue in order. *)
LEMMA ReceiveKeeps ==
  ASSUME QueueOK, Len(rxq) <= Cap, uptime \in Nat, uptime' = uptime,
         NEW m \in {TimeMsg, WeatherMsg, NotificationMsg, BrokenMsg}, Receive(m)
  PROVE  QueueOK' /\ Len(rxq') <= Cap
<1>1. m \in Messages /\ (IsTime(m) => m.epoch \in Nat /\ m.epoch <= PhoneClock)
  <2>1. CASE m = TimeMsg
    BY <2>1, SyncArithmetic DEF TimeMsg, Messages, PhoneClock, TimeLen
  <2>2. CASE m = WeatherMsg
    BY <2>2, WeatherMsgType
  <2>3. CASE m = NotificationMsg
    BY <2>3 DEF NotificationMsg, Messages, IsTime, MinLen
  <2>4. CASE m = BrokenMsg
    BY <2>4 DEF BrokenMsg, Messages, IsTime, TimeLen
  <2> QED
    BY <2>1, <2>2, <2>3, <2>4
<1>2. rxq' = Append1(rxq, m) /\ txq' = txq
  BY DEF Receive
<1>3. rxq \in Seq(Messages)
  BY DEF QueueOK
<1>4. /\ rxq' \in Seq(Messages) /\ Len(rxq') <= Cap
      /\ \A i \in 1..Len(rxq') : rxq'[i] = m \/ \E j \in 1..Len(rxq) : rxq'[i] = rxq[j]
  <2>1. m \in Messages /\ Len(rxq) <= Cap
    BY <1>1
  <2>2. /\ Append1(rxq, m) \in Seq(Messages) /\ Len(Append1(rxq, m)) <= Cap
        /\ \A i \in 1..Len(Append1(rxq, m)) :
             Append1(rxq, m)[i] = m \/ \E j \in 1..Len(rxq) : Append1(rxq, m)[i] = rxq[j]
    BY <1>3, <2>1, AppendKeeps
  <2> QED
    BY <1>2, <2>2
<1>5. PhoneClock' = PhoneClock
  BY DEF PhoneClock
<1>6. \A i \in 1..Len(rxq') :
        IsTime(rxq'[i]) => rxq'[i].epoch \in Nat /\ rxq'[i].epoch <= PhoneClock
  BY <1>1, <1>4 DEF QueueOK
<1> QED
  BY <1>2, <1>4, <1>5, <1>6 DEF QueueOK, IsTime

-----------------------------------------------------------------------------
LEMMA InitIInv == Init => IInv
<1> SUFFICES ASSUME Init
             PROVE  IInv
  OBVIOUS
<1>1. TypeOK
  BY SyncArithmetic DEF Init, TypeOK
<1>2. QueueOK
  BY DEF Init, QueueOK
<1>3. ClockOK /\ UpdateOK
  BY SyncArithmetic DEF Init, ClockOK, UpdateOK
<1>4. ForecastOK
  BY SyncArithmetic DEF Init, ForecastOK, Words
<1> QED
  BY <1>1, <1>2, <1>3, <1>4 DEF IInv

(* Steps that leave the maintenance thread and the shared state alone.      *)
LEMMA OutsideKeeps ==
  ASSUME IInv, UNCHANGED <<thread, memory>>,
         uptime' \in 0..MaxUptime, uptime <= uptime',
         main' \in {"time", "weather", "done"},
         QueueOK', Len(txq') <= Cap, Len(rxq') <= Cap
  PROVE  IInv'
<1>1. /\ pc' = pc /\ msg' = msg /\ uptime_read' = uptime_read /\ todo' = todo
      /\ time_state' = time_state /\ weather_state' = weather_state
  BY DEF thread, memory
<1>2. uptime \in Nat /\ uptime' \in Nat /\ uptime <= uptime'
  BY SyncArithmetic DEF IInv, TypeOK
<1>3. TypeOK'
  BY <1>1, <1>2 DEF IInv, TypeOK, ClockOK
<1>4. ClockOK'
  BY <1>1, <1>2, SyncArithmetic DEF IInv, ClockOK, PhoneClock
<1>5. UpdateOK' /\ ForecastOK'
  BY <1>1 DEF IInv, UpdateOK, ForecastOK, Day, Words
<1> QED
  BY <1>3, <1>4, <1>5 DEF IInv

(* Steps of the maintenance thread once it has taken a message.             *)
LEMMA InsideKeeps ==
  ASSUME IInv, UNCHANGED <<uptime, queues, main>>
  PROVE  /\ QueueOK' /\ Len(txq') <= Cap /\ Len(rxq') <= Cap
         /\ uptime' = uptime /\ uptime \in 0..MaxUptime /\ uptime \in Nat
         /\ main' \in {"time", "weather", "done"}
         /\ PhoneClock' = PhoneClock
  BY SyncArithmetic DEF IInv, TypeOK, QueueOK, queues, PhoneClock, IsTime

LEMMA handle_ble_responseKeeps == IInv /\ handle_ble_response => IInv'
<1> SUFFICES ASSUME IInv, handle_ble_response
             PROVE  IInv'
  OBVIOUS
<1> DEFINE m == Head(rxq)
<1>1. /\ pc = "idle" /\ rxq # <<>> /\ rxq' = Tail(rxq)
      /\ uptime' = uptime /\ txq' = txq /\ main' = main /\ uptime_read' = uptime_read
      /\ time_state' = time_state /\ weather_state' = weather_state
  BY DEF handle_ble_response, memory
<1>2. /\ rxq \in Seq(Messages) /\ txq \in Seq({"time", "other"})
      /\ Len(rxq) <= Cap /\ Len(txq) <= Cap
      /\ \A i \in 1..Len(rxq) :
           IsTime(rxq[i]) => rxq[i].epoch \in Nat /\ rxq[i].epoch <= PhoneClock
  BY DEF IInv, TypeOK, QueueOK
<1>3. /\ m \in Messages /\ (IsTime(m) => m.epoch \in Nat /\ m.epoch <= PhoneClock)
      /\ m = rxq[1] /\ 1 \in 1..Len(rxq)
  BY <1>1, <1>2
<1>4. /\ rxq' \in Seq(Messages) /\ Len(rxq') = Len(rxq) - 1
      /\ \A i \in 1..Len(rxq') : rxq'[i] = rxq[i + 1] /\ i + 1 \in 1..Len(rxq)
  BY <1>1, <1>2
<1>5. PhoneClock' = PhoneClock
  BY <1>1 DEF PhoneClock
<1>6. QueueOK' /\ Len(rxq') <= Cap /\ Len(txq') <= Cap
  <2>1. \A i \in 1..Len(rxq') :
          IsTime(rxq'[i]) => rxq'[i].epoch \in Nat /\ rxq'[i].epoch <= PhoneClock
    BY <1>2, <1>4
  <2> QED
    BY <1>1, <1>2, <1>4, <1>5, <2>1, SyncArithmetic DEF QueueOK, IsTime
<1>7. /\ msg = NoMsg /\ m # NoMsg
      /\ time_state.last_sync_time <= time_state.time_sync_uptime + PhoneOffset
      /\ \A w \in Words : weather_state[w] = weather_state[0]
  BY <1>1, <1>3 DEF IInv, TypeOK, UpdateOK, ForecastOK, NoMsg, Messages
<1>8. CASE IsTime(m) /\ pc' = "epoch" /\ msg' = m /\ todo' = todo
  <2>1. TypeOK'
    BY <1>1, <1>6, <1>7, <1>8 DEF IInv, TypeOK
  <2>2. ClockOK'
    BY <1>1, <1>3, <1>5, <1>8 DEF IInv, ClockOK, IsTime
  <2>3. UpdateOK' /\ ForecastOK'
    BY <1>1, <1>7, <1>8 DEF IInv, UpdateOK, ForecastOK, Words
  <2> QED
    BY <1>6, <2>1, <2>2, <2>3 DEF IInv
<1>9. CASE m.op = "weather" /\ pc' = "weather" /\ msg' = m /\ todo' = Words
  <2>1. TypeOK'
    BY <1>1, <1>6, <1>7, <1>9 DEF IInv, TypeOK
  <2>2. ClockOK'
    BY <1>1, <1>9 DEF IInv, ClockOK
  <2>3. UpdateOK' /\ ForecastOK'
    BY <1>1, <1>7, <1>9 DEF IInv, UpdateOK, ForecastOK, Words
  <2> QED
    BY <1>6, <2>1, <2>2, <2>3 DEF IInv
<1>10. CASE UNCHANGED <<pc, msg, todo>>
  <2>1. TypeOK' /\ ClockOK' /\ UpdateOK' /\ ForecastOK'
    BY <1>1, <1>6, <1>10 DEF IInv, TypeOK, ClockOK, UpdateOK, ForecastOK, Words
  <2> QED
    BY <1>6, <2>1 DEF IInv
<1> QED
  BY <1>8, <1>9, <1>10 DEF handle_ble_response

LEMMA StoreEpochKeeps == IInv /\ StoreEpoch => IInv'
<1> SUFFICES ASSUME IInv, StoreEpoch
             PROVE  IInv'
  OBVIOUS
<1>1. /\ pc = "epoch" /\ pc' = "uptime" /\ msg' = msg /\ uptime_read' = uptime_read
      /\ todo' = todo /\ weather_state' = weather_state
      /\ time_state' = [time_state EXCEPT !.last_sync_time = msg.epoch]
      /\ UNCHANGED <<uptime, queues, main>>
  BY DEF StoreEpoch
<1>2. /\ QueueOK' /\ Len(txq') <= Cap /\ Len(rxq') <= Cap
      /\ uptime' = uptime /\ uptime \in 0..MaxUptime /\ PhoneClock' = PhoneClock
      /\ main' \in {"time", "weather", "done"}
  BY <1>1, InsideKeeps
<1>3. /\ time_state \in [last_sync_time : Nat, time_sync_uptime : Nat, valid : {0, 1}]
      /\ msg.op = "time" /\ msg.epoch \in Nat /\ msg.epoch <= PhoneClock
  BY <1>1 DEF IInv, ClockOK
<1>4. /\ time_state'.last_sync_time = msg.epoch
      /\ time_state'.time_sync_uptime = time_state.time_sync_uptime
      /\ time_state'.valid = time_state.valid
      /\ time_state' \in [last_sync_time : Nat, time_sync_uptime : Nat, valid : {0, 1}]
  BY <1>1, <1>3
<1>5. TypeOK'
  BY <1>1, <1>2, <1>4 DEF IInv, TypeOK
<1>6. ClockOK'
  BY <1>1, <1>2, <1>3, <1>4 DEF IInv, ClockOK
<1>7. UpdateOK' /\ ForecastOK'
  BY <1>1, <1>4 DEF IInv, UpdateOK, ForecastOK, Words
<1> QED
  BY <1>2, <1>5, <1>6, <1>7 DEF IInv

LEMMA ReadUptimeKeeps == IInv /\ ReadUptime => IInv'
<1> SUFFICES ASSUME IInv, ReadUptime
             PROVE  IInv'
  OBVIOUS
<1>1. /\ pc = "uptime" /\ pc' = "stores" /\ msg' = msg /\ uptime_read' = uptime
      /\ todo' = {"time_sync_uptime", "valid"}
      /\ time_state' = time_state /\ weather_state' = weather_state
      /\ UNCHANGED <<uptime, queues, main>>
  BY DEF ReadUptime, memory
<1>2. /\ QueueOK' /\ Len(txq') <= Cap /\ Len(rxq') <= Cap
      /\ uptime' = uptime /\ uptime \in 0..MaxUptime /\ uptime \in Nat
      /\ PhoneClock' = PhoneClock /\ main' \in {"time", "weather", "done"}
  BY <1>1, InsideKeeps
<1>3. TypeOK'
  BY <1>1, <1>2 DEF IInv, TypeOK
<1>4. ClockOK'
  BY <1>1, <1>2 DEF IInv, ClockOK
<1>5. UpdateOK'
  BY <1>1, <1>2 DEF IInv, UpdateOK, ClockOK, TypeOK, PhoneClock
<1>6. ForecastOK'
  BY <1>1 DEF IInv, ForecastOK, Words
<1> QED
  BY <1>2, <1>3, <1>4, <1>5, <1>6 DEF IInv

LEMMA StoreFieldKeeps ==
  ASSUME IInv, NEW f \in {"time_sync_uptime", "valid"}, StoreField(f)
  PROVE  IInv'
<1>1. /\ pc = "stores" /\ f \in todo /\ todo' = todo \ {f}
      /\ weather_state' = weather_state
      /\ UNCHANGED <<uptime, queues, main>>
  BY DEF StoreField
<1>2. /\ QueueOK' /\ Len(txq') <= Cap /\ Len(rxq') <= Cap
      /\ uptime' = uptime /\ uptime \in 0..MaxUptime /\ uptime \in Nat
      /\ PhoneClock' = PhoneClock /\ main' \in {"time", "weather", "done"}
  BY <1>1, InsideKeeps
<1>3. /\ time_state \in [last_sync_time : Nat, time_sync_uptime : Nat, valid : {0, 1}]
      /\ uptime_read \in 0..uptime
      /\ time_state.last_sync_time = msg.epoch /\ msg.epoch <= uptime_read + PhoneOffset
      /\ time_state.time_sync_uptime <= uptime_read
      /\ todo \subseteq {"time_sync_uptime", "valid"}
      /\ "time_sync_uptime" \notin todo => time_state.time_sync_uptime = uptime_read
  BY <1>1 DEF IInv, ClockOK, UpdateOK
<1>4. /\ time_state' \in [last_sync_time : Nat, time_sync_uptime : Nat, valid : {0, 1}]
      /\ time_state'.last_sync_time = msg.epoch
      /\ time_state'.time_sync_uptime <= uptime_read
      /\ "time_sync_uptime" \notin todo' => time_state'.time_sync_uptime = uptime_read
  <2>1. CASE f = "valid"
    <3>1. time_state' = [time_state EXCEPT !.valid = 1]
      BY <2>1 DEF StoreField, Valid
    <3> QED
      BY <1>1, <1>3, <2>1, <3>1
  <2>2. CASE f = "time_sync_uptime"
    <3>1. time_state' = [time_state EXCEPT !.time_sync_uptime = uptime_read]
      BY <2>2 DEF StoreField, SyncUptime
    <3> QED
      BY <1>2, <1>3, <3>1
  <2> QED
    BY <2>1, <2>2
<1>5. ForecastOK'
  BY <1>1 DEF IInv, ForecastOK, Words, StoreField
<1>6. CASE todo' = {}
  <2>1. pc' = "idle" /\ msg' = NoMsg /\ uptime_read' = 0
    BY <1>6 DEF StoreField
  <2>2. time_state'.last_sync_time <= time_state'.time_sync_uptime + PhoneOffset
    BY <1>3, <1>4, <1>6
  <2>3. TypeOK'
    BY <1>2, <1>3, <1>4, <2>1 DEF TypeOK
  <2>4. ClockOK' /\ UpdateOK'
    BY <1>2, <1>4, <2>1, <2>2 DEF ClockOK, UpdateOK
  <2> QED
    BY <1>2, <1>5, <2>3, <2>4 DEF IInv
<1>7. CASE todo' # {}
  <2>1. pc' = pc /\ msg' = msg /\ uptime_read' = uptime_read
    BY <1>7 DEF StoreField
  <2>2. TypeOK'
    BY <1>1, <1>2, <1>3, <1>4, <2>1 DEF IInv, TypeOK
  <2>3. ClockOK'
    BY <1>1, <1>2, <1>4, <2>1 DEF IInv, ClockOK
  <2>4. UpdateOK'
    BY <1>1, <1>3, <1>4, <2>1 DEF UpdateOK
  <2> QED
    BY <1>2, <1>5, <2>2, <2>3, <2>4 DEF IInv
<1> QED
  BY <1>6, <1>7

LEMMA CopyWordKeeps ==
  ASSUME IInv, NEW w \in Words, CopyWord(w)
  PROVE  IInv'
<1>1. /\ pc = "weather" /\ todo' = todo \ {w}
      /\ weather_state' = [weather_state EXCEPT ![w] = Day(msg.epoch)]
      /\ time_state' = time_state /\ uptime_read' = uptime_read
      /\ UNCHANGED <<uptime, queues, main>>
  BY DEF CopyWord
<1>2. /\ QueueOK' /\ Len(txq') <= Cap /\ Len(rxq') <= Cap
      /\ uptime' = uptime /\ uptime \in 0..MaxUptime
      /\ PhoneClock' = PhoneClock /\ main' \in {"time", "weather", "done"}
  BY <1>1, InsideKeeps
<1>3. /\ weather_state' = [v \in Words |-> weather_state'[v]]
      /\ \A v \in Words \ todo' : weather_state'[v] = Day(msg.epoch)
  BY <1>1 DEF IInv, ForecastOK
<1>4. CASE todo' = {}
  <2>1. pc' = "idle" /\ msg' = NoMsg
    BY <1>4 DEF CopyWord
  <2>2. 0 \in Words
    BY SyncArithmetic DEF Words
  <2>3. ForecastOK'
    BY <1>3, <1>4, <2>1, <2>2 DEF ForecastOK, Words
  <2>4. TypeOK' /\ ClockOK' /\ UpdateOK'
    BY <1>1, <1>2, <2>1 DEF IInv, TypeOK, ClockOK, UpdateOK
  <2> QED
    BY <1>2, <2>3, <2>4 DEF IInv
<1>5. CASE todo' # {}
  <2>1. pc' = pc /\ msg' = msg
    BY <1>5 DEF CopyWord
  <2>2. ForecastOK'
    BY <1>1, <1>3, <2>1 DEF IInv, ForecastOK, Words, Day
  <2>3. TypeOK' /\ ClockOK' /\ UpdateOK'
    BY <1>1, <1>2, <2>1 DEF IInv, TypeOK, ClockOK, UpdateOK
  <2> QED
    BY <1>2, <2>2, <2>3 DEF IInv
<1> QED
  BY <1>4, <1>5

(* A request for the queue to the phone *)
LEMMA SubmitKeeps ==
  ASSUME IInv, NEW r \in {"time", "other"}, Submit(r), UNCHANGED <<uptime, rxq>>
  PROVE  QueueOK' /\ Len(txq') <= Cap
<1>1. txq \in Seq({"time", "other"}) /\ Len(txq) <= Cap
  BY DEF IInv, TypeOK, QueueOK
<1>2. Append1(txq, r) \in Seq({"time", "other"}) /\ Len(Append1(txq, r)) <= Cap
  BY <1>1, AppendKeeps
<1>3. txq' \in Seq({"time", "other"}) /\ Len(txq') <= Cap
  BY <1>2 DEF Submit
<1> QED
  BY <1>3 DEF IInv, QueueOK, PhoneClock, IsTime

(* Requests, the link and the phone *)
LEMMA LinkKeeps ==
  ASSUME IInv,
         \/ init_events \/ DatedRequest \/ RequestArrives \/ RequestLost
         \/ AnswerTime \/ AnswerLost \/ PhoneSends \/ TimePasses
  PROVE  IInv'
<1>1. /\ txq \in Seq({"time", "other"}) /\ Len(txq) <= Cap /\ Len(rxq) <= Cap
      /\ uptime \in 0..MaxUptime /\ uptime \in Nat /\ main \in {"time", "weather", "done"}
      /\ QueueOK
  BY SyncArithmetic DEF IInv, TypeOK, QueueOK
<1>2. CASE init_events
  <2>1. /\ UNCHANGED <<uptime, rxq, thread, memory>> /\ main' \in {"time", "weather", "done"}
        /\ \E r \in {"time", "other"} : request_ble_action(r)
    BY <1>2 DEF init_events
  <2>2. PICK r \in {"time", "other"} : request_ble_action(r)
    BY <2>1
  <2>3. CASE Submit(r)
    BY <1>1, <2>1, <2>3, SubmitKeeps, OutsideKeeps
  <2>4. CASE txq' = txq
    <3>1. QueueOK' /\ Len(txq') <= Cap /\ Len(rxq') <= Cap
      BY <1>1, <2>1, <2>4 DEF QueueOK, PhoneClock, IsTime
    <3> QED
      BY <1>1, <2>1, <3>1, OutsideKeeps
  <2> QED
    BY <2>2, <2>3, <2>4 DEF request_ble_action
<1>3. CASE DatedRequest
  <2>1. Submit("other") /\ UNCHANGED <<uptime, rxq, thread, memory, main>>
    BY <1>3 DEF DatedRequest
  <2> QED
    BY <1>1, <2>1, SubmitKeeps, OutsideKeeps
<1>4. CASE RequestArrives \/ RequestLost
  <2>1. txq # <<>> /\ txq' = Tail(txq) /\ UNCHANGED <<uptime, rxq, thread, memory, main>>
    BY <1>4 DEF RequestArrives, RequestLost
  <2>2. txq' \in Seq({"time", "other"}) /\ Len(txq') <= Cap /\ Len(rxq') <= Cap
    BY <1>1, <2>1, SyncArithmetic
  <2>3. QueueOK'
    BY <1>1, <2>1, <2>2 DEF QueueOK, PhoneClock, IsTime
  <2> QED
    BY <1>1, <2>1, <2>2, <2>3, OutsideKeeps
<1>5. CASE AnswerTime \/ PhoneSends
  <2>1. \E m \in {TimeMsg, WeatherMsg, NotificationMsg, BrokenMsg} : Receive(m)
    BY <1>5 DEF AnswerTime, PhoneSends
  <2>2. PICK m \in {TimeMsg, WeatherMsg, NotificationMsg, BrokenMsg} : Receive(m)
    BY <2>1
  <2>3. UNCHANGED <<uptime, txq, main, thread, memory>>
    BY <2>2 DEF Receive
  <2>4. QueueOK' /\ Len(rxq') <= Cap
    BY <1>1, <2>2, <2>3, ReceiveKeeps
  <2> QED
    BY <1>1, <2>3, <2>4, OutsideKeeps
<1>6. CASE AnswerLost
  <2>1. UNCHANGED <<uptime, txq, rxq, main, thread, memory>>
    BY <1>6 DEF AnswerLost
  <2>2. QueueOK' /\ Len(txq') <= Cap /\ Len(rxq') <= Cap
    BY <1>1, <2>1 DEF QueueOK, PhoneClock, IsTime
  <2> QED
    BY <1>1, <2>1, <2>2, OutsideKeeps
<1>7. CASE TimePasses
  <2>1. /\ uptime < MaxUptime /\ uptime' = uptime + 1
        /\ UNCHANGED <<queues, main, thread, memory>>
    BY <1>7 DEF TimePasses
  <2>2. uptime' \in 0..MaxUptime /\ uptime <= uptime'
    BY <1>1, <2>1, SyncArithmetic
  <2>3. QueueOK' /\ Len(txq') <= Cap /\ Len(rxq') <= Cap
    BY <1>1, <2>1, SyncArithmetic DEF QueueOK, queues, PhoneClock, IsTime
  <2> QED
    BY <1>1, <2>1, <2>2, <2>3, OutsideKeeps
<1> QED
  BY <1>2, <1>3, <1>4, <1>5, <1>6, <1>7

LEMMA StepIInv == IInv /\ [Next]_vars => IInv'
<1> SUFFICES ASSUME IInv, [Next]_vars
             PROVE  IInv'
  OBVIOUS
<1>1. CASE UNCHANGED vars
  <2>1. UNCHANGED <<uptime, txq, rxq, main, pc, msg, uptime_read, todo, time_state,
                    weather_state>>
    BY <1>1 DEF vars, queues, thread, memory
  <2> QED
    BY <2>1 DEF IInv, TypeOK, QueueOK, ClockOK, UpdateOK, ForecastOK, PhoneClock, IsTime,
       Words, Day
<1>2. CASE Maintenance
  BY <1>2, handle_ble_responseKeeps, StoreEpochKeeps, ReadUptimeKeeps, StoreFieldKeeps,
     CopyWordKeeps DEF Maintenance
<1>3. CASE \/ init_events \/ DatedRequest \/ RequestArrives \/ RequestLost
           \/ AnswerTime \/ AnswerLost \/ PhoneSends \/ TimePasses
  BY <1>3, LinkKeeps
<1> QED
  BY <1>1, <1>2, <1>3 DEF Next

-----------------------------------------------------------------------------
LEMMA IInvExplainsTick == IInv => TickExplained
<1> SUFFICES ASSUME IInv
             PROVE  TickExplained
  OBVIOUS
<1>1. /\ uptime \in Nat /\ uptime_read \in 0..uptime
      /\ time_state.last_sync_time \in Nat /\ time_state.time_sync_uptime \in Nat
      /\ time_state.time_sync_uptime <= uptime
  BY SyncArithmetic DEF IInv, TypeOK, ClockOK
<1>2. ASSUME time_state.valid = 1
      PROVE  get_date_time = time_state.last_sync_time + uptime - time_state.time_sync_uptime
  BY <1>2 DEF get_date_time
<1>3. ASSUME time_state.valid = 1, pc \in {"uptime", "stores"}
      PROVE  /\ pc = "uptime" => get_date_time >= msg.epoch
             /\ pc = "stores" => get_date_time >= msg.epoch + uptime - uptime_read
  BY <1>1, <1>2, <1>3 DEF IInv, ClockOK, UpdateOK
<1>4. ASSUME time_state.valid = 1, pc \notin {"uptime", "stores"}
      PROVE  get_date_time <= PhoneClock
  BY <1>1, <1>2, <1>4, SyncArithmetic DEF IInv, UpdateOK, PhoneClock
<1>5. ASSUME pc # "weather"
      PROVE  get_curr_weather = weather_state[0]
  <2>1. get_date_time \in Int
    BY <1>1 DEF get_date_time
  <2>2. 1 + (get_date_time % HOURS) \in Words
    BY <2>1, SyncArithmetic DEF Words
  <2> QED
    BY <1>5, <2>2 DEF get_curr_weather, IInv, ForecastOK
<1> QED
  BY <1>3, <1>4, <1>5 DEF TickExplained

(* The stores of an update that have been made agree with the message in    *)
(* hand, in every reachable state.                                          *)
THEOREM SyncInvariant == Spec => []IInv
  BY InitIInv, StepIInv, PTL DEF Spec

(* Both queues stay within their capacity and no time of synchronisation is *)
(* in the future.                                                           *)
THEOREM SyncTypeOK == Spec => []TypeOK
<1>1. IInv => TypeOK
  BY DEF IInv
<1> QED
  BY <1>1, SyncInvariant, PTL

(* What a tick would show between any two stores is explained by messages   *)
(* that have been received.                                                 *)
THEOREM SyncTickExplained == Spec => []TickExplained
  BY IInvExplainsTick, SyncInvariant, PTL

-----------------------------------------------------------------------------
(* The decoder *)

Byte == 0..255
Cursors == [ok : BOOLEAN, idx : Nat, texts : Seq(Seq(Byte))]

(* The string whose length stands at position at, cut to its buffer *)
TextAt(p, at, max) == SubSeq(p, at + 1, at + Lesser(p[at], max - 1))

LEMMA ByteAt ==
  ASSUME NEW p \in Seq(Byte), NEW at \in 1..Len(p)
  PROVE  p[at] \in Nat
<1>1. p[at] \in Byte
  BY ElementOfSeq
<1>2. \A b \in Byte : b \in Nat
  BY DEF Byte
<1> QED
  BY <1>1, <1>2

StringInside(p, c) ==
  c.ok = TRUE /\ c.idx + 1 <= Len(p) /\ c.idx + 1 + p[c.idx + 1] <= Len(p)

(* t is s with e behind it. *)
Grown(s, t, e) ==
  /\ Len(t) = Len(s) + 1 /\ t[Len(s) + 1] = e
  /\ \A i \in 1..Len(s) : t[i] = s[i]

(* One string is there when its length and all of it lie inside the payload,*)
(* and then the cursor stands behind it.                                    *)
LEMMA ExtractOne ==
  ASSUME NEW p \in Seq(Byte), NEW c \in Cursors, NEW max \in Nat \ {0}
  PROVE  /\ extract_lean_string(p, c, max) \in Cursors
         /\ extract_lean_string(p, c, max).ok = TRUE <=> StringInside(p, c)
         /\ StringInside(p, c) =>
              /\ extract_lean_string(p, c, max).idx = c.idx + 1 + p[c.idx + 1]
              /\ Grown(c.texts, extract_lean_string(p, c, max).texts,
                       TextAt(p, c.idx + 1, max))
<1> DEFINE r == extract_lean_string(p, c, max)
           at == c.idx + 1
<1>1. Failed(c) \in Cursors /\ Failed(c).ok = FALSE
  BY DEF Failed, Cursors
<1>2. /\ at \in Nat /\ at >= 1 /\ c.ok \in BOOLEAN /\ c.idx \in Nat
      /\ c.texts \in Seq(Seq(Byte)) /\ Len(p) \in Nat
  BY DEF Cursors
<1>3. CASE c.ok = FALSE \/ c.idx >= Len(p)
  <2>1. r = Failed(c)
    BY <1>3 DEF extract_lean_string
  <2>2. ~StringInside(p, c)
    BY <1>2, <1>3 DEF StringInside
  <2> QED
    BY <1>1, <2>1, <2>2
<1>4. CASE c.ok = TRUE /\ ~(c.idx >= Len(p))
  <2>1. at \in 1..Len(p)
    BY <1>2, <1>4
  <2>2. p[at] \in Nat
    BY <2>1, ByteAt
  <2>3. CASE at + p[at] > Len(p)
    <3>1. r = Failed(c)
      BY <1>4, <2>3 DEF extract_lean_string
    <3>2. ~StringInside(p, c)
      BY <1>2, <2>2, <2>3 DEF StringInside
    <3> QED
      BY <1>1, <3>1, <3>2
  <2>4. CASE ~(at + p[at] > Len(p))
    <3>1. r = Cursor(at + p[at], Append(c.texts, TextAt(p, at, max)))
      BY <1>4, <2>4 DEF extract_lean_string, TextAt
    <3>2. Lesser(p[at], max - 1) \in 0..p[at]
      BY <2>2 DEF Lesser
    <3>3. TextAt(p, at, max) \in Seq(Byte)
      <4>1. at + 1 \in Int /\ at + Lesser(p[at], max - 1) \in Int
            /\ at + Lesser(p[at], max - 1) <= Len(p) /\ at + 1 >= 1
        BY SMTT(40), <1>2, <2>1, <2>2, <2>4, <3>2
      <4>2. ASSUME NEW m \in Int, NEW n \in Int, m >= 1, n <= Len(p)
            PROVE  SubSeq(p, m, n) \in Seq(Byte)
        BY <4>2
      <4> QED
        BY <4>1, <4>2 DEF TextAt
    <3>4. Append(c.texts, TextAt(p, at, max)) \in Seq(Seq(Byte))
      BY <1>2, <3>3
    <3>5. /\ r.ok = TRUE /\ r.idx = at + p[at]
          /\ r.texts = Append(c.texts, TextAt(p, at, max))
      BY <3>1 DEF Cursor
    <3>6. at + p[at] \in Nat
      BY <1>2, <2>2
    <3>7. r \in Cursors
      BY <3>1, <3>4, <3>6 DEF Cursor, Cursors
    <3>8. StringInside(p, c)
      BY <1>2, <1>4, <2>1, <2>2, <2>4 DEF StringInside
    <3>9. Grown(c.texts, Append(c.texts, TextAt(p, at, max)), TextAt(p, at, max))
      BY <1>2, <3>3, AppendProperties DEF Grown
    <3> QED
      BY <3>5, <3>7, <3>8, <3>9
  <2> QED
    BY <2>3, <2>4
<1> QED
  BY <1>2, <1>3, <1>4

(* What TextAt keeps of the string is what the layout says. *)
LEMMA TextIsLaidOut ==
  ASSUME NEW p \in Seq(Byte), NEW at \in 1..Len(p), NEW max \in Nat \ {0}
  PROVE  TextAt(p, at, max) = [j \in 1..Lesser(p[at], max - 1) |-> p[at + j]]
<1>1. p[at] \in Nat
  BY ByteAt
<1>2. Lesser(p[at], max - 1) \in Nat
  BY <1>1 DEF Lesser
<1>3. \A m, n \in Nat : SubSeq(p, m + 1, m + n) = [j \in 1..n |-> p[m + j]]
  <2> SUFFICES ASSUME NEW m \in Nat, NEW n \in Nat
               PROVE  SubSeq(p, m + 1, m + n) = [j \in 1..n |-> p[m + j]]
    OBVIOUS
  <2>1. (m + n) - (m + 1) + 1 = n
    OBVIOUS
  <2>2. \A j \in 1..n : j + (m + 1) - 1 = m + j
    OBVIOUS
  <2> QED
    BY <2>1, <2>2
<1> QED
  BY <1>2, <1>3 DEF TextAt

(* The cursor before the first string and behind each of the four *)
C0 == Cursor(1, <<>>)
C1(p) == extract_lean_string(p, C0, NameMax)
C2(p) == extract_lean_string(p, C1(p), BodyMax)
C3(p) == extract_lean_string(p, C2(p), ActionMax)
C4(p) == extract_lean_string(p, C3(p), DismissMax)

LEMMA CursorChain ==
  ASSUME NEW p \in Seq(Byte)
  PROVE  /\ C0 \in Cursors /\ C1(p) \in Cursors /\ C2(p) \in Cursors
         /\ C3(p) \in Cursors /\ C4(p) \in Cursors
         /\ C0.ok = TRUE /\ C0.idx = 1 /\ C0.texts = <<>>
         /\ C1(p).ok = TRUE <=> StringInside(p, C0)
         /\ C2(p).ok = TRUE <=> StringInside(p, C1(p))
         /\ C3(p).ok = TRUE <=> StringInside(p, C2(p))
         /\ C4(p).ok = TRUE <=> StringInside(p, C3(p))
<1>1. C0 \in Cursors /\ C0.ok = TRUE /\ C0.idx = 1 /\ C0.texts = <<>>
  <2>1. <<>> \in Seq(Seq(Byte))
    OBVIOUS
  <2> QED
    BY <2>1 DEF C0, Cursor, Cursors
<1>2. C1(p) \in Cursors /\ (C1(p).ok = TRUE <=> StringInside(p, C0))
  BY <1>1, ExtractOne, BufferAssumption DEF C1
<1>3. C2(p) \in Cursors /\ (C2(p).ok = TRUE <=> StringInside(p, C1(p)))
  BY <1>2, ExtractOne, BufferAssumption DEF C2
<1>4. C3(p) \in Cursors /\ (C3(p).ok = TRUE <=> StringInside(p, C2(p)))
  BY <1>3, ExtractOne, BufferAssumption DEF C3
<1>5. C4(p) \in Cursors /\ (C4(p).ok = TRUE <=> StringInside(p, C3(p)))
  BY <1>4, ExtractOne, BufferAssumption DEF C4
<1> QED
  BY <1>1, <1>2, <1>3, <1>4, <1>5

(* Where the cursors are, as long as the strings before them are there.     *)
LEMMA CursorMoves ==
  ASSUME NEW p \in Seq(Byte)
  PROVE  /\ StringInside(p, C0) =>
              C1(p).idx = 2 + p[2] /\ Grown(<<>>, C1(p).texts, TextAt(p, 2, NameMax))
         /\ StringInside(p, C1(p)) =>
              /\ C2(p).idx = C1(p).idx + 1 + p[C1(p).idx + 1]
              /\ Grown(C1(p).texts, C2(p).texts, TextAt(p, C1(p).idx + 1, BodyMax))
         /\ StringInside(p, C2(p)) =>
              /\ C3(p).idx = C2(p).idx + 1 + p[C2(p).idx + 1]
              /\ Grown(C2(p).texts, C3(p).texts, TextAt(p, C2(p).idx + 1, ActionMax))
         /\ StringInside(p, C3(p)) =>
              /\ C4(p).idx = C3(p).idx + 1 + p[C3(p).idx + 1]
              /\ Grown(C3(p).texts, C4(p).texts, TextAt(p, C3(p).idx + 1, DismissMax))
<1>1. ASSUME StringInside(p, C0)
      PROVE  C1(p).idx = 2 + p[2] /\ Grown(<<>>, C1(p).texts, TextAt(p, 2, NameMax))
  <2>1. C0 \in Cursors
    BY CursorChain
  <2>2. C0.idx = 1
    BY CursorChain
  <2>3. C0.texts = <<>>
    BY CursorChain
  <2>4. C0.idx + 1 = 2
    BY <2>2
  <2>5. /\ C1(p).idx = C0.idx + 1 + p[C0.idx + 1]
        /\ Grown(C0.texts, C1(p).texts, TextAt(p, C0.idx + 1, NameMax))
    BY <1>1, <2>1, ExtractOne, BufferAssumption DEF C1
  <2> QED
    BY <2>3, <2>4, <2>5
<1>2. ASSUME StringInside(p, C1(p))
      PROVE  /\ C2(p).idx = C1(p).idx + 1 + p[C1(p).idx + 1]
             /\ Grown(C1(p).texts, C2(p).texts, TextAt(p, C1(p).idx + 1, BodyMax))
  BY <1>2, CursorChain, ExtractOne, BufferAssumption DEF C2
<1>3. ASSUME StringInside(p, C2(p))
      PROVE  /\ C3(p).idx = C2(p).idx + 1 + p[C2(p).idx + 1]
             /\ Grown(C2(p).texts, C3(p).texts, TextAt(p, C2(p).idx + 1, ActionMax))
  BY <1>3, CursorChain, ExtractOne, BufferAssumption DEF C3
<1>4. ASSUME StringInside(p, C3(p))
      PROVE  /\ C4(p).idx = C3(p).idx + 1 + p[C3(p).idx + 1]
             /\ Grown(C3(p).texts, C4(p).texts, TextAt(p, C3(p).idx + 1, DismissMax))
  BY <1>4, CursorChain, ExtractOne, BufferAssumption DEF C4
<1> QED
  BY <1>1, <1>2, <1>3, <1>4

LEMMA LengthPositions ==
  ASSUME NEW l
  PROVE  /\ LengthAt(l, 1) = 2 /\ LengthAt(l, 2) = 3 + l[1]
         /\ LengthAt(l, 3) = 4 + l[1] + l[2] /\ LengthAt(l, 4) = 5 + l[1] + l[2] + l[3]
  BY DEF LengthAt

(* A string whose length n stands at a valid cursor, with room behind it.   *)
LEMMA StringThere ==
  ASSUME NEW p, NEW c, NEW at \in Nat, NEW n \in Nat, NEW len \in Nat, Len(p) = len,
         c.ok = TRUE, c.idx + 1 = at, p[at] = n, at + n <= len
  PROVE  StringInside(p, c)
<1>1. at <= len
  OBVIOUS
<1> QED
  BY <1>1 DEF StringInside

(* Strings laid out as documented are found, each cut to its buffer. *)
LEMMA LayoutIsFound ==
  ASSUME NEW p \in Seq(Byte), NEW l \in [1..4 -> Nat], LaidOut(p, l)
  PROVE  C4(p).ok = TRUE /\ C4(p).texts = Texts(p, l)
<1>1. l[1] \in Nat /\ l[2] \in Nat /\ l[3] \in Nat /\ l[4] \in Nat
  OBVIOUS
<1>2. /\ p[2] = l[1] /\ p[3 + l[1]] = l[2] /\ p[4 + l[1] + l[2]] = l[3]
      /\ p[5 + l[1] + l[2] + l[3]] = l[4]
      /\ 5 + l[1] + l[2] + l[3] + l[4] <= Len(p)
  <2>1. /\ LengthAt(l, 1) = 2 /\ LengthAt(l, 2) = 3 + l[1]
        /\ LengthAt(l, 3) = 4 + l[1] + l[2] /\ LengthAt(l, 4) = 5 + l[1] + l[2] + l[3]
    BY LengthPositions
  <2>2. \A i \in 1..4 : p[LengthAt(l, i)] = l[i]
    BY DEF LaidOut
  <2>3. /\ p[LengthAt(l, 1)] = l[1] /\ p[LengthAt(l, 2)] = l[2]
        /\ p[LengthAt(l, 3)] = l[3] /\ p[LengthAt(l, 4)] = l[4]
    BY <2>2
  <2>4. LengthAt(l, 4) + l[4] <= Len(p)
    BY DEF LaidOut
  <2> QED
    BY <2>1, <2>3, <2>4
<1>3. Len(p) \in Nat
  OBVIOUS
<1>room. /\ 2 + l[1] <= Len(p) /\ 3 + l[1] + l[2] <= Len(p)
         /\ 4 + l[1] + l[2] + l[3] <= Len(p) /\ 5 + l[1] + l[2] + l[3] + l[4] <= Len(p)
  <2>1. \A a, b, c, d, e \in Nat :
          5 + a + b + c + d <= e =>
            2 + a <= e /\ 3 + a + b <= e /\ 4 + a + b + c <= e
    OBVIOUS
  <2>2. 5 + l[1] + l[2] + l[3] + l[4] <= Len(p)
    BY <1>2
  <2> QED
    BY SMTT(40), <1>1, <1>3, <2>1, <2>2
<1>at. 3 + l[1] \in Nat /\ 4 + l[1] + l[2] \in Nat /\ 5 + l[1] + l[2] + l[3] \in Nat
  BY SMTT(40), <1>1
<1>4. StringInside(p, C0)
  <2>1. C0.ok = TRUE
    BY CursorChain
  <2>2. C0.idx = 1
    BY CursorChain
  <2>3. C0.idx + 1 = 2
    BY <2>2
  <2>4. p[2] = l[1]
    BY <1>2
  <2> QED
    BY <1>1, <1>3, <1>room, <2>1, <2>3, <2>4, StringThere
<1> DEFINE t1 == TextAt(p, 2, NameMax)
           t2 == TextAt(p, 3 + l[1], BodyMax)
           t3 == TextAt(p, 4 + l[1] + l[2], ActionMax)
           t4 == TextAt(p, 5 + l[1] + l[2] + l[3], DismissMax)
<1> HIDE DEF t1, t2, t3, t4
<1>5. C1(p).idx = 2 + l[1] /\ Len(C1(p).texts) = 1 /\ C1(p).texts[1] = t1
  <2>1. C1(p).idx = 2 + p[2] /\ Grown(<<>>, C1(p).texts, t1)
    BY <1>4, CursorMoves DEF t1
  <2>2. Len(<<>>) = 0
    OBVIOUS
  <2>3. Len(C1(p).texts) = 1 /\ C1(p).texts[1] = t1
    BY <2>1, <2>2 DEF Grown
  <2> QED
    BY <1>2, <2>1, <2>3
<1>6. C1(p).idx + 1 = 3 + l[1] /\ StringInside(p, C1(p))
  <2>1. C1(p).ok = TRUE
    BY <1>4, CursorChain
  <2>2. C1(p).idx + 1 = 3 + l[1]
    BY <1>1, <1>5
  <2>3. p[3 + l[1]] = l[2]
    BY <1>2
  <2> QED
    BY <1>1, <1>3, <1>at, <1>room, <2>1, <2>2, <2>3, StringThere
<1>7. /\ C2(p).idx = 3 + l[1] + l[2]
      /\ Len(C2(p).texts) = 2 /\ C2(p).texts[1] = t1 /\ C2(p).texts[2] = t2
  <2>1. /\ C2(p).idx = C1(p).idx + 1 + p[C1(p).idx + 1]
        /\ Grown(C1(p).texts, C2(p).texts, TextAt(p, C1(p).idx + 1, BodyMax))
    BY <1>6, CursorMoves
  <2>2. C2(p).idx = (3 + l[1]) + l[2]
    BY <1>2, <1>6, <2>1
  <2>3. Grown(C1(p).texts, C2(p).texts, t2)
    BY <1>6, <2>1 DEF t2
  <2>4. Len(C2(p).texts) = 2 /\ C2(p).texts[1] = t1 /\ C2(p).texts[2] = t2
    BY <1>5, <2>3 DEF Grown
  <2> QED
    BY <1>1, <2>2, <2>4
<1>8. C2(p).idx + 1 = 4 + l[1] + l[2] /\ StringInside(p, C2(p))
  <2>1. C2(p).ok = TRUE
    BY <1>6, CursorChain
  <2>2. C2(p).idx + 1 = 4 + l[1] + l[2]
    BY <1>1, <1>7
  <2>3. p[4 + l[1] + l[2]] = l[3]
    BY <1>2
  <2> QED
    BY <1>1, <1>3, <1>at, <1>room, <2>1, <2>2, <2>3, StringThere
<1>9. /\ C3(p).idx = 4 + l[1] + l[2] + l[3]
      /\ Len(C3(p).texts) = 3 /\ C3(p).texts[1] = t1 /\ C3(p).texts[2] = t2
      /\ C3(p).texts[3] = t3
  <2>1. /\ C3(p).idx = C2(p).idx + 1 + p[C2(p).idx + 1]
        /\ Grown(C2(p).texts, C3(p).texts, TextAt(p, C2(p).idx + 1, ActionMax))
    BY <1>8, CursorMoves
  <2>2. C3(p).idx = (4 + l[1] + l[2]) + l[3]
    BY <1>2, <1>8, <2>1
  <2>3. Grown(C2(p).texts, C3(p).texts, t3)
    BY <1>8, <2>1 DEF t3
  <2>4. /\ Len(C3(p).texts) = 3 /\ C3(p).texts[1] = t1 /\ C3(p).texts[2] = t2
        /\ C3(p).texts[3] = t3
    BY <1>7, <2>3 DEF Grown
  <2> QED
    BY <1>1, <2>2, <2>4
<1>10. C3(p).idx + 1 = 5 + l[1] + l[2] + l[3] /\ StringInside(p, C3(p))
  <2>1. C3(p).ok = TRUE
    BY <1>8, CursorChain
  <2>2. C3(p).idx + 1 = 5 + l[1] + l[2] + l[3]
    BY SMTT(40), <1>1, <1>9
  <2>3. p[5 + l[1] + l[2] + l[3]] = l[4]
    BY <1>2
  <2> QED
    BY <1>1, <1>3, <1>at, <1>room, <2>1, <2>2, <2>3, StringThere
<1>11. /\ Len(C4(p).texts) = 4 /\ C4(p).texts[1] = t1 /\ C4(p).texts[2] = t2
       /\ C4(p).texts[3] = t3 /\ C4(p).texts[4] = t4
  <2>1. Grown(C3(p).texts, C4(p).texts, TextAt(p, C3(p).idx + 1, DismissMax))
    BY <1>10, CursorMoves
  <2>2. Grown(C3(p).texts, C4(p).texts, t4)
    BY <1>10, <2>1 DEF t4
  <2> QED
    BY <1>9, <2>2 DEF Grown
<1>12. /\ 2 \in 1..Len(p) /\ 3 + l[1] \in 1..Len(p) /\ 4 + l[1] + l[2] \in 1..Len(p)
       /\ 5 + l[1] + l[2] + l[3] \in 1..Len(p)
  <2>1. 5 + l[1] + l[2] + l[3] + l[4] <= Len(p)
    BY <1>2
  <2> QED
    BY SMTT(40), <1>1, <1>3, <2>1
<1>13. /\ Texts(p, l)[1] = [j \in 1..Lesser(l[1], NameMax - 1) |-> p[2 + j]]
       /\ Texts(p, l)[2] = [j \in 1..Lesser(l[2], BodyMax - 1) |-> p[3 + l[1] + j]]
       /\ Texts(p, l)[3] = [j \in 1..Lesser(l[3], ActionMax - 1) |-> p[4 + l[1] + l[2] + j]]
       /\ Texts(p, l)[4] =
            [j \in 1..Lesser(l[4], DismissMax - 1) |-> p[5 + l[1] + l[2] + l[3] + j]]
       /\ Texts(p, l) = [i \in 1..4 |-> Texts(p, l)[i]]
  BY SMTT(40), LengthPositions DEF Texts, BufferOf
<1>14. /\ Texts(p, l)[1] = t1 /\ Texts(p, l)[2] = t2
       /\ Texts(p, l)[3] = t3 /\ Texts(p, l)[4] = t4
  <2>1. /\ t1 = [j \in 1..Lesser(p[2], NameMax - 1) |-> p[2 + j]]
        /\ t2 = [j \in 1..Lesser(p[3 + l[1]], BodyMax - 1) |-> p[3 + l[1] + j]]
        /\ t3 = [j \in 1..Lesser(p[4 + l[1] + l[2]], ActionMax - 1) |->
                   p[4 + l[1] + l[2] + j]]
        /\ t4 = [j \in 1..Lesser(p[5 + l[1] + l[2] + l[3]], DismissMax - 1) |->
                   p[5 + l[1] + l[2] + l[3] + j]]
    BY <1>12, TextIsLaidOut, BufferAssumption DEF t1, t2, t3, t4
  <2> QED
    BY <1>2, <1>13, <2>1
<1>15. C4(p).texts = [i \in 1..4 |-> Texts(p, l)[i]]
  <2>1. C4(p).texts \in Seq(Seq(Byte))
    <3>1. C4(p) \in Cursors
      BY CursorChain
    <3> QED
      BY <3>1 DEF Cursors
  <2>2. C4(p).texts = [i \in 1..4 |-> C4(p).texts[i]]
    <3>1. Len(C4(p).texts) = 4
      BY <1>11
    <3>2. \A q \in Seq(Seq(Byte)) : Len(q) = 4 => q = [i \in 1..4 |-> q[i]]
      OBVIOUS
    <3> QED
      BY <2>1, <3>1, <3>2
  <2>3. \A i \in 1..4 : C4(p).texts[i] = Texts(p, l)[i]
    BY <1>11, <1>14
  <2> QED
    BY <2>2, <2>3
<1> QED
  BY <1>10, <1>13, <1>15, CursorChain

(* What is found was laid out as documented. *)
LEMMA FoundIsLaidOut ==
  ASSUME NEW p \in Seq(Byte), C4(p).ok = TRUE
  PROVE  \E l \in [1..4 -> {p[i] : i \in DOMAIN p}] : LaidOut(p, l)
<1>1. /\ StringInside(p, C0) /\ StringInside(p, C1(p)) /\ StringInside(p, C2(p))
      /\ StringInside(p, C3(p))
  BY CursorChain DEF StringInside
<1> DEFINE a2 == C1(p).idx + 1
           a3 == C2(p).idx + 1
           a4 == C3(p).idx + 1
           l == [i \in 1..4 |-> CASE i = 1 -> p[2] [] i = 2 -> p[a2]
                                   [] i = 3 -> p[a3] [] i = 4 -> p[a4]]
<1>2. /\ C0.idx + 1 = 2 /\ a2 \in Nat /\ a3 \in Nat /\ a4 \in Nat
      /\ a2 >= 1 /\ a3 >= 1 /\ a4 >= 1
  <2>1. C1(p) \in Cursors /\ C2(p) \in Cursors /\ C3(p) \in Cursors
    BY CursorChain
  <2>2. C1(p).idx \in Nat /\ C2(p).idx \in Nat /\ C3(p).idx \in Nat
    BY <2>1 DEF Cursors
  <2>3. C0.idx = 1
    BY CursorChain
  <2> QED
    BY <2>2, <2>3
<1>3. 2 \in 1..Len(p) /\ a2 \in 1..Len(p) /\ a3 \in 1..Len(p) /\ a4 \in 1..Len(p)
  BY <1>1, <1>2 DEF StringInside
<1>4. p[2] \in Nat /\ p[a2] \in Nat /\ p[a3] \in Nat /\ p[a4] \in Nat
  BY <1>3, ByteAt
<1>5. a2 = 3 + p[2] /\ a3 = a2 + 1 + p[a2] /\ a4 = a3 + 1 + p[a3]
  <2>1. C1(p).idx = 2 + p[2]
    BY <1>1, CursorMoves
  <2>2. C2(p).idx = C1(p).idx + 1 + p[C1(p).idx + 1]
    BY <1>1, CursorMoves
  <2>3. C3(p).idx = C2(p).idx + 1 + p[C2(p).idx + 1]
    BY <1>1, CursorMoves
  <2>4. a2 = 3 + p[2]
    BY <1>4, <2>1
  <2>5. a3 = (C1(p).idx + 1 + p[a2]) + 1
    BY <2>2
  <2>6. a4 = (C2(p).idx + 1 + p[a3]) + 1
    BY <2>3
  <2>7. a3 = a2 + 1 + p[a2]
    BY <1>2, <1>4, <2>5
  <2>8. a4 = a3 + 1 + p[a3]
    BY <1>2, <1>4, <2>6
  <2> QED
    BY <2>4, <2>7, <2>8
<1>6. l[1] = p[2] /\ l[2] = p[a2] /\ l[3] = p[a3] /\ l[4] = p[a4]
  OBVIOUS
<1>7. l \in [1..4 -> {p[i] : i \in DOMAIN p}]
  <2>1. DOMAIN p = 1..Len(p)
    OBVIOUS
  <2>2. \A i \in 1..4 : l[i] \in {p[j] : j \in DOMAIN p}
    BY <1>3, <1>6, <2>1
  <2> QED
    BY <2>2
<1> HIDE DEF a2, a3, a4, l
<1>8. /\ LengthAt(l, 1) = 2 /\ LengthAt(l, 2) = a2 /\ LengthAt(l, 3) = a3
      /\ LengthAt(l, 4) = a4
  <2>1. /\ LengthAt(l, 1) = 2 /\ LengthAt(l, 2) = 3 + l[1]
        /\ LengthAt(l, 3) = 4 + l[1] + l[2] /\ LengthAt(l, 4) = 5 + l[1] + l[2] + l[3]
    BY LengthPositions
  <2>2. l[1] \in Nat /\ l[2] \in Nat /\ l[3] \in Nat
    BY <1>4, <1>6
  <2>3. a2 = 3 + l[1] /\ a3 = a2 + 1 + l[2] /\ a4 = a3 + 1 + l[3]
    BY <1>5, <1>6
  <2>4. a3 = 4 + l[1] + l[2]
    BY SMTT(40), <2>2, <2>3
  <2>5. a4 = 5 + l[1] + l[2] + l[3]
    <3>1. a4 = (4 + l[1] + l[2]) + 1 + l[3]
      BY <2>3, <2>4
    <3>2. \A x, y, z \in Nat : (4 + x + y) + 1 + z = 5 + x + y + z
      OBVIOUS
    <3> QED
      BY <2>2, <3>1, <3>2
  <2> QED
    BY <2>1, <2>3, <2>4, <2>5
<1>9. a4 + p[a4] <= Len(p)
  BY <1>1 DEF StringInside, a4
<1>10. \A i \in 1..4 : p[LengthAt(l, i)] = l[i]
  BY <1>6, <1>8
<1> QED
  BY <1>6, <1>7, <1>8, <1>9, <1>10 DEF LaidOut

(* Every notification payload is decoded as its documentation lays it out,  *)
(* or refused when it is not laid out so.                                   *)
THEOREM DecoderFollowsLayout == DecodesLayout
<1> SUFFICES ASSUME NEW p \in Payloads
             PROVE  LET c == parse_notification_payload(p)
                        layouts == {l \in [1..4 -> {p[i] : i \in DOMAIN p}] :
                                      Len(p) >= MinLen /\ LaidOut(p, l)}
                    IN  /\ c.ok = (layouts # {})
                        /\ \A l \in layouts : c.texts = Texts(p, l)
  BY DEF DecodesLayout
<1> DEFINE c == parse_notification_payload(p)
           layouts == {l \in [1..4 -> {p[i] : i \in DOMAIN p}] :
                         Len(p) >= MinLen /\ LaidOut(p, l)}
<1>1. p \in Seq(Byte)
  BY SyncAssumption DEF Byte
<1>2. CASE Len(p) < MinLen
  <2>1. c = Failed(Cursor(0, <<>>))
    BY <1>2 DEF parse_notification_payload
  <2>2. c.ok = FALSE
    BY <2>1 DEF Failed, Cursor
  <2>3. layouts = {}
    BY <1>1, <1>2 DEF MinLen
  <2> QED
    BY <2>2, <2>3
<1>3. CASE ~(Len(p) < MinLen)
  <2>1. c = C4(p)
    BY <1>3 DEF parse_notification_payload, C0, C1, C2, C3, C4
  <2>2. c.ok \in BOOLEAN
    BY <1>1, <2>1, CursorChain DEF Cursors
  <2>3. ASSUME NEW l \in layouts
        PROVE  c.ok = TRUE /\ c.texts = Texts(p, l)
    <3>1. \A i \in DOMAIN p : p[i] \in Nat
      BY <1>1, ByteAt
    <3>2. l \in [1..4 -> Nat]
      BY <3>1
    <3> QED
      BY <1>1, <2>1, <3>2, LayoutIsFound
  <2>4. c.ok = TRUE => layouts # {}
    <3>1. Len(p) >= MinLen
      BY <1>1, <1>3 DEF MinLen
    <3> QED
      BY <1>1, <2>1, <3>1, FoundIsLaidOut
  <2>5. c.ok = (layouts # {})
    BY <2>2, <2>3, <2>4
  <2> QED
    BY <2>3, <2>5
<1> QED
  BY <1>1, <1>2, <1>3 DEF MinLen

(* No notification that the watch takes in hand is decoded in another way.  *)
THEOREM SyncNotificationDecoded == Spec => []NotificationDecoded
<1>1. NotificationDecoded
  BY DecoderFollowsLayout DEF NotificationDecoded
<1> QED
  BY <1>1, PTL
=============================================================================
