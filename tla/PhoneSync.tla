----------------------------- MODULE PhoneSync -----------------------------
(***************************************************************************)
(* Clock and forecast, from the request at start-up to what the watch face *)
(* shows: init_events and the request handler, the two message queues, the *)
(* maintenance thread with process_rx_buffers and handle_ble_response, the *)
(* shared state of managers/persistance_manager.c and the getters of       *)
(* common_utils.c.                                                         *)
(*                                                                         *)
(* The state is written without a lock, one store at a time.  The tick of  *)
(* the watch face, on the cooperative system work queue, may read it       *)
(* between any two stores: what it would show is get_date_time and         *)
(* get_curr_weather, in every state.  The queues are the ones that BleFifo *)
(* implements.  The phone's application is not part of the repository; it  *)
(* answers requests and sends what it likes besides.                       *)
(***************************************************************************)
EXTENDS BlePayloads, FiniteSets

CONSTANTS
  Cap,        \* messages a queue holds
  HOURS,      \* hours of a day and of a forecast, 24 in the code
  PhoneOffset, \* the phone's clock minus the watch's uptime
  MaxUptime,
  Payloads    \* of notifications, sequences of bytes

ASSUME SyncAssumption ==
  /\ Cap \in Nat \ {0} /\ HOURS \in Nat \ {0}
  /\ PhoneOffset \in Nat /\ MaxUptime \in Nat
  /\ Payloads \subseteq Seq(0..255)

VARIABLES
  uptime,        \* k_uptime_get, in units of the clock
  txq, rxq,      \* messages to the phone (for the time, others) and from it
  asked,         \* the phone has been asked for the time and not answered
  main,          \* what init_events asks for next
  pc,            \* the maintenance thread
  msg,           \* the message it has taken
  uptime_read,   \* what k_uptime_get returned to it
  todo,          \* stores that are left
  time_state,    \* last_sync_time, time_sync_uptime, valid
  weather_state, \* for expires_at (0) and each hour: the day it is of
  lost           \* history: a request for the time was refused, or it or its answer lost

queues == <<txq, rxq, asked>>
thread == <<pc, msg, uptime_read, todo>>
memory == <<time_state, weather_state>>
vars == <<uptime, queues, main, thread, memory, lost>>

PhoneClock == uptime + PhoneOffset

(* A message from the phone: its opcode, its length and the first four      *)
(* bytes of its payload.  A forecast starts with the last second of its day.*)
TimeLen == 4
WeatherLen == 4 + 6 * 24
TimeMsg == [op |-> "time", len |-> TimeLen, epoch |-> PhoneClock]
Day(epoch) == epoch \div HOURS
WeatherMsg == [op |-> "weather", len |-> WeatherLen,
               epoch |-> HOURS * (Day(PhoneClock) + 1) - 1]
BrokenMsg == [op |-> "time", len |-> 0, epoch |-> 0]
NotificationMsg == [op |-> "notification", len |-> MinLen, epoch |-> 0]
NoMsg == [op |-> "none", len |-> 0, epoch |-> 0]

Words == 0..HOURS
NoDay == -1  \* a forecast never received: all bytes zero

IsTime(m) == m.op = "time" /\ m.len = TimeLen

-----------------------------------------------------------------------------
(* Both queues drop their oldest message when full. *)

AppendAlways(q, m) == Append(q, m)  \* mutant
Append1(q, m) == Append(IF Len(q) = Cap THEN Tail(q) ELSE q, m)

(* submit_ble_request and the queue behind it *)
Submit(r) ==
  /\ txq' = Append1(txq, r)
  /\ lost' = (lost \/ (Len(txq) = Cap /\ Head(txq) = "time"))

(* A page without an identifier may not ask: a key may have left the watch  *)
(* face before main gets here.  (On the application page it is the          *)
(* identifier of no application, a NULL pointer, and the watch crashes.)    *)
request_ble_action(r) ==
  \/ Submit(r)
  \/ lost' = (lost \/ r = "time") /\ UNCHANGED txq

(* The watch asks for the time and the weather once. *)
init_events ==
  /\ \/ main = "time" /\ main' = "weather" /\ request_ble_action("time")
     \/ main = "weather" /\ main' = "done" /\ request_ble_action("other")
  /\ UNCHANGED <<uptime, rxq, asked, thread, memory>>

(* request_ble_resource of an application *)
DatedRequest ==
  /\ Submit("other")
  /\ UNCHANGED <<uptime, rxq, asked, main, thread, memory>>

(* The curfew hook sends the oldest request; it arrives or is lost. *)
RequestArrives ==
  /\ txq # <<>> /\ txq' = Tail(txq)
  /\ asked' = (asked \/ Head(txq) = "time")
  /\ UNCHANGED <<uptime, rxq, main, thread, memory, lost>>

RequestLost ==
  /\ txq # <<>> /\ txq' = Tail(txq)
  /\ lost' = (lost \/ Head(txq) = "time")
  /\ UNCHANGED <<uptime, rxq, asked, main, thread, memory>>

(* mw_rx_write_cb: the phone's message is parsed and queued. *)
Receive(m) ==
  /\ rxq' = Append1(rxq, m)
  /\ lost' = (lost \/ (Len(rxq) = Cap /\ IsTime(Head(rxq))))
  /\ UNCHANGED <<uptime, txq, main, thread, memory>>

AnswerTime == asked /\ asked' = FALSE /\ Receive(TimeMsg)

AnswerLost ==
  /\ asked /\ asked' = FALSE /\ lost' = TRUE
  /\ UNCHANGED <<uptime, txq, rxq, main, thread, memory>>

(* Answers to the other requests, and what the phone sends of itself.  To   *)
(* this state a dated forecast is what a notification is.                   *)
PhoneSends ==
  /\ \E m \in {TimeMsg, WeatherMsg, NotificationMsg, BrokenMsg} : Receive(m)
  /\ UNCHANGED asked

TimePasses ==
  /\ uptime < MaxUptime /\ uptime' = uptime + 1
  /\ UNCHANGED <<queues, main, thread, memory, lost>>

-----------------------------------------------------------------------------
(* The maintenance thread *)

(* process_rx_buffers takes the oldest message and handle_ble_response      *)
(* looks at its opcode and its length.  A notification leaves this state    *)
(* alone, a message of a wrong length is dropped.                           *)
handle_ble_response ==
  /\ pc = "idle" /\ rxq # <<>>
  /\ rxq' = Tail(rxq)
  /\ LET m == Head(rxq) IN
       \/ /\ IsTime(m)
          /\ pc' = "epoch" /\ msg' = m /\ UNCHANGED todo
       \/ /\ m.op = "weather" /\ m.len = WeatherLen
          /\ pc' = "weather" /\ msg' = m /\ todo' = Words
       \/ /\ ~IsTime(m) /\ ~(m.op = "weather" /\ m.len = WeatherLen)
          /\ UNCHANGED <<pc, msg, todo>>
  /\ UNCHANGED <<uptime, txq, asked, main, uptime_read, memory, lost>>

(* update_persistant_time_state.  The call of k_uptime_get parts the first  *)
(* store from the others; the compiler may swap those two.                  *)
StoreEpoch ==
  /\ pc = "epoch" /\ pc' = "uptime"
  /\ time_state' = [time_state EXCEPT !.last_sync_time = msg.epoch]
  /\ UNCHANGED <<uptime, queues, main, msg, uptime_read, todo, weather_state, lost>>

ReadUptime ==
  /\ pc = "uptime" /\ pc' = "stores"
  /\ uptime_read' = uptime
  /\ todo' = {"time_sync_uptime", "valid"}
  /\ UNCHANGED <<uptime, queues, main, msg, memory, lost>>

OnlyFirstUptime ==  \* mutant
  IF time_state.valid = 0 THEN uptime_read ELSE time_state.time_sync_uptime
SyncUptime == uptime_read
NeverValid == 0  \* mutant
Valid == 1

StoreField(f) ==
  /\ pc = "stores" /\ f \in todo
  /\ time_state' = IF f = "valid" THEN [time_state EXCEPT !.valid = Valid]
                   ELSE [time_state EXCEPT !.time_sync_uptime = SyncUptime]
  /\ todo' = todo \ {f}
  /\ IF todo' = {}
     THEN pc' = "idle" /\ msg' = NoMsg /\ uptime_read' = 0
     ELSE UNCHANGED <<pc, msg, uptime_read>>
  /\ UNCHANGED <<uptime, queues, main, weather_state, lost>>

(* update_persistant_weather_state: memcpy copies in any order. *)
CopyWord(w) ==
  /\ pc = "weather" /\ w \in todo
  /\ weather_state' = [weather_state EXCEPT ![w] = Day(msg.epoch)]
  /\ todo' = todo \ {w}
  /\ IF todo' = {} THEN pc' = "idle" /\ msg' = NoMsg ELSE UNCHANGED <<pc, msg>>
  /\ UNCHANGED <<uptime, queues, main, uptime_read, time_state, lost>>

-----------------------------------------------------------------------------
(* The getters, as the tick would call them now *)

(* Before the first time message the clock stands at midnight. *)
get_date_time ==
  IF time_state.valid = 1
  THEN time_state.last_sync_time + uptime - time_state.time_sync_uptime
  ELSE 0

get_curr_weather == weather_state[1 + (get_date_time % HOURS)]

-----------------------------------------------------------------------------
Init ==
  /\ uptime = 0
  /\ txq = <<>> /\ rxq = <<>> /\ asked = FALSE /\ main = "time"
  /\ pc = "idle" /\ msg = NoMsg /\ uptime_read = 0 /\ todo = {}
  /\ time_state = [last_sync_time |-> 0, time_sync_uptime |-> 0, valid |-> 0]
  /\ weather_state = [w \in Words |-> NoDay]
  /\ lost = FALSE

Maintenance ==
  \/ handle_ble_response
  \/ StoreEpoch \/ ReadUptime
  \/ \E f \in {"time_sync_uptime", "valid"} : StoreField(f)
  \/ \E w \in Words : CopyWord(w)

Next ==
  \/ init_events \/ DatedRequest
  \/ RequestArrives \/ RequestLost
  \/ AnswerTime \/ AnswerLost \/ PhoneSends
  \/ TimePasses
  \/ Maintenance

Spec == Init /\ [][Next]_vars

(* The maintenance thread drains the queue in every work window, and the    *)
(* curfew hook sends.  The phone is there in the end, and answers.          *)
FairSpec ==
  /\ Spec
  /\ WF_vars(init_events) /\ WF_vars(RequestArrives) /\ WF_vars(AnswerTime)
  /\ WF_vars(Maintenance)

-----------------------------------------------------------------------------
(* Properties *)

TypeOK ==
  /\ uptime \in 0..MaxUptime
  /\ Len(txq) <= Cap /\ Len(rxq) <= Cap
  /\ pc \in {"idle", "epoch", "uptime", "stores", "weather"}
  /\ main \in {"time", "weather", "done"}
  /\ (pc = "idle") = (msg = NoMsg)
  /\ time_state.valid \in {0, 1}
  /\ time_state.time_sync_uptime <= uptime

(* A tick at any moment, also in the middle of an update, is explained by   *)
(* time messages.  At rest the face is never ahead of the phone, however    *)
(* long messages waited.  A tick that interrupts an update between two of   *)
(* its stores may be ahead by the time since the update before, but is not  *)
(* behind the clock that is being set.  The hour of the forecast that it    *)
(* shows is of the day of expires_at, unless the forecast is being copied.  *)
TickExplained ==
  /\ time_state.valid = 1 =>
       /\ pc = "uptime" => get_date_time >= msg.epoch
       /\ pc = "stores" => get_date_time >= msg.epoch + uptime - uptime_read
       /\ pc \notin {"uptime", "stores"} => get_date_time <= PhoneClock
  /\ pc # "weather" => get_curr_weather = weather_state[0]

DecodesLayout ==
  \A p \in Payloads :
    LET c == parse_notification_payload(p)
        layouts == {l \in [1..4 -> {p[i] : i \in DOMAIN p}] : Len(p) >= MinLen /\ LaidOut(p, l)}
    IN  /\ c.ok = (layouts # {})
        /\ \A l \in layouts : c.texts = Texts(p, l)

(* Whatever the bytes of a notification in hand, its strings are those of   *)
(* the documented layout (ble_response_handler.c:112-150), each cut to its  *)
(* buffer, and it is refused when there is no such layout: no length byte   *)
(* leads a string over the end of the payload, none that just fits is lost. *)
NotificationDecoded == rxq # <<>> /\ Head(rxq).op = "notification" => DecodesLayout

(* The clock is set in the end, with one request at start-up and no retry,  *)
(* unless the request was refused or it or an answer lost on the way.       *)
SyncCompletes == <>(time_state.valid = 1 \/ lost)
=============================================================================
