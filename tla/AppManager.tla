----------------------------- MODULE AppManager -----------------------------
(***************************************************************************)
(* Pages, applications and their answers: the pages of ui_manager.c, the   *)
(* application manager (app_manager.c, ui/appmgr_ui), the weather          *)
(* application (weather_ui.c), and the way of an answer from the phone to  *)
(* it (event_manager.c, send_app_update).                                  *)
(*                                                                         *)
(* The LVGL thread runs the key callbacks, each an atomic step.  Workers   *)
(* run send_app_update and may be preempted, suspended (RuntimeManager) or *)
(* killed by the hard watchdog between any two accesses to shared state.   *)
(* Dates are day numbers; today is Today.  The settings application stands *)
(* for one without navigable objects and without an event handler.         *)
(***************************************************************************)
EXTENDS Integers, Sequences

CONSTANTS
  Workers,
  TOTAL_HOURS,  \* hours of a forecast
  MaxDays,      \* bound: days between today and a selected date
  MaxAsked      \* messages the BLE queue holds

ASSUME AppAssumption ==
  /\ TOTAL_HOURS \in Nat \ {0} /\ MaxDays \in Nat /\ MaxAsked \in Nat \ {0}

VARIABLES
  page,        \* curr_watch_state
  curr_app, is_app_running,
  app_root_cont, app_scr,   \* not NULL
  focus,       \* the focused object
  widgets,     \* the weather application's pointers are not NULL
  dt, date_day_offset, date_active_held, custom_date_active,
  shown,       \* the date that date_lbl shows
  current_hour_offset,
  hourly_forecast,          \* the date it is for, or Zero or Garbage
  loading_spinner, hidden,  \* not NULL; single_card is hidden
  asked,       \* dates requested from the phone and not yet answered
  frame,       \* what arg1 of a work item points to: the stack frame of
               \* handle_event on the maintenance thread
  queued,      \* send_app_update items in runtime_msgq
  pc,          \* where each worker is in send_app_update
  loaded       \* curr_app as a worker read it when it checked for NULL

screen == <<page, app_root_cont, focus>>
apps == <<curr_app, is_app_running, app_scr, widgets>>
date == <<dt, date_day_offset, date_active_held, custom_date_active, shown>>
forecast == <<current_hour_offset, hourly_forecast, loading_spinner, hidden>>
answers == <<asked, frame, queued>>
work == <<pc, loaded>>
vars == <<screen, apps, date, forecast, answers, work>>

NULL == "NULL"
Apps == {"weather", "settings"}
Today == 0
Days == (-MaxDays)..MaxDays
Hours == 0..(TOTAL_HOURS - 1)
Zero == MaxDays + 1      \* a forecast of zeroes
Garbage == MaxDays + 2   \* a frame that later calls wrote over

Pages == <<"NOTIFY", "WATCHFACE", "APP">>
PageNumber == CHOOSE i \in 1..3 : Pages[i] = page
AppFocus == {"scr", "date", "panel", "card"}

-----------------------------------------------------------------------------
(* Keys on the tab view: handle_left_action_on_root and                     *)
(* handle_right_action_on_root, each close_curr_page then show_page.        *)

(* The focus leaves the objects that are deleted with the page; the         *)
(* notification page takes it.                                              *)
GoToPage(i) ==
  /\ i \in DOMAIN Pages
  /\ page' = Pages[i]
  /\ app_root_cont' = (page' = "APP")
  /\ focus' = IF page' = "NOTIFY" THEN "notify" ELSE "tabview"
  /\ UNCHANGED <<apps, date, forecast, answers, work>>

(* Objects whose LEFT and RIGHT reach the tab view; the application's       *)
(* screen and the grid stop these keys.  Mutant: the screen does not.       *)
BubblesFromApp == {"tabview", "notify", "scr"}
BubblesToRoot == {"tabview", "notify"}

RootKey(step) == focus \in BubblesToRoot /\ GoToPage(PageNumber + step)

(* ENTER on the tab view goes to the first focusable object of the page,    *)
(* ESC in the grid of applications back to the tab view.                    *)
EnterPicker ==
  /\ focus = "tabview" /\ page = "APP" /\ focus' = "picker"
  /\ UNCHANGED <<page, app_root_cont, apps, date, forecast, answers, work>>

LeavePicker ==
  /\ focus = "picker" /\ focus' = "tabview"
  /\ UNCHANGED <<page, app_root_cont, apps, date, forecast, answers, work>>

-----------------------------------------------------------------------------
(* The application manager *)

(* draw_app_ui of the weather application *)
DrawWeather ==
  /\ widgets' = TRUE
  /\ date_active_held' = FALSE /\ date_day_offset' = 0
  /\ custom_date_active' = FALSE
  /\ dt' = Today /\ shown' = Today /\ hourly_forecast' = Today
  /\ loading_spinner' = FALSE /\ hidden' = FALSE
  /\ current_hour_offset' \in Hours

(* open_app, on ENTER in the grid, and create_app_screen *)
open_app(app) ==
  /\ focus = "picker"
  /\ curr_app' = app /\ is_app_running' = TRUE /\ app_scr' = TRUE
  /\ focus' = "scr"
  /\ IF app = "weather" THEN DrawWeather ELSE UNCHANGED <<widgets, date, forecast>>
  /\ UNCHANGED <<page, app_root_cont, answers, work>>

close_curr_app ==
  IF is_app_running
  THEN /\ is_app_running' = FALSE /\ curr_app' = NULL
       /\ IF curr_app = "weather"
          THEN widgets' = FALSE /\ loading_spinner' = FALSE
          ELSE UNCHANGED <<widgets, loading_spinner>>
  ELSE UNCHANGED <<curr_app, is_app_running, widgets, loading_spinner>>

(* On ESC on the application's screen.  LVGL moves the focus to another     *)
(* object of the group.                                                     *)
handle_app_scr_close ==
  /\ focus = "scr" /\ app_scr
  /\ close_curr_app
  /\ app_scr' = FALSE
  /\ focus' \in {"picker", "tabview"}
  /\ UNCHANGED <<page, app_root_cont, date, current_hour_offset, hourly_forecast,
                 hidden, answers, work>>

-----------------------------------------------------------------------------
(* The weather application's keys *)

(* submit_ble_request with the weather application's id; the queue drops    *)
(* its oldest message when it is full.  Mutants: it does not, or it refuses *)
(* the new one.                                                             *)
AppendAlways(day) == asked' = Append(asked, day)
RefuseNewest(day) ==
  asked' = IF Len(asked) = MaxAsked THEN asked ELSE Append(asked, day)
request_ble_resource(day) ==
  asked' = Append(IF Len(asked) = MaxAsked THEN Tail(asked) ELSE asked, day)

(* trigger_dated_weather_request *)
trigger_dated_weather_request(day) ==
  /\ hourly_forecast' = Zero
  /\ loading_spinner' = TRUE
  /\ hidden' = (hidden \/ ~loading_spinner)
  /\ request_ble_resource(day)
  /\ UNCHANGED current_hour_offset

(* update_date_string without and with a commit *)
ShowDate == shown' = dt + date_day_offset /\ UNCHANGED <<dt, date_day_offset, custom_date_active>>
CommitDateKeepsOffset ==  \* mutant
  /\ dt' = dt + date_day_offset /\ shown' = dt + date_day_offset
  /\ UNCHANGED date_day_offset
  /\ custom_date_active' = TRUE
CommitDate ==
  /\ dt' = dt + date_day_offset /\ shown' = dt + date_day_offset
  /\ date_day_offset' = 0
  /\ custom_date_active' = TRUE

(* The date is released: the request is for the date that was selected. *)
Release ==
  /\ date_active_held' = FALSE
  /\ CommitDate
  /\ trigger_dated_weather_request(dt + date_day_offset)
  /\ UNCHANGED <<frame, queued>>

Hold ==
  /\ date_active_held' = TRUE
  /\ ShowDate
  /\ UNCHANGED <<forecast, answers>>

DateEnter ==
  /\ focus = "date"
  /\ IF date_active_held THEN Release ELSE Hold
  /\ UNCHANGED <<screen, apps, work>>

DateTurn(step) ==
  /\ focus = "date" /\ date_active_held
  /\ dt + date_day_offset + step \in Days
  /\ date_day_offset' = date_day_offset + step
  /\ shown' = dt + date_day_offset'
  /\ UNCHANGED <<dt, date_active_held, custom_date_active>>
  /\ UNCHANGED <<screen, apps, forecast, answers, work>>

FocusDate ==
  /\ \/ focus = "scr" /\ curr_app = "weather"
     \/ focus = "panel"
  /\ focus' = "date"
  /\ ShowDate
  /\ UNCHANGED <<page, app_root_cont, date_active_held, apps, forecast, answers, work>>

(* LV_EVENT_DEFOCUSED, when ESC or (not held) RIGHT moves the focus away.   *)
(* Mutant: the date stays held.                                             *)
DefocusKeepsHeld(to) ==
  /\ focus = "date" /\ focus' = to
  /\ ShowDate
  /\ UNCHANGED <<date_active_held, forecast, answers, page, app_root_cont, apps, work>>
DefocusDate(to) ==
  /\ focus = "date" /\ focus' = to
  /\ IF date_active_held
     THEN Release
     ELSE ShowDate /\ UNCHANGED <<date_active_held, forecast, answers>>
  /\ UNCHANGED <<page, app_root_cont, apps, work>>

LeaveDate == DefocusDate("scr") \/ (~date_active_held /\ DefocusDate("panel"))

(* Between the screen, the panel and the card *)
MoveFocus ==
  /\ \/ focus = "panel" /\ focus' \in {"card", "scr"}
     \/ focus = "card" /\ focus' = "panel"
  /\ UNCHANGED <<page, app_root_cont, apps, date, forecast, answers, work>>

(* Its other callers leave an hour that is in range as it is. *)
update_card_data(hour) ==
  current_hour_offset' = IF hour < 0 THEN 0
                         ELSE IF hour >= TOTAL_HOURS THEN TOTAL_HOURS - 1 ELSE hour

CardRight ==
  /\ focus = "card" /\ current_hour_offset < TOTAL_HOURS - 1
  /\ update_card_data(current_hour_offset + 1)
  /\ UNCHANGED <<screen, apps, date, hourly_forecast, loading_spinner, hidden, answers, work>>

CardLeft ==
  /\ focus = "card" /\ current_hour_offset > 0
  /\ update_card_data(current_hour_offset - 1)
  /\ UNCHANGED <<screen, apps, date, hourly_forecast, loading_spinner, hidden, answers, work>>

-----------------------------------------------------------------------------
(* The maintenance thread *)

(* handle_ble_response and EVENT_APP_WORK_SCHEDULE: the phone answers the   *)
(* oldest request.  The work item's arg1 points into the frame of           *)
(* handle_event, not into the copy of the item.  add_user_work may refuse.  *)
handle_event ==
  /\ asked # <<>>
  /\ asked' = Tail(asked) /\ frame' = Head(asked)
  /\ queued' \in {queued, queued + 1} /\ queued' <= MaxAsked
  /\ UNCHANGED <<screen, apps, date, forecast, work>>

AnswerLost ==
  /\ asked # <<>> /\ asked' = Tail(asked)
  /\ UNCHANGED <<frame, queued, screen, apps, date, forecast, work>>

(* Whatever the maintenance thread does next runs over the frame. *)
FrameReused ==
  /\ frame # Garbage /\ frame' = Garbage
  /\ UNCHANGED <<asked, queued, screen, apps, date, forecast, work>>

-----------------------------------------------------------------------------
(* send_app_update and receive_event, on a worker *)

Step(w, from, to) == pc[w] = from /\ pc' = [pc EXCEPT ![w] = to]
Unread == UNCHANGED <<screen, answers, apps>>

TakeItem(w) ==
  /\ queued > 0 /\ queued' = queued - 1
  /\ Step(w, "idle", "page")
  /\ UNCHANGED <<asked, frame, screen, apps, date, forecast, loaded>>

(* generate_curr_app_id.  The ids of the watch face and of no page match no *)
(* answer; those of a frame of garbage may match anything.                  *)
GetPage(w) ==
  /\ \/ page = "APP" /\ Step(w, "page", "app")
     \/ page # "APP" /\ Step(w, "page", "idle")
     \/ page # "APP" /\ frame = Garbage /\ Step(w, "page", "check")
  /\ Unread /\ UNCHANGED <<date, forecast, loaded>>

(* get_curr_app()->app_id, without a check for NULL *)
GetAppId(w) ==
  /\ \/ curr_app = NULL /\ Step(w, "app", "null_app")
     \/ (curr_app = "weather" \/ frame = Garbage) /\ curr_app # NULL /\ Step(w, "app", "check")
     \/ (curr_app # "weather" \/ frame = Garbage) /\ curr_app # NULL /\ Step(w, "app", "idle")
  /\ Unread /\ UNCHANGED <<date, forecast, loaded>>

CheckCurrApp(w) ==
  /\ Step(w, "check", IF curr_app = NULL THEN "idle" ELSE "call")
  /\ loaded' = [loaded EXCEPT ![w] = curr_app]
  /\ Unread /\ UNCHANGED <<date, forecast>>

(* The build may have kept curr_app from the check or read it again. *)
CallHandler(w) ==
  /\ \E app \in {loaded[w], curr_app} :
       Step(w, "call", CASE app = NULL -> "null"
                         [] app = "settings" -> "idle"
                         [] app = "weather" -> "copy")
  /\ loaded' = [loaded EXCEPT ![w] = NULL]
  /\ Unread /\ UNCHANGED <<date, forecast>>

CopyForecast(w) ==
  /\ \/ Step(w, "copy", "release") /\ hourly_forecast' = frame
     \/ frame = Garbage /\ Step(w, "copy", "idle") /\ UNCHANGED hourly_forecast
  /\ UNCHANGED <<current_hour_offset, loading_spinner, hidden>>
  /\ Unread /\ UNCHANGED <<date, loaded>>

ReleaseHeld(w) ==
  /\ Step(w, "release", "refresh")
  /\ date_active_held' = FALSE
  /\ UNCHANGED <<dt, date_day_offset, custom_date_active, shown>>
  /\ Unread /\ UNCHANGED <<forecast, loaded>>

(* refresh_weather_ui_data, from the check of the widgets on *)
CheckWidgets(w) ==
  /\ Step(w, "refresh", IF widgets THEN "spinner" ELSE "idle")
  /\ Unread /\ UNCHANGED <<date, forecast, loaded>>

DeleteSpinner(w) ==
  /\ Step(w, "spinner", "card")
  /\ loading_spinner' = FALSE
  /\ UNCHANGED <<current_hour_offset, hourly_forecast, hidden>>
  /\ Unread /\ UNCHANGED <<date, loaded>>

ShowCard(w) ==
  /\ Step(w, "card", "clock")
  /\ hidden' = (hidden /\ ~widgets)
  /\ UNCHANGED <<current_hour_offset, hourly_forecast, loading_spinner>>
  /\ Unread /\ UNCHANGED <<date, loaded>>

ReadClock(w) ==
  /\ Step(w, "clock", "text")
  /\ dt' = IF custom_date_active THEN dt ELSE Today
  /\ UNCHANGED <<date_day_offset, date_active_held, custom_date_active, shown>>
  /\ Unread /\ UNCHANGED <<forecast, loaded>>

(* The labels are set without another check. *)
SetLabels(w) ==
  /\ Step(w, "text", IF widgets THEN "hour" ELSE "null")
  /\ Unread /\ UNCHANGED <<date, forecast, loaded>>

(* The hour is that of the clock, or 0 for a selected date. *)
SetHour(w) ==
  /\ Step(w, "hour", "shown")
  /\ current_hour_offset' \in Hours
  /\ UNCHANGED <<hourly_forecast, loading_spinner, hidden>>
  /\ Unread /\ UNCHANGED <<date, loaded>>

SetDate(w) ==
  /\ Step(w, "shown", "idle")
  /\ IF widgets THEN ShowDate ELSE UNCHANGED <<dt, date_day_offset, custom_date_active, shown>>
  /\ UNCHANGED date_active_held
  /\ Unread /\ UNCHANGED <<forecast, loaded>>

(* user_app_hard_wd_expiry *)
Killed(w) ==
  /\ pc[w] # "idle" /\ pc' = [pc EXCEPT ![w] = "idle"]
  /\ loaded' = [loaded EXCEPT ![w] = NULL]
  /\ Unread /\ UNCHANGED <<date, forecast>>

refresh_weather_ui_data(w) ==
  CheckWidgets(w) \/ DeleteSpinner(w) \/ ShowCard(w) \/ ReadClock(w)
    \/ SetLabels(w) \/ SetHour(w) \/ SetDate(w)

send_app_update(w) ==
  TakeItem(w) \/ GetPage(w) \/ GetAppId(w) \/ CheckCurrApp(w) \/ CallHandler(w)
    \/ CopyForecast(w) \/ ReleaseHeld(w) \/ refresh_weather_ui_data(w)

-----------------------------------------------------------------------------
(* init_ui has shown the watch face. *)
Init ==
  /\ page = "WATCHFACE" /\ app_root_cont = FALSE /\ focus = "tabview"
  /\ curr_app = NULL /\ is_app_running = FALSE /\ app_scr = FALSE /\ widgets = FALSE
  /\ dt = Today /\ date_day_offset = 0 /\ shown = Today
  /\ date_active_held = FALSE /\ custom_date_active = FALSE
  /\ current_hour_offset = 0 /\ hourly_forecast = Zero
  /\ loading_spinner = FALSE /\ hidden = FALSE
  /\ asked = <<>> /\ frame = Garbage /\ queued = 0
  /\ pc = [w \in Workers |-> "idle"] /\ loaded = [w \in Workers |-> NULL]

Navigation ==
  \/ \E step \in {-1, 1} : RootKey(step)
  \/ EnterPicker \/ LeavePicker
  \/ \E app \in Apps : open_app(app)
  \/ handle_app_scr_close

WeatherKeys ==
  \/ DateEnter \/ (\E step \in {-1, 1} : DateTurn(step)) \/ FocusDate \/ LeaveDate
  \/ MoveFocus \/ CardRight \/ CardLeft

Next ==
  \/ Navigation \/ WeatherKeys
  \/ handle_event \/ AnswerLost \/ FrameReused
  \/ \E w \in Workers : send_app_update(w) \/ Killed(w)

Spec == Init /\ [][Next]_vars

-----------------------------------------------------------------------------
(* Properties *)

Labels == {"idle", "page", "app", "check", "call", "copy", "release", "refresh", "spinner",
           "card", "clock", "text", "hour", "shown", "null", "null_app"}

(* Types; in particular the hour of the card, which the key callbacks and   *)
(* the worker both move, stays an index into hourly_forecast.               *)
TypeOK ==
  /\ page \in {"NOTIFY", "WATCHFACE", "APP"} /\ app_root_cont \in BOOLEAN
  /\ focus \in {"tabview", "notify", "picker"} \cup AppFocus
  /\ curr_app \in Apps \cup {NULL} /\ is_app_running \in BOOLEAN
  /\ app_scr \in BOOLEAN /\ widgets \in BOOLEAN
  /\ dt \in Days /\ date_day_offset \in Int /\ shown \in Int
  /\ date_active_held \in BOOLEAN /\ custom_date_active \in BOOLEAN
  /\ current_hour_offset \in Hours
  /\ hourly_forecast \in Days \cup {Zero, Garbage}
  /\ loading_spinner \in BOOLEAN /\ hidden \in BOOLEAN
  /\ asked \in Seq(Days) /\ Len(asked) <= MaxAsked
  /\ frame \in Days \cup {Garbage} /\ queued \in 0..MaxAsked
  /\ pc \in [Workers -> Labels] /\ loaded \in [Workers -> Apps \cup {NULL}]

(* The application manager, its screen and the page agree: an application   *)
(* runs exactly while its screen exists, that only on the APP page, and the *)
(* weather application's pointers are set exactly while it is the one that  *)
(* runs.  In particular a page is never closed under a running application. *)
AppScreenOwned ==
  /\ is_app_running <=> curr_app # NULL
  /\ app_scr <=> curr_app # NULL
  /\ curr_app # NULL => page = "APP" /\ app_root_cont
  /\ widgets <=> curr_app = "weather"

(* A date is held only while the weather application has it in focus: an    *)
(* application is never closed over a selection that is still open, which   *)
(* would release it after close_curr_app has cleared curr_app.              *)
HeldHasFocus == date_active_held => focus = "date" /\ curr_app = "weather"

(* The user's release of a held date sends one request, for the date that   *)
(* the label shows, whatever an answer changed while it was held.           *)
ReleaseIsRequested ==
  [][ date_active_held /\ ~date_active_held' /\ pc' = pc =>
        asked' # <<>> /\ asked'[Len(asked')] = shown' /\ shown' = dt' ]_vars

(* A key leaves the label showing the selected date: what it shows is what  *)
(* a release would request.                                                 *)
LabelShowsSelection ==
  [][ date' # date /\ pc' = pc => shown' = dt' + date_day_offset' ]_vars

(* "No application currently active." (app_manager.c:96): an answer that    *)
(* finds no application is dropped.                                         *)
NoAppIsHandled == \A w \in Workers : pc[w] # "null_app"
=============================================================================
