-------------------------- MODULE AppManagerProofs --------------------------
(***************************************************************************)
(* Proofs about AppManager, for any number of workers, any length of the   *)
(* forecast, any range of dates and any capacity of the request queue.     *)
(***************************************************************************)
EXTENDS AppManager, TLAPS

(* Where the focus can be: on an object of the application only while one   *)
(* runs, and then never on the tab view, whose keys would leave the page.   *)
FocusOwned ==
  /\ curr_app = NULL => focus \notin AppFocus
  /\ curr_app # NULL => focus \in AppFocus
  /\ focus \in {"date", "panel", "card"} => curr_app = "weather"
  /\ focus = "picker" => page = "APP"
  /\ page = "APP" => app_root_cont

(* The selection stays within the bound, and only a release moves dt. *)
SelectionInDays ==
  /\ dt + date_day_offset \in Days
  /\ ~custom_date_active => dt = Today

(* The Boolean part of TypeOK *)
FlagsOK ==
  /\ app_root_cont \in BOOLEAN /\ is_app_running \in BOOLEAN
  /\ app_scr \in BOOLEAN /\ widgets \in BOOLEAN
  /\ date_active_held \in BOOLEAN /\ custom_date_active \in BOOLEAN
  /\ loading_spinner \in BOOLEAN /\ hidden \in BOOLEAN

(* The inductive invariant: a running application has the focus, which      *)
(* keeps the page open under it, and a held date has it too, which keeps    *)
(* the application from being closed over it.                               *)
IInv ==
  /\ TypeOK
  /\ AppScreenOwned
  /\ HeldHasFocus
  /\ FocusOwned
  /\ SelectionInDays

USE AppAssumption
    DEF Days, Hours, Today, Zero, Garbage, Apps, NULL, AppFocus, Labels,
        screen, apps, date, forecast, answers, work

LEMMA InitIInv == Init => IInv
<1> SUFFICES ASSUME Init PROVE IInv
  OBVIOUS
<1>1. HeldHasFocus
  BY Zenon DEF Init, HeldHasFocus
<1>2. AppScreenOwned
  BY Zenon DEF Init, AppScreenOwned
<1>3. FlagsOK
  BY Zenon DEF Init, FlagsOK
<1>4. TypeOK
  BY <1>3 DEF Init, TypeOK, FlagsOK
<1>5. FocusOwned
  BY Zenon DEF Init, FocusOwned
<1>6. SelectionInDays
  BY DEF Init, SelectionInDays
<1> QED
  BY <1>1, <1>2, <1>4, <1>5, <1>6 DEF IInv

(* The keys on the tab view and in the grid, opening and closing *)
LEMMA NavigationKeepsIInv == IInv /\ Navigation => IInv'
<1> SUFFICES ASSUME IInv, Navigation PROVE IInv'
  OBVIOUS
<1> USE DEF IInv, TypeOK, AppScreenOwned, HeldHasFocus, FocusOwned, SelectionInDays
<1>1. ASSUME NEW step \in {-1, 1}, RootKey(step) PROVE IInv'
  <2>1. PICK i \in DOMAIN Pages : GoToPage(i)
    BY <1>1 DEF RootKey, GoToPage
  <2>2. page' \in {"NOTIFY", "WATCHFACE", "APP"}
    BY <2>1 DEF GoToPage, Pages
  <2>3. app_root_cont' \in BOOLEAN /\ (page' = "APP" => app_root_cont')
    BY <2>1, Zenon DEF GoToPage
  <2>4. focus \in {"tabview", "notify"} /\ curr_app = NULL
    BY <1>1 DEF RootKey, BubblesToRoot
  <2>5. ~date_active_held
    BY <2>4
  <2> QED
    BY <2>1, <2>2, <2>3, <2>4, <2>5 DEF GoToPage
<1>2. CASE EnterPicker
  BY <1>2 DEF EnterPicker
<1>3. CASE LeavePicker
  BY <1>3 DEF LeavePicker
<1>4. ASSUME NEW app \in Apps, open_app(app) PROVE IInv'
  <2>1. CASE app = "weather"
    <3>1. HeldHasFocus'
      BY <1>4, <2>1, Zenon DEF open_app, DrawWeather
    <3>2. FocusOwned' /\ AppScreenOwned'
      BY <1>4, <2>1 DEF open_app, DrawWeather
    <3>3. FlagsOK'
      BY <1>4, <2>1, Zenon DEF open_app, DrawWeather, FlagsOK
    <3>4. TypeOK'
      BY <1>4, <2>1, <3>3 DEF open_app, DrawWeather, FlagsOK
    <3>5. SelectionInDays'
      BY <1>4, <2>1 DEF open_app, DrawWeather
    <3> QED
      BY <3>1, <3>2, <3>4, <3>5
  <2>2. CASE app = "settings"
    BY <1>4, <2>2 DEF open_app
  <2> QED
    BY <2>1, <2>2
<1>5. CASE handle_app_scr_close
  BY <1>5 DEF handle_app_scr_close, close_curr_app
<1> QED
  BY <1>1, <1>2, <1>3, <1>4, <1>5 DEF Navigation

(* A request is for a date in bounds and the queue does not outgrow itself. *)
LEMMA RequestType ==
  ASSUME TypeOK, NEW day \in Days, request_ble_resource(day)
  PROVE  /\ asked' \in Seq(Days)
         /\ Len(asked') \in 1..MaxAsked
         /\ asked'[Len(asked')] = day
<1>1. CASE Len(asked) = MaxAsked
  <2>1. Tail(asked) \in Seq(Days) /\ Len(Tail(asked)) = MaxAsked - 1
    BY <1>1 DEF TypeOK
  <2> QED
    BY <1>1, <2>1 DEF request_ble_resource
<1>2. CASE Len(asked) < MaxAsked
  BY <1>2 DEF request_ble_resource, TypeOK
<1> QED
  BY <1>1, <1>2 DEF TypeOK

(* A date without an offset is the date. *)
LEMMA NoOffset ==
  ASSUME NEW d \in Days, NEW offset, offset = 0
  PROVE  d + offset \in Days
  OBVIOUS

(* What a release does to the selection and to the queue *)
LEMMA ReleaseEffect ==
  ASSUME IInv, Release
  PROVE  /\ dt' \in Days /\ shown' = dt' /\ date_day_offset' = 0
         /\ date_active_held' = FALSE /\ custom_date_active' = TRUE
         /\ asked' \in Seq(Days) /\ Len(asked') \in 1..MaxAsked
         /\ asked'[Len(asked')] = dt'
         /\ hourly_forecast' = Zero /\ loading_spinner' = TRUE /\ hidden' \in BOOLEAN
         /\ UNCHANGED <<current_hour_offset, frame, queued>>
<1>1. /\ dt + date_day_offset \in Days /\ TypeOK
      /\ request_ble_resource(dt + date_day_offset)
  BY DEF IInv, SelectionInDays, Release, trigger_dated_weather_request
<1>2. /\ asked' \in Seq(Days) /\ Len(asked') \in 1..MaxAsked
      /\ asked'[Len(asked')] = dt + date_day_offset
  BY <1>1, RequestType
<1> QED
  BY <1>1, <1>2 DEF Release, CommitDate, trigger_dated_weather_request, TypeOK

(* The weather application's keys *)
LEMMA WeatherKeysKeepIInv == IInv /\ WeatherKeys => IInv'
<1> SUFFICES ASSUME IInv, WeatherKeys PROVE IInv'
  OBVIOUS
<1> USE DEF IInv, TypeOK, AppScreenOwned, HeldHasFocus, FocusOwned, SelectionInDays
<1>1. CASE DateEnter
  <2>1. CASE Release
    <3> HIDE DEF IInv
    <3>1. /\ dt' \in Days /\ shown' = dt' /\ date_day_offset' = 0
          /\ date_active_held' = FALSE /\ custom_date_active' = TRUE
          /\ asked' \in Seq(Days) /\ Len(asked') \in 1..MaxAsked
          /\ hourly_forecast' = Zero /\ loading_spinner' = TRUE /\ hidden' \in BOOLEAN
          /\ UNCHANGED <<current_hour_offset, frame, queued>>
      BY <2>1, ReleaseEffect
    <3>2. UNCHANGED <<screen, apps, work>>
      BY <1>1 DEF DateEnter
    <3>3. HeldHasFocus'
      BY <3>1, Zenon DEF HeldHasFocus
    <3>4. FlagsOK'
      BY <3>1, <3>2, Zenon DEF FlagsOK, IInv
    <3>5. TypeOK'
      BY <3>1, <3>2, <3>4 DEF FlagsOK, IInv
    <3>6. AppScreenOwned' /\ FocusOwned'
      BY <3>2 DEF IInv
    <3>7. SelectionInDays'
      <4>1. dt' \in Days /\ date_day_offset' = 0
        BY <3>1, Zenon
      <4>2. (dt + date_day_offset)' \in Days
        BY <4>1, NoOffset, Zenon
      <4>3. ~custom_date_active' => dt' = Today
        BY <3>1, Zenon
      <4> QED
        BY <4>2, <4>3
    <3> QED
      BY <3>3, <3>5, <3>6, <3>7 DEF IInv
  <2>2. CASE Hold
    BY <1>1, <2>2 DEF DateEnter, Hold, ShowDate
  <2> QED
    BY <1>1, <2>1, <2>2 DEF DateEnter
<1>2. ASSUME NEW step \in {-1, 1}, DateTurn(step) PROVE IInv'
  BY <1>2 DEF DateTurn
<1>3. CASE FocusDate
  BY <1>3 DEF FocusDate, ShowDate
<1>4. ASSUME NEW to \in {"scr", "panel"}, DefocusDate(to) PROVE IInv'
  <2>1. CASE Release
    <3> HIDE DEF IInv
    <3>1. /\ dt' \in Days /\ shown' = dt' /\ date_day_offset' = 0
          /\ date_active_held' = FALSE /\ custom_date_active' = TRUE
          /\ asked' \in Seq(Days) /\ Len(asked') \in 1..MaxAsked
          /\ hourly_forecast' = Zero /\ loading_spinner' = TRUE /\ hidden' \in BOOLEAN
          /\ UNCHANGED <<current_hour_offset, frame, queued>>
      BY <2>1, ReleaseEffect
    <3>2. focus = "date" /\ focus' = to /\ UNCHANGED <<page, app_root_cont, apps, work>>
      BY <1>4 DEF DefocusDate
    <3>3. HeldHasFocus'
      BY <3>1, Zenon DEF HeldHasFocus
    <3>4. FlagsOK'
      BY <3>1, <3>2, Zenon DEF FlagsOK, IInv
    <3>5. TypeOK'
      BY <3>1, <3>2, <3>4 DEF FlagsOK, IInv
    <3>6. AppScreenOwned' /\ FocusOwned'
      BY <3>2 DEF IInv
    <3>7. SelectionInDays'
      <4>1. dt' \in Days /\ date_day_offset' = 0
        BY <3>1, Zenon
      <4>2. (dt + date_day_offset)' \in Days
        BY <4>1, NoOffset, Zenon
      <4>3. ~custom_date_active' => dt' = Today
        BY <3>1, Zenon
      <4> QED
        BY <4>2, <4>3
    <3> QED
      BY <3>3, <3>5, <3>6, <3>7 DEF IInv
  <2>2. CASE ~date_active_held /\ ShowDate /\ UNCHANGED <<date_active_held, forecast, answers>>
    BY <1>4, <2>2 DEF DefocusDate, ShowDate
  <2> QED
    BY <1>4, <2>1, <2>2 DEF DefocusDate
<1>5. CASE MoveFocus
  BY <1>5 DEF MoveFocus
<1>6. CASE CardRight
  BY <1>6 DEF CardRight, update_card_data
<1>7. CASE CardLeft
  BY <1>7 DEF CardLeft, update_card_data
<1> QED
  BY <1>1, <1>2, <1>3, <1>4, <1>5, <1>6, <1>7 DEF WeatherKeys, LeaveDate

(* The maintenance thread *)
LEMMA MaintenanceKeepsIInv == IInv /\ (handle_event \/ AnswerLost \/ FrameReused) => IInv'
<1> SUFFICES ASSUME IInv, handle_event \/ AnswerLost \/ FrameReused PROVE IInv'
  OBVIOUS
<1> USE DEF IInv, TypeOK, AppScreenOwned, HeldHasFocus, FocusOwned, SelectionInDays
<1>1. asked # <<>> => /\ Tail(asked) \in Seq(Days) /\ Len(Tail(asked)) <= MaxAsked
                      /\ Head(asked) \in Days
  OBVIOUS
<1>2. CASE handle_event
  BY <1>1, <1>2 DEF handle_event
<1>3. CASE AnswerLost
  BY <1>1, <1>3 DEF AnswerLost
<1>4. CASE FrameReused
  BY <1>4 DEF FrameReused
<1> QED
  BY <1>2, <1>3, <1>4

(* The workers: none of them moves the focus, the page or an application. *)
LEMMA WorkerKeepsIInv ==
  ASSUME NEW w \in Workers
  PROVE  IInv /\ (send_app_update(w) \/ Killed(w)) => IInv'
<1> SUFFICES ASSUME IInv, send_app_update(w) \/ Killed(w) PROVE IInv'
  OBVIOUS
<1> USE DEF IInv, TypeOK, AppScreenOwned, HeldHasFocus, FocusOwned, SelectionInDays, Step, Unread
<1>1. CASE TakeItem(w)
  BY <1>1 DEF TakeItem
<1>2. CASE GetPage(w)
  BY <1>2 DEF GetPage
<1>3. CASE GetAppId(w)
  BY <1>3 DEF GetAppId
<1>4. CASE CheckCurrApp(w)
  BY <1>4 DEF CheckCurrApp
<1>5. CASE CallHandler(w)
  BY SMTT(40), <1>5 DEF CallHandler
<1>6. CASE CopyForecast(w)
  BY <1>6 DEF CopyForecast
<1>7. CASE ReleaseHeld(w)
  <2>1. HeldHasFocus' /\ date_active_held' \in BOOLEAN
    BY <1>7, Zenon DEF ReleaseHeld
  <2> QED
    BY <1>7, <2>1 DEF ReleaseHeld
<1>8. CASE refresh_weather_ui_data(w)
  <2>1. CASE CheckWidgets(w)
    BY <2>1 DEF CheckWidgets
  <2>2. CASE DeleteSpinner(w)
    BY ZenonT(60), <2>2 DEF DeleteSpinner
  <2>3. CASE ShowCard(w)
    BY <2>3 DEF ShowCard
  <2>4. CASE ReadClock(w)
    BY <2>4 DEF ReadClock
  <2>5. CASE SetLabels(w)
    BY <2>5 DEF SetLabels
  <2>6. CASE SetHour(w)
    BY <2>6 DEF SetHour
  <2>7. CASE SetDate(w)
    BY <2>7 DEF SetDate, ShowDate
  <2> QED
    BY <1>8, <2>1, <2>2, <2>3, <2>4, <2>5, <2>6, <2>7 DEF refresh_weather_ui_data
<1>9. CASE Killed(w)
  BY <1>9 DEF Killed
<1> QED
  BY <1>1, <1>2, <1>3, <1>4, <1>5, <1>6, <1>7, <1>8, <1>9 DEF send_app_update

(* No step leaves the inductive invariant. *)
LEMMA NextKeepsIInv == IInv /\ [Next]_vars => IInv'
<1> SUFFICES ASSUME IInv, [Next]_vars PROVE IInv'
  OBVIOUS
<1>1. CASE UNCHANGED vars
  BY <1>1 DEF vars, IInv, TypeOK, AppScreenOwned, HeldHasFocus, FocusOwned, SelectionInDays
<1> QED
  BY <1>1, NavigationKeepsIInv, WeatherKeysKeepIInv, MaintenanceKeepsIInv, WorkerKeepsIInv
  DEF Next

(* Every state the pages, the applications and the workers reach satisfies  *)
(* the inductive invariant.                                                 *)
THEOREM AppInvariant == Spec => []IInv
  BY InitIInv, NextKeepsIInv, PTL DEF Spec

(* The variables keep their types; in particular the hour of the card stays *)
(* an index into hourly_forecast.                                           *)
THEOREM AppTypeOK == Spec => []TypeOK
<1>1. IInv => TypeOK
  BY DEF IInv
<1> QED
  BY <1>1, AppInvariant, PTL

(* An application runs exactly while its screen exists, on the APP page,    *)
(* and its pointers are set exactly while it runs.                          *)
THEOREM AppScreenStaysOwned == Spec => []AppScreenOwned
<1>1. IInv => AppScreenOwned
  BY DEF IInv
<1> QED
  BY <1>1, AppInvariant, PTL

(* No application is closed over a date that is still held. *)
THEOREM AppHeldHasFocus == Spec => []HeldHasFocus
<1>1. IInv => HeldHasFocus
  BY DEF IInv
<1> QED
  BY <1>1, AppInvariant, PTL

(* The only steps that end a held selection without moving a worker are the *)
(* releases of the LVGL thread.                                             *)
LEMMA OnlyReleaseEndsHold ==
  ASSUME IInv, Next, date_active_held, ~date_active_held', pc' = pc
  PROVE  Release
<1> USE DEF IInv, TypeOK, HeldHasFocus
<1>1. focus = "date"
  BY Zenon
<1>2. Navigation => UNCHANGED date_active_held
  BY <1>1 DEF Navigation, RootKey, BubblesToRoot, GoToPage, EnterPicker, LeavePicker,
              open_app, handle_app_scr_close
<1>3. DateEnter => Release
  BY Zenon DEF DateEnter
<1>4. ASSUME NEW step \in {-1, 1}, DateTurn(step) PROVE UNCHANGED date_active_held
  BY <1>4, Zenon DEF DateTurn
<1>5. FocusDate \/ MoveFocus \/ CardRight \/ CardLeft => UNCHANGED date_active_held
  BY Zenon DEF FocusDate, MoveFocus, CardRight, CardLeft
<1>6. LeaveDate => Release
  BY Zenon DEF LeaveDate, DefocusDate
<1>7. WeatherKeys => Release
  BY <1>3, <1>4, <1>5, <1>6, Zenon DEF WeatherKeys
<1>8. handle_event \/ AnswerLost \/ FrameReused => UNCHANGED date_active_held
  BY Zenon DEF handle_event, AnswerLost, FrameReused
<1>9. ASSUME NEW w \in Workers, send_app_update(w) \/ Killed(w)
      PROVE  UNCHANGED date_active_held
  <2>1. ~ReleaseHeld(w)
    BY DEF ReleaseHeld, Step
  <2>2. refresh_weather_ui_data(w) => UNCHANGED date_active_held
    BY Zenon DEF refresh_weather_ui_data, CheckWidgets, DeleteSpinner, ShowCard, ReadClock,
                 SetLabels, SetHour, SetDate, Unread
  <2> QED
    BY <1>9, <2>1, <2>2, Zenon DEF send_app_update, TakeItem, GetPage, GetAppId, CheckCurrApp,
       CallHandler, CopyForecast, Killed, Unread
<1> QED
  BY <1>2, <1>7, <1>8, <1>9, Zenon DEF Next

(* The user's release of a held date puts a request for the date that the   *)
(* label shows at the end of the queue, whatever a worker changed while it  *)
(* was held and however full the queue is.                                  *)
THEOREM AppReleaseIsRequested == Spec => ReleaseIsRequested
<1>1. ASSUME IInv, [Next]_vars,
             date_active_held, ~date_active_held', pc' = pc
      PROVE  asked' # <<>> /\ asked'[Len(asked')] = shown' /\ shown' = dt'
  <2>1. Next
    BY <1>1, Zenon DEF vars
  <2>2. Release
    BY <1>1, <2>1, OnlyReleaseEndsHold
  <2>3. /\ shown' = dt' /\ Len(asked') \in 1..MaxAsked /\ asked'[Len(asked')] = dt'
    BY <1>1, <2>2, ReleaseEffect, Zenon
  <2>4. asked' # <<>>
    BY <2>3
  <2> QED
    BY <2>3, <2>4, Zenon
<1>2. IInv /\ [Next]_vars =>
        [ date_active_held /\ ~date_active_held' /\ pc' = pc =>
            asked' # <<>> /\ asked'[Len(asked')] = shown' /\ shown' = dt' ]_vars
  BY <1>1
<1> QED
  BY <1>2, AppInvariant, PTL DEF Spec, ReleaseIsRequested

(* What a step of the LVGL thread that touches the date leaves on the label *)
ShowsDate == shown' = dt' + date_day_offset'

LEMMA ReleaseShows == IInv /\ Release => ShowsDate
<1> SUFFICES ASSUME IInv, Release PROVE ShowsDate
  OBVIOUS
<1>1. dt' \in Days /\ shown' = dt' /\ date_day_offset' = 0
  BY ReleaseEffect
<1>2. \A d \in Days : d + 0 = d
  OBVIOUS
<1> QED
  BY <1>1, <1>2, Zenon DEF ShowsDate

(* Every step of the LVGL thread shows the date that it selects. *)
LEMMA KeysShowDate ==
  ASSUME IInv, Navigation \/ WeatherKeys
  PROVE  UNCHANGED date \/ ShowsDate
<1>1. ASSUME NEW app \in Apps, open_app(app) PROVE UNCHANGED date \/ ShowsDate
  <2>1. CASE app = "weather"
    <3>1. dt' = 0 /\ shown' = 0 /\ date_day_offset' = 0
      BY <1>1, <2>1 DEF open_app, DrawWeather
    <3> QED
      BY <3>1 DEF ShowsDate
  <2>2. CASE app # "weather"
    BY <1>1, <2>2 DEF open_app
  <2> QED
    BY <2>1, <2>2
<1>2. CASE Navigation
  BY <1>1, <1>2 DEF Navigation, RootKey, GoToPage, EnterPicker, LeavePicker,
     handle_app_scr_close
<1>3. ShowDate => ShowsDate
  BY DEF ShowDate, ShowsDate
<1>4. CASE DateEnter
  BY <1>3, <1>4, ReleaseShows, Zenon DEF DateEnter, Hold
<1>5. ASSUME NEW step \in {-1, 1}, DateTurn(step) PROVE ShowsDate
  BY <1>5 DEF DateTurn, ShowsDate
<1>6. CASE FocusDate
  BY <1>3, <1>6, Zenon DEF FocusDate
<1>7. CASE LeaveDate
  BY <1>3, <1>7, ReleaseShows, Zenon DEF LeaveDate, DefocusDate
<1>8. CASE MoveFocus \/ CardRight \/ CardLeft
  BY <1>8 DEF MoveFocus, CardRight, CardLeft
<1>9. CASE WeatherKeys
  BY <1>4, <1>5, <1>6, <1>7, <1>8, <1>9 DEF WeatherKeys
<1> QED
  BY <1>2, <1>9

(* A step of a worker that touches the date is seen in its pc. *)
LEMMA WorkersMovePc ==
  ASSUME IInv, NEW w \in Workers, send_app_update(w) \/ Killed(w), pc' = pc
  PROVE  UNCHANGED date
<1>1. DOMAIN pc = Workers
  BY DEF IInv, TypeOK
<1>2. ASSUME NEW from, NEW to, from # to PROVE ~Step(w, from, to)
  BY <1>1, <1>2 DEF Step
<1>3. ~ReleaseHeld(w)
  BY <1>2, Zenon DEF ReleaseHeld
<1>4. ~ReadClock(w) /\ ~SetDate(w)
  BY <1>2, Zenon DEF ReadClock, SetDate
<1>5. refresh_weather_ui_data(w) => UNCHANGED date
  BY <1>4, Zenon DEF refresh_weather_ui_data, CheckWidgets, DeleteSpinner, ShowCard, SetLabels,
                     SetHour
<1> QED
  BY <1>3, <1>5, Zenon DEF send_app_update, TakeItem, GetPage, GetAppId, CheckCurrApp,
     CallHandler, CopyForecast, Killed

(* After every key the label of the weather application shows the date that *)
(* a release would request (weather_ui.c:100-170).                          *)
THEOREM AppLabelShowsSelection == Spec => LabelShowsSelection
<1>1. ASSUME IInv, [Next]_vars, date' # date, pc' = pc
      PROVE  shown' = dt' + date_day_offset'
  <2>1. ~UNCHANGED date
    BY <1>1
  <2>2. Next
    BY <1>1, <2>1, Zenon DEF vars
  <2>3. handle_event \/ AnswerLost \/ FrameReused => UNCHANGED date
    BY Zenon DEF handle_event, AnswerLost, FrameReused
  <2>4. CASE Navigation \/ WeatherKeys
    BY <1>1, <2>1, <2>4, KeysShowDate, Zenon DEF ShowsDate
  <2>5. ASSUME NEW w \in Workers, send_app_update(w) \/ Killed(w)
        PROVE  UNCHANGED date
    BY <1>1, <2>5, WorkersMovePc, Zenon
  <2> QED
    BY <2>1, <2>2, <2>3, <2>4, <2>5, Zenon DEF Next
<1>2. IInv /\ [Next]_vars =>
        [ date' # date /\ pc' = pc => shown' = dt' + date_day_offset' ]_vars
  BY <1>1
<1> QED
  BY <1>2, AppInvariant, PTL DEF Spec, LabelShowsSelection
=============================================================================
