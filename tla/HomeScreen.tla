----------------------------- MODULE HomeScreen -----------------------------
(***************************************************************************)
(* From a key to a page, and the clock on the watch face: the keypad       *)
(* (HAL/navigation/encoder.c), start-up and pages (ui_manager.c), the      *)
(* one-second refresh (timers.c) and the labels of the face (wf2_ui.c).    *)
(*                                                                         *)
(* Contexts: the input thread (lowest priority), the LVGL thread, the main *)
(* thread (above both: they do not run while it does), and the system work *)
(* queue (cooperative), whose tick is one step but comes between any two   *)
(* steps of all others.                                                    *)
(***************************************************************************)
EXTENDS Integers

CONSTANTS
  MaxStartKeys,  \* keys LVGL can poll during the sleep of 100 ms in init_ui: it
                 \* polls every 33 ms and wants a release between two keys
  MaxBelow       \* bound: how far LEFT takes the state below _START

ASSUME HomeAssumption == MaxStartKeys \in 0..2 /\ MaxBelow \in Nat

VARIABLES
  start,        \* where the main thread is
  curr_watch_state, is_first_render,
  selected_wf,  \* not NULL
  drawn,        \* pages that have contents
  tab,          \* the active tab of home_tab
  labels,       \* what the label pointers of the watch face point to
  shows,        \* what those labels show
  armed,        \* wf_1s_refresh_work is pending
  pending_key, key_pending,
  input,        \* stores that the input thread still has to do
  lv, dir,      \* where the LVGL thread is, and the direction of the key
  read,         \* curr_watch_state as curr_watch_state++ read it
  pressed,      \* history: key of the last press that has stored something
  takes,        \* history: polls that took a key since then
  torn,         \* history: one of them came between the two stores of the press
  startKeys     \* history: keys taken before the main thread woke

press == <<pressed, takes, torn>>
keypad == <<pending_key, key_pending, input, press, startKeys>>
face == <<selected_wf, labels, shows, armed>>
pages == <<curr_watch_state, is_first_render, drawn, tab>>
vars == <<start, pages, face, keypad, lv, dir, read>>

\* ui_state_t
UI_START == 0
NOTIFY == 1
WATCHFACE == 2
APP == 3
UI_END == 4
Pages == {NOTIFY, WATCHFACE, APP}

Keys == {"LEFT", "RIGHT", "ENTER"}  \* ENTER stands for ESC too: no page change
MaxTakes == 3  \* bound: takes counts no further

-----------------------------------------------------------------------------
(* The keypad *)

(* input_cb stores the key and the flag, in an order the compiler chooses.  *)
Stores(key) == {<<"key", key>>, <<"flag", key>>}

KeyPressed(key) ==
  /\ start \in {"sleep", "done"} /\ input = {}
  /\ input' = Stores(key)
  /\ UNCHANGED <<pending_key, key_pending, press, startKeys, start, pages, face, lv, dir, read>>

input_cb ==
  /\ start \in {"sleep", "done"}
  /\ \E s \in input :
       /\ input' = input \ {s}
       /\ IF s[1] = "key" THEN pending_key' = s[2] /\ UNCHANGED key_pending
          ELSE key_pending' = TRUE /\ UNCHANGED pending_key
       /\ IF input' # {} THEN pressed' = s[2] /\ takes' = 0 /\ torn' = FALSE
          ELSE UNCHANGED press
  /\ UNCHANGED <<startKeys, start, pages, face, lv, dir, read>>

BetweenStores == \E s \in input : input = {s}

KeepPending == UNCHANGED key_pending  \* mutant
ClearPending == key_pending' = FALSE

(* keypad_read_callback, called when LVGL polls.  A key that LVGL sends to  *)
(* the tab view moves between the pages; one that an object of the page     *)
(* consumes, or that comes before LVGL has seen a release, does not.        *)
keypad_read_callback ==
  /\ start \in {"sleep", "done"} /\ lv = "idle" /\ key_pending
  /\ start = "sleep" => startKeys < MaxStartKeys
  /\ ClearPending
  /\ takes' = IF takes < MaxTakes THEN takes + 1 ELSE takes
  /\ torn' = IF BetweenStores THEN TRUE ELSE torn
  /\ startKeys' = IF start = "sleep" THEN startKeys + 1 ELSE startKeys
  /\ \/ pending_key = "LEFT" /\ lv' = "check" /\ dir' = -1
     \/ pending_key = "RIGHT" /\ lv' = "check" /\ dir' = 1
     \/ lv' = "idle" /\ UNCHANGED dir
  /\ UNCHANGED <<pending_key, input, pressed, start, pages, face, read>>

-----------------------------------------------------------------------------
(* The refresh timer and the watch face *)

start_specific_timer == armed' = TRUE
stop_specific_timer == armed' = FALSE

(* Mutant: the work is not scheduled again *)
PublishOnce == armed' = FALSE
PublishAgain == armed' = TRUE

wf2_update == shows' = IF labels # "null" THEN "time" ELSE shows
forward_wf_event == IF selected_wf THEN wf2_update ELSE UNCHANGED shows

publish_tick_event ==
  /\ armed
  /\ forward_wf_event
  /\ PublishAgain
  /\ UNCHANGED <<selected_wf, labels, start, pages, keypad, lv, dir, read>>

(* A second passes over the time the face shows. *)
SecondPasses ==
  /\ shows = "time" /\ shows' = "past"
  /\ UNCHANGED <<selected_wf, labels, armed, start, pages, keypad, lv, dir, read>>

select_wf == selected_wf' = TRUE
wf2_draw == labels' = "live" /\ shows' = "placeholder" /\ drawn' = drawn \cup {WATCHFACE}

-----------------------------------------------------------------------------
(* Steps of the LVGL thread in handle_left_action_on_root and               *)
(* handle_right_action_on_root: close_curr_page, the new state, the tab,    *)
(* show_page.                                                               *)

At(from) == start \in {"sleep", "done"} /\ lv = from
Then(to) == lv' = to

(* Mutants: one of the ends is not looked for *)
OnlyRightEnd == dir = 1 => curr_watch_state # UI_END - 1
OnlyLeftEnd == dir = -1 => curr_watch_state # UI_START + 1
NotAtEnd ==
  /\ dir = 1 => curr_watch_state # UI_END - 1
  /\ dir = -1 => curr_watch_state # UI_START + 1

RootAction ==
  /\ At("check") /\ Then(IF NotAtEnd THEN "close" ELSE "idle")
  /\ UNCHANGED <<start, pages, face, keypad, dir, read>>

close_curr_page ==
  /\ At("close")
  /\ IF curr_watch_state = WATCHFACE
     THEN Then(IF is_first_render THEN "clean" ELSE "stop") /\ UNCHANGED drawn
     ELSE Then("load") /\ drawn' = drawn \ {curr_watch_state}
  /\ UNCHANGED <<curr_watch_state, is_first_render, tab, start, face, keypad, dir, read>>

(* wf2_del_wf is not called: the pointers to the labels stay.               *)
CloseWatchface ==
  /\ \/ /\ At("stop") /\ Then("clean")
        /\ stop_specific_timer
        /\ UNCHANGED <<selected_wf, labels, drawn>>
     \/ /\ At("clean") /\ Then("deselect")
        /\ labels' = "deleted" /\ drawn' = drawn \ {WATCHFACE}
        /\ UNCHANGED <<selected_wf, armed>>
     \/ /\ At("deselect") /\ Then("load")
        /\ selected_wf' = FALSE
        /\ UNCHANGED <<labels, drawn, armed>>
  /\ UNCHANGED <<shows, curr_watch_state, is_first_render, tab, start, keypad, dir, read>>

(* curr_watch_state++ and --, which the main thread may interrupt.  Below    *)
(* _START the unsigned enumeration wraps; -1 stands for 2^32 - 1.            *)
ChangeState ==
  /\ \/ /\ At("load") /\ Then("store")
        /\ read' = curr_watch_state /\ UNCHANGED curr_watch_state
     \/ /\ At("store") /\ Then("tab")
        /\ curr_watch_state' = read + dir /\ UNCHANGED read
        /\ curr_watch_state' >= -MaxBelow
  /\ UNCHANGED <<is_first_render, drawn, tab, start, face, keypad, dir>>

(* LVGL takes an index past the last tab, a wrapped one too, for the last.  *)
lv_tabview_set_active(i) == tab' = IF i \in 0..2 THEN i ELSE 2

ChangeTab ==
  /\ At("tab") /\ Then("show")
  /\ lv_tabview_set_active(tab + dir)
  /\ UNCHANGED <<curr_watch_state, is_first_render, drawn, start, face, keypad, dir, read>>

show_page ==
  /\ At("show")
  /\ IF curr_watch_state = WATCHFACE THEN Then("select") /\ UNCHANGED drawn
     ELSE Then("idle") /\ drawn' = drawn \cup ({curr_watch_state} \cap Pages)
  /\ UNCHANGED <<curr_watch_state, is_first_render, tab, start, face, keypad, dir, read>>

ShowWatchface ==
  /\ \/ /\ At("select") /\ Then("draw")
        /\ select_wf /\ UNCHANGED <<labels, shows, drawn, armed>>
     \/ /\ At("draw") /\ Then("start")
        /\ wf2_draw /\ UNCHANGED <<selected_wf, armed>>
     \/ /\ At("start") /\ Then("idle")
        /\ start_specific_timer /\ UNCHANGED <<selected_wf, labels, shows, drawn>>
  /\ UNCHANGED <<curr_watch_state, is_first_render, tab, start, keypad, dir, read>>

lvgl_thread ==
  \/ keypad_read_callback \/ RootAction \/ close_curr_page \/ CloseWatchface
  \/ ChangeState \/ ChangeTab \/ show_page \/ ShowWatchface

-----------------------------------------------------------------------------
(* init_ui on the main thread, from the end of its sleep of 100 ms *)

Main(from, to) == start = from /\ start' = to

(* Mutant: the flag stays *)
StillFirstRender == UNCHANGED is_first_render
RenderedOnce == is_first_render' = FALSE

init_ui ==
  /\ \/ /\ Main("sleep", "select")
        /\ curr_watch_state' = WATCHFACE
        /\ UNCHANGED <<is_first_render, drawn, face>>
     \/ /\ Main("select", "draw")
        /\ select_wf
        /\ UNCHANGED <<curr_watch_state, is_first_render, drawn, labels, shows, armed>>
     \/ /\ Main("draw", "start")
        /\ wf2_draw
        /\ UNCHANGED <<curr_watch_state, is_first_render, selected_wf, armed>>
     \/ /\ Main("start", "flag")
        /\ start_specific_timer
        /\ UNCHANGED <<curr_watch_state, is_first_render, drawn, selected_wf, labels, shows>>
     \/ /\ Main("flag", "done")
        /\ RenderedOnce
        /\ UNCHANGED <<curr_watch_state, drawn, face>>
  /\ UNCHANGED <<tab, keypad, lv, dir, read>>

-----------------------------------------------------------------------------
Init ==
  /\ start = "sleep"
  /\ curr_watch_state = UI_START /\ is_first_render = TRUE
  /\ selected_wf = FALSE /\ drawn = {} /\ tab = 1
  /\ labels = "null" /\ shows = "placeholder" /\ armed = FALSE
  /\ pending_key = "NONE" /\ key_pending = FALSE /\ input = {}
  /\ lv = "idle" /\ dir = 1 /\ read = UI_START
  /\ pressed = "NONE" /\ takes = 0 /\ torn = FALSE /\ startKeys = 0

Next ==
  \/ \E key \in Keys : KeyPressed(key)
  \/ input_cb
  \/ lvgl_thread
  \/ publish_tick_event \/ SecondPasses
  \/ init_ui

Spec == Init /\ [][Next]_vars

(* The kernel runs expired work, the LVGL thread sleeps between its polls   *)
(* only, and the main thread has the highest priority of the three.         *)
FairSpec == Spec /\ WF_vars(publish_tick_event) /\ WF_vars(lvgl_thread) /\ WF_vars(init_ui)

-----------------------------------------------------------------------------
(* Properties *)

Labels == {"idle", "check", "close", "stop", "clean", "deselect", "load", "store", "tab",
           "show", "select", "draw", "start"}

(* Types.  Start-up keys can move the state below _START, but none ever      *)
(* moves it past the last page.                                              *)
TypeOK ==
  /\ start \in {"sleep", "select", "draw", "start", "flag", "done"}
  /\ curr_watch_state \in (-MaxBelow)..APP /\ is_first_render \in BOOLEAN
  /\ selected_wf \in BOOLEAN /\ drawn \subseteq Pages /\ tab \in 0..2
  /\ labels \in {"null", "live", "deleted"} /\ shows \in {"placeholder", "time", "past"}
  /\ armed \in BOOLEAN
  /\ pending_key \in Keys \cup {"NONE"} /\ key_pending \in BOOLEAN
  /\ lv \in Labels /\ dir \in {-1, 1}

(* The tick, which runs beside the LVGL thread without a lock and finds the *)
(* label pointers of a closed watch face not reset, never writes through    *)
(* one of them: whenever it may come, no face is selected or its labels are *)
(* there.                                                                   *)
TickTouchesLiveLabels == armed /\ selected_wf => labels # "deleted"

(* Two threads, two stores, one read and one reset without a lock: a press  *)
(* that no poll interrupts is taken as the key it is, at most once, and     *)
(* stays pending until it is taken or the next press begins.  Only a poll   *)
(* between its two stores does harm, and no more than this: a press whose   *)
(* key is stored first may be taken twice, and in place of one whose flag   *)
(* is stored first the key before it is taken.                              *)
PressTakenOnce ==
  /\ [](input = {} /\ takes = 0 /\ pressed # "NONE" => key_pending /\ pending_key = pressed)
  /\ [][keypad_read_callback =>
         /\ takes' = 1 \/ (takes' = 2 /\ torn')
         /\ pending_key = pressed \/ (BetweenStores /\ <<"key", pressed>> \in input)]_vars

(* With no key in the sleep of init_ui, whenever the LVGL thread rests the  *)
(* current page is the only one drawn and the active tab is its tab.        *)
PagesExclusive ==
  startKeys = 0 /\ start = "done" /\ lv = "idle" =>
    drawn = {curr_watch_state} /\ tab = curr_watch_state - 1

(* As long as the watch face is the page, its labels are brought up to date *)
(* again and again, however it was reached, start-up keys included.         *)
FaceKeepsTicking ==
  <>[](start = "done" /\ lv = "idle" /\ curr_watch_state = WATCHFACE) => []<>(shows = "time")
=============================================================================
