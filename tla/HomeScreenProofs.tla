-------------------------- MODULE HomeScreenProofs --------------------------
(***************************************************************************)
(* Proofs about HomeScreen, for any number of keys of start-up that fit    *)
(* into its sleep and any distance below the first state.                  *)
(***************************************************************************)
EXTENDS HomeScreen, TLAPS

(* The steps of a change of page before curr_watch_state is stored, those   *)
(* that close the watch face, and those that open it *)
Leaving == {"close", "stop", "clean", "deselect", "load", "store"}
FaceCloses == {"stop", "clean", "deselect"}
FaceOpens == {"select", "draw", "start"}

(* The Boolean part of TypeOK *)
FlagsOK ==
  is_first_render \in BOOLEAN /\ selected_wf \in BOOLEAN /\ armed \in BOOLEAN
  /\ key_pending \in BOOLEAN

(* Before, between and behind the stores of a press: what is pending is the *)
(* last press, as long as no poll has taken it or come between its stores.  *)
FlagFirst == input = {<<"key", pressed>>}
KeyFirst == input = {<<"flag", pressed>>}
AtRest == input = {} \/ \E key \in Keys : input = Stores(key)

PressKept ==
  /\ pressed \in Keys \cup {"NONE"} /\ takes \in 0..2 /\ torn \in BOOLEAN
  /\ FlagFirst \/ KeyFirst \/ AtRest
  /\ FlagFirst \/ KeyFirst => pressed \in Keys /\ (takes = 0 \/ (takes = 1 /\ torn = TRUE))
  /\ ~FlagFirst => pending_key = pressed
  /\ takes = 0 /\ ~KeyFirst /\ pressed # "NONE" => key_pending = TRUE
  /\ key_pending = TRUE => takes = 0 \/ (takes = 1 /\ torn = TRUE /\ AtRest)

(* Nothing moves past the last page: a change of page under way was allowed *)
(* by the state that it will change.                                        *)
EndLooked ==
  /\ read \in (-MaxBelow)..APP
  /\ dir = 1 /\ lv \in Leaving \ {"store"} => curr_watch_state # APP
  /\ dir = 1 /\ lv = "store" => read # APP

(* The keys of start-up are too few to reach the watch face and leave it    *)
(* again, so no face is closed before it has been drawn for the first time. *)
StartIsShort ==
  /\ startKeys \in 0..MaxStartKeys
  /\ start # "done" => lv \notin FaceCloses
  /\ start = "done" => is_first_render = FALSE
  /\ start = "sleep" =>
       /\ curr_watch_state <= startKeys
       /\ lv \in {"check", "close", "load"} => curr_watch_state < startKeys
       /\ lv = "store" => read < startKeys

(* The tick is stopped before the labels go, and they are drawn again       *)
(* before it starts.                                                        *)
TickStops ==
  /\ labels = "deleted" \/ lv = "clean" => armed = FALSE
  /\ lv = "start" \/ start = "start" => labels # "deleted"

(* Where pages and tab are between two rests, without a key in start-up     *)
OnePage ==
  startKeys = 0 =>
    /\ start # "done" =>
         /\ lv = "idle" /\ tab = 1
         /\ drawn = IF start \in {"start", "flag"} THEN {WATCHFACE} ELSE {}
         /\ start # "sleep" => curr_watch_state = WATCHFACE
    /\ start = "done" =>
         /\ curr_watch_state \in Pages
         /\ tab = IF lv = "tab" THEN curr_watch_state - dir - 1 ELSE curr_watch_state - 1
         /\ drawn = IF lv \in {"idle", "check", "close", "stop", "clean", "start"}
                    THEN {curr_watch_state} ELSE {}
         /\ lv \in FaceCloses \cup FaceOpens => curr_watch_state = WATCHFACE
         /\ lv \in Leaving => curr_watch_state + dir \in Pages
         /\ lv = "store" => read = curr_watch_state

(* The inductive invariant *)
IInv == TypeOK /\ PressKept /\ EndLooked /\ StartIsShort /\ TickStops /\ OnePage

USE HomeAssumption
    DEF UI_START, NOTIFY, WATCHFACE, APP, UI_END, Pages, Keys, MaxTakes, Labels,
        Leaving, FaceCloses, FaceOpens, At, Then, Main, pages, face, keypad, press

(* The two stores of a press are not one. *)
LEMMA TwoStores ==
  ASSUME NEW a, NEW b
  PROVE  /\ Stores(a) # {} /\ Stores(a) # {<<"key", b>>} /\ Stores(a) # {<<"flag", b>>}
         /\ {<<"flag", a>>} # {<<"key", b>>}
<1>1. <<"flag", a>> # <<"key", b>> /\ <<"key", a>> # <<"flag", b>>
  OBVIOUS
<1>2. <<"flag", a>> \in Stores(a) /\ <<"key", a>> \in Stores(a)
  BY DEF Stores
<1> QED
  BY <1>1, <1>2

(* Between the stores of a press the thread is not at rest. *)
LEMMA NotAtRest == FlagFirst \/ KeyFirst => ~AtRest
  BY TwoStores, Zenon DEF FlagFirst, KeyFirst, AtRest

LEMMA InitIInv == Init => IInv
<1> SUFFICES ASSUME Init PROVE IInv
  OBVIOUS
<1>1. TypeOK
  <2>1. FlagsOK
    BY Zenon DEF Init, FlagsOK
  <2> QED
    BY <2>1 DEF Init, TypeOK, FlagsOK
<1>2. PressKept
  <2>1. torn \in BOOLEAN
    BY Zenon DEF Init
  <2>2. /\ input = {} /\ pressed = "NONE" /\ pending_key = "NONE" /\ takes = 0
        /\ key_pending = FALSE
    BY Zenon DEF Init
  <2>3. ~FlagFirst /\ ~KeyFirst /\ AtRest
    BY <2>2 DEF FlagFirst, KeyFirst, AtRest
  <2> QED
    BY <2>1, <2>2, <2>3 DEF PressKept
<1>3. EndLooked
  BY DEF Init, EndLooked, TypeOK
<1>4. StartIsShort
  BY DEF Init, StartIsShort, TypeOK
<1>5. TickStops
  BY DEF Init, TickStops, TypeOK
<1>6. OnePage
  BY DEF Init, OnePage, TypeOK
<1> QED
  BY <1>1, <1>2, <1>3, <1>4, <1>5, <1>6 DEF IInv

LEMMA KeyPressedKeeps == IInv /\ (\E key \in Keys : KeyPressed(key)) => IInv'
<1> SUFFICES ASSUME IInv, \E key \in Keys : KeyPressed(key) PROVE IInv'
  OBVIOUS
<1> USE DEF KeyPressed, Stores
<1>1. TypeOK'
  BY DEF IInv, TypeOK
<1>2. PressKept'
  <2>1. PICK key \in Keys : input = {} /\ input' = Stores(key)
    BY Zenon
  <2>2. ~FlagFirst /\ ~KeyFirst /\ AtRest
    BY <2>1 DEF FlagFirst, KeyFirst, AtRest
  <2>3. ~FlagFirst' /\ ~KeyFirst'
    BY <2>1, TwoStores, Zenon DEF FlagFirst, KeyFirst
  <2>4. AtRest'
    BY <2>1 DEF AtRest
  <2>5. UNCHANGED <<pending_key, key_pending, pressed, takes, torn>>
    BY Zenon
  <2> QED
    BY <2>2, <2>3, <2>4, <2>5 DEF IInv, PressKept
<1>3. EndLooked'
  BY DEF IInv, EndLooked, TypeOK
<1>4. StartIsShort'
  BY DEF IInv, StartIsShort, TypeOK
<1>5. TickStops'
  BY DEF IInv, TickStops, TypeOK
<1>6. OnePage'
  BY DEF IInv, OnePage, TypeOK
<1> QED
  BY <1>1, <1>2, <1>3, <1>4, <1>5, <1>6 DEF IInv

LEMMA InputCbKeeps == IInv /\ input_cb => IInv'
<1> SUFFICES ASSUME IInv, input_cb PROVE IInv'
  OBVIOUS
<1> USE DEF input_cb
<1>0. PICK s \in input :
        /\ input' = input \ {s}
        /\ \/ /\ s[1] = "key" /\ s[2] \in Keys
              /\ pending_key' = s[2] /\ UNCHANGED key_pending
           \/ /\ s[1] = "flag" /\ s[2] \in Keys
              /\ key_pending' = TRUE /\ UNCHANGED pending_key
        /\ IF input' # {} THEN pressed' = s[2] /\ takes' = 0 /\ torn' = FALSE
           ELSE UNCHANGED press
  <2>1. PICK s \in input :
          /\ input' = input \ {s}
          /\ IF s[1] = "key" THEN pending_key' = s[2] /\ UNCHANGED key_pending
             ELSE key_pending' = TRUE /\ UNCHANGED pending_key
          /\ IF input' # {} THEN pressed' = s[2] /\ takes' = 0 /\ torn' = FALSE
             ELSE UNCHANGED press
    BY Zenon
  <2>2. s[1] \in {"key", "flag"} /\ s[2] \in Keys
    BY DEF IInv, PressKept, FlagFirst, KeyFirst, AtRest, Stores
  <2> QED
    BY <2>1, <2>2
<1>1. TypeOK'
  <2>1. FlagsOK'
    BY Zenon DEF IInv, TypeOK, FlagsOK
  <2>2. pending_key' \in Keys \cup {"NONE"}
    BY Zenon, <1>0 DEF IInv, TypeOK
  <2> QED
    BY <2>1, <2>2 DEF IInv, TypeOK, FlagsOK
<1>2. PressKept'
  <2>1. CASE FlagFirst
    <3>1. s = <<"key", pressed>> /\ input' = {}
      BY <1>0, <2>1 DEF FlagFirst
    <3>2. /\ pending_key' = pressed /\ UNCHANGED <<key_pending, pressed, takes, torn>>
          /\ pressed \in Keys
      BY <1>0, <3>1
    <3>3. ~FlagFirst' /\ ~KeyFirst' /\ AtRest' /\ ~KeyFirst
      BY <2>1, <3>1 DEF FlagFirst, KeyFirst, AtRest
    <3>4. takes = 1 => key_pending = FALSE
      <4>1. ~AtRest
        BY <2>1, NotAtRest
      <4> QED
        BY <4>1 DEF IInv, PressKept, TypeOK
    <3> QED
      BY <2>1, <3>2, <3>3, <3>4 DEF IInv, PressKept
  <2>2. CASE KeyFirst
    <3>1. s = <<"flag", pressed>> /\ input' = {}
      BY <1>0, <2>2 DEF KeyFirst
    <3>2. key_pending' = TRUE /\ UNCHANGED <<pending_key, pressed, takes, torn>>
      BY <1>0, <3>1
    <3>3. ~FlagFirst' /\ ~KeyFirst' /\ AtRest' /\ ~FlagFirst
      BY <2>2, <3>1 DEF FlagFirst, KeyFirst, AtRest
    <3>4. takes = 0 \/ (takes = 1 /\ torn = TRUE)
      BY <2>2 DEF IInv, PressKept
    <3> QED
      BY <3>2, <3>3, <3>4 DEF IInv, PressKept
  <2>3. CASE AtRest
    <3>1. PICK key \in Keys : input = Stores(key)
      BY <2>3 DEF AtRest
    <3>2. CASE s = <<"key", key>>
      <4>1. input' = {<<"flag", key>>}
        BY <1>0, <3>1, <3>2 DEF Stores
      <4>2. /\ pending_key' = key /\ pressed' = key /\ takes' = 0 /\ torn' = FALSE
            /\ UNCHANGED key_pending
        BY <1>0, <3>2, <4>1
      <4>3. KeyFirst' /\ ~FlagFirst'
        BY <4>1, <4>2, TwoStores, Zenon DEF KeyFirst, FlagFirst
      <4>4. takes' = 0 /\ torn' \in BOOLEAN
        BY <4>2, Zenon
      <4>6. takes' \in 0..2
        BY <4>4
      <4>5. pressed' \in Keys
        BY <3>1, <4>2
      <4> QED
        BY <4>2, <4>3, <4>4, <4>5, <4>6, Zenon DEF PressKept
    <3>3. CASE s = <<"flag", key>>
      <4>1. input' = {<<"key", key>>}
        BY <1>0, <3>1, <3>3 DEF Stores
      <4>2. pressed' = key /\ takes' = 0 /\ torn' = FALSE /\ key_pending' = TRUE
        BY <1>0, <3>3, <4>1
      <4>3. FlagFirst'
        BY <4>1, <4>2 DEF FlagFirst
      <4>4. takes' = 0 /\ torn' \in BOOLEAN
        BY <4>2, Zenon
      <4>6. takes' \in 0..2
        BY <4>4
      <4>5. pressed' \in Keys
        BY <3>1, <4>2
      <4> QED
        BY <4>2, <4>3, <4>4, <4>5, <4>6, Zenon DEF PressKept
    <3> QED
      BY <3>1, <3>2, <3>3 DEF Stores
  <2> QED
    BY <2>1, <2>2, <2>3 DEF IInv, PressKept
<1>3. EndLooked'
  BY DEF IInv, EndLooked, TypeOK
<1>4. StartIsShort'
  BY DEF IInv, StartIsShort, TypeOK
<1>5. TickStops'
  BY DEF IInv, TickStops, TypeOK
<1>6. OnePage'
  BY DEF IInv, OnePage, TypeOK
<1> QED
  BY <1>1, <1>2, <1>3, <1>4, <1>5, <1>6 DEF IInv

LEMMA ReadKeyKeeps == IInv /\ keypad_read_callback => IInv'
<1> SUFFICES ASSUME IInv, keypad_read_callback PROVE IInv'
  OBVIOUS
<1> USE DEF keypad_read_callback, ClearPending
<1>1. TypeOK'
  BY ZenonT(60) DEF IInv, TypeOK
<1>2. PressKept'
  <2>1. /\ takes' = IF takes < 3 THEN takes + 1 ELSE takes
        /\ torn' = IF BetweenStores THEN TRUE ELSE torn
        /\ key_pending' = FALSE /\ key_pending = TRUE
        /\ UNCHANGED <<pending_key, input, pressed>>
    BY Zenon DEF IInv, TypeOK
  <2>2. /\ FlagFirst' <=> FlagFirst
        /\ KeyFirst' <=> KeyFirst
        /\ AtRest' <=> AtRest
    BY <2>1 DEF FlagFirst, KeyFirst, AtRest
  <2>3. takes' \in 1..2 /\ torn' \in BOOLEAN
    <3>1. takes \in 0..1
      BY <2>1 DEF IInv, PressKept
    <3>2. torn \in BOOLEAN
      BY Zenon DEF IInv, PressKept
    <3>3. torn' \in BOOLEAN
      BY <2>1, <3>2, Zenon
    <3>4. takes' \in 1..2
      BY <2>1, <3>1
    <3> QED
      BY <3>3, <3>4
  <2>4. FlagFirst \/ KeyFirst => ~AtRest
    BY NotAtRest
  <2>5. FlagFirst \/ KeyFirst => takes' = 1
    BY <2>1, <2>4 DEF IInv, PressKept
  <2>6. FlagFirst \/ KeyFirst => torn' = TRUE /\ pressed' \in Keys
    <3>1. FlagFirst \/ KeyFirst => BetweenStores
      BY Zenon DEF FlagFirst, KeyFirst, BetweenStores
    <3> QED
      BY <2>1, <3>1 DEF IInv, PressKept
  <2>7. /\ pressed' \in Keys \cup {"NONE"}
        /\ FlagFirst' \/ KeyFirst' \/ AtRest'
        /\ ~FlagFirst' => pending_key' = pressed'
    BY <2>1, <2>2, Zenon DEF IInv, PressKept
  <2>8. takes' # 0 /\ takes' \in 0..2
    BY <2>3
  <2>9. key_pending' # TRUE
    BY <2>1, Zenon
  <2> QED
    BY <2>2, <2>3, <2>5, <2>6, <2>7, <2>8, <2>9, Zenon DEF PressKept
<1>3. EndLooked'
  BY DEF IInv, EndLooked, TypeOK
<1>4. StartIsShort'
  BY DEF IInv, StartIsShort, TypeOK
<1>5. TickStops'
  BY DEF IInv, TickStops, TypeOK
<1>6. OnePage'
  <2>1. CASE start = "sleep"
    BY <2>1 DEF IInv, OnePage, TypeOK, StartIsShort
  <2>2. CASE start = "done"
    BY <2>2 DEF IInv, OnePage, TypeOK
  <2> QED
    BY <2>1, <2>2
<1> QED
  BY <1>1, <1>2, <1>3, <1>4, <1>5, <1>6 DEF IInv

LEMMA RootKeeps == IInv /\ RootAction => IInv'
<1> SUFFICES ASSUME IInv, RootAction PROVE IInv'
  OBVIOUS
<1> USE DEF RootAction, NotAtEnd
<1>1. TypeOK'
  BY DEF IInv, TypeOK
<1>2. PressKept'
  BY DEF IInv, PressKept, FlagFirst, KeyFirst, AtRest, Stores, BetweenStores
<1>3. EndLooked'
  BY DEF IInv, EndLooked, TypeOK
<1>4. StartIsShort'
  BY DEF IInv, StartIsShort, TypeOK
<1>5. TickStops'
  BY DEF IInv, TickStops, TypeOK
<1>6. OnePage'
  BY DEF IInv, OnePage, TypeOK
<1> QED
  BY <1>1, <1>2, <1>3, <1>4, <1>5, <1>6 DEF IInv

LEMMA ClosePageKeeps == IInv /\ close_curr_page => IInv'
<1> SUFFICES ASSUME IInv, close_curr_page PROVE IInv'
  OBVIOUS
<1> USE DEF close_curr_page
<1>1. TypeOK'
  BY ZenonT(60) DEF IInv, TypeOK
<1>2. PressKept'
  BY DEF IInv, PressKept, FlagFirst, KeyFirst, AtRest, Stores, BetweenStores
<1>3. EndLooked'
  BY DEF IInv, EndLooked, TypeOK
<1>4. StartIsShort'
  BY DEF IInv, StartIsShort, TypeOK
<1>5. TickStops'
  BY DEF IInv, TickStops, StartIsShort, TypeOK
<1>6. OnePage'
  BY DEF IInv, OnePage, TypeOK
<1> QED
  BY <1>1, <1>2, <1>3, <1>4, <1>5, <1>6 DEF IInv

LEMMA CloseFaceKeeps == IInv /\ CloseWatchface => IInv'
<1> SUFFICES ASSUME IInv, CloseWatchface PROVE IInv'
  OBVIOUS
<1> USE DEF CloseWatchface, stop_specific_timer
<1>1. TypeOK'
  <2>1. FlagsOK'
    BY Zenon DEF IInv, TypeOK, FlagsOK
  <2> QED
    BY ZenonT(60), <2>1 DEF IInv, TypeOK, FlagsOK
<1>2. PressKept'
  BY DEF IInv, PressKept, FlagFirst, KeyFirst, AtRest, Stores, BetweenStores
<1>3. EndLooked'
  BY DEF IInv, EndLooked, TypeOK
<1>4. StartIsShort'
  BY DEF IInv, StartIsShort, TypeOK
<1>5. TickStops'
  BY DEF IInv, TickStops, TypeOK
<1>6. OnePage'
  BY DEF IInv, OnePage, TypeOK
<1> QED
  BY <1>1, <1>2, <1>3, <1>4, <1>5, <1>6 DEF IInv

LEMMA ChangeKeeps == IInv /\ ChangeState => IInv'
<1> SUFFICES ASSUME IInv, ChangeState PROVE IInv'
  OBVIOUS
<1> USE DEF ChangeState
<1>1. TypeOK'
  <2>1. FlagsOK'
    BY Zenon DEF IInv, TypeOK, FlagsOK
  <2> QED
    BY <2>1 DEF IInv, TypeOK, FlagsOK, EndLooked
<1>2. PressKept'
  BY DEF IInv, PressKept, FlagFirst, KeyFirst, AtRest, Stores, BetweenStores
<1>3. EndLooked'
  BY DEF IInv, EndLooked, TypeOK
<1>4. StartIsShort'
  BY DEF IInv, StartIsShort, EndLooked, TypeOK
<1>5. TickStops'
  BY DEF IInv, TickStops, TypeOK
<1>6. OnePage'
  BY DEF IInv, OnePage, TypeOK
<1> QED
  BY <1>1, <1>2, <1>3, <1>4, <1>5, <1>6 DEF IInv

LEMMA TabKeeps == IInv /\ ChangeTab => IInv'
<1> SUFFICES ASSUME IInv, ChangeTab PROVE IInv'
  OBVIOUS
<1> USE DEF ChangeTab, lv_tabview_set_active
<1>1. TypeOK'
  BY DEF IInv, TypeOK
<1>2. PressKept'
  BY DEF IInv, PressKept, FlagFirst, KeyFirst, AtRest, Stores, BetweenStores
<1>3. EndLooked'
  BY DEF IInv, EndLooked, TypeOK
<1>4. StartIsShort'
  BY DEF IInv, StartIsShort, TypeOK
<1>5. TickStops'
  BY DEF IInv, TickStops, TypeOK
<1>6. OnePage'
  BY DEF IInv, OnePage, TypeOK
<1> QED
  BY <1>1, <1>2, <1>3, <1>4, <1>5, <1>6 DEF IInv

LEMMA ShowKeeps == IInv /\ show_page => IInv'
<1> SUFFICES ASSUME IInv, show_page PROVE IInv'
  OBVIOUS
<1> USE DEF show_page
<1>1. TypeOK'
  BY ZenonT(60) DEF IInv, TypeOK
<1>2. PressKept'
  BY DEF IInv, PressKept, FlagFirst, KeyFirst, AtRest, Stores, BetweenStores
<1>3. EndLooked'
  BY DEF IInv, EndLooked, TypeOK
<1>4. StartIsShort'
  BY DEF IInv, StartIsShort, TypeOK
<1>5. TickStops'
  BY DEF IInv, TickStops, TypeOK
<1>6. OnePage'
  BY DEF IInv, OnePage, TypeOK
<1> QED
  BY <1>1, <1>2, <1>3, <1>4, <1>5, <1>6 DEF IInv

LEMMA ShowFaceKeeps == IInv /\ ShowWatchface => IInv'
<1> SUFFICES ASSUME IInv, ShowWatchface PROVE IInv'
  OBVIOUS
<1> USE DEF ShowWatchface, select_wf, wf2_draw, start_specific_timer
<1>1. TypeOK'
  <2>1. FlagsOK'
    BY Zenon DEF IInv, TypeOK, FlagsOK
  <2> QED
    BY ZenonT(60), <2>1 DEF IInv, TypeOK, FlagsOK
<1>2. PressKept'
  BY DEF IInv, PressKept, FlagFirst, KeyFirst, AtRest, Stores, BetweenStores
<1>3. EndLooked'
  BY DEF IInv, EndLooked, TypeOK
<1>4. StartIsShort'
  BY DEF IInv, StartIsShort, TypeOK
<1>5. TickStops'
  BY DEF IInv, TickStops, TypeOK
<1>6. OnePage'
  BY DEF IInv, OnePage, TypeOK
<1> QED
  BY <1>1, <1>2, <1>3, <1>4, <1>5, <1>6 DEF IInv

LEMMA TickKeeps == IInv /\ publish_tick_event => IInv'
<1> SUFFICES ASSUME IInv, publish_tick_event PROVE IInv'
  OBVIOUS
<1> USE DEF publish_tick_event, forward_wf_event, wf2_update, PublishAgain
<1>1. TypeOK'
  BY DEF IInv, TypeOK
<1>2. PressKept'
  BY DEF IInv, PressKept, FlagFirst, KeyFirst, AtRest, Stores, BetweenStores
<1>3. EndLooked'
  BY DEF IInv, EndLooked, TypeOK
<1>4. StartIsShort'
  BY DEF IInv, StartIsShort, TypeOK
<1>5. TickStops'
  BY DEF IInv, TickStops, TypeOK
<1>6. OnePage'
  BY DEF IInv, OnePage, TypeOK
<1> QED
  BY <1>1, <1>2, <1>3, <1>4, <1>5, <1>6 DEF IInv

LEMMA SecondKeeps == IInv /\ SecondPasses => IInv'
<1> SUFFICES ASSUME IInv, SecondPasses PROVE IInv'
  OBVIOUS
<1> USE DEF SecondPasses
<1>1. TypeOK'
  BY DEF IInv, TypeOK
<1>2. PressKept'
  BY DEF IInv, PressKept, FlagFirst, KeyFirst, AtRest, Stores, BetweenStores
<1>3. EndLooked'
  BY DEF IInv, EndLooked, TypeOK
<1>4. StartIsShort'
  BY DEF IInv, StartIsShort, TypeOK
<1>5. TickStops'
  BY DEF IInv, TickStops, TypeOK
<1>6. OnePage'
  BY DEF IInv, OnePage, TypeOK
<1> QED
  BY <1>1, <1>2, <1>3, <1>4, <1>5, <1>6 DEF IInv

LEMMA InitUiKeeps == IInv /\ init_ui => IInv'
<1> SUFFICES ASSUME IInv, init_ui PROVE IInv'
  OBVIOUS
<1> USE DEF init_ui, select_wf, wf2_draw, start_specific_timer, RenderedOnce
<1>1. TypeOK'
  <2>1. FlagsOK'
    BY Zenon DEF IInv, TypeOK, FlagsOK
  <2>2. CASE start = "sleep"
    <3>1. curr_watch_state' \in (-MaxBelow)..APP
      BY <2>2
    <3>2. start' \in {"sleep", "select", "draw", "start", "flag", "done"}
      BY <2>2
    <3>3. drawn' \subseteq Pages /\ tab' \in 0..2
      BY <2>2 DEF IInv, TypeOK
    <3>4. /\ labels' \in {"null", "live", "deleted"}
          /\ shows' \in {"placeholder", "time", "past"}
          /\ pending_key' \in Keys \cup {"NONE"}
          /\ lv' \in Labels /\ dir' \in {-1, 1}
      BY <2>2 DEF IInv, TypeOK
    <3> QED
      BY <2>1, <3>1, <3>2, <3>3, <3>4 DEF TypeOK, FlagsOK
  <2>3. CASE start = "select"
    BY ZenonT(60), <2>1, <2>3 DEF IInv, TypeOK, FlagsOK
  <2>4. CASE start = "draw"
    BY ZenonT(60), <2>1, <2>4 DEF IInv, TypeOK, FlagsOK
  <2>5. CASE start = "start"
    BY ZenonT(60), <2>1, <2>5 DEF IInv, TypeOK, FlagsOK
  <2>6. CASE start = "flag"
    BY ZenonT(60), <2>1, <2>6 DEF IInv, TypeOK, FlagsOK
  <2> QED
    BY <2>2, <2>3, <2>4, <2>5, <2>6
<1>2. PressKept'
  BY DEF IInv, PressKept, FlagFirst, KeyFirst, AtRest, Stores, BetweenStores
<1>3. EndLooked'
  BY DEF IInv, EndLooked, TypeOK
<1>4. StartIsShort'
  BY DEF IInv, StartIsShort, TypeOK
<1>5. TickStops'
  BY DEF IInv, TickStops, StartIsShort, TypeOK
<1>6. OnePage'
  <2>2. CASE start = "sleep"
    BY <2>2 DEF IInv, OnePage, TypeOK
  <2>3. CASE start = "select"
    BY <2>3 DEF IInv, OnePage, TypeOK
  <2>4. CASE start = "draw"
    BY <2>4 DEF IInv, OnePage, TypeOK
  <2>5. CASE start = "start"
    BY <2>5 DEF IInv, OnePage, TypeOK
  <2>6. CASE start = "flag"
    BY <2>6 DEF IInv, OnePage, TypeOK
  <2> QED
    BY <2>2, <2>3, <2>4, <2>5, <2>6
<1> QED
  BY <1>1, <1>2, <1>3, <1>4, <1>5, <1>6 DEF IInv

LEMMA StutterKeeps == IInv /\ UNCHANGED vars => IInv'
<1> SUFFICES ASSUME IInv, UNCHANGED vars PROVE IInv'
  OBVIOUS
<1> USE DEF vars
<1>1. TypeOK'
  BY DEF IInv, TypeOK
<1>2. PressKept'
  BY DEF IInv, PressKept, FlagFirst, KeyFirst, AtRest, Stores, BetweenStores
<1>3. EndLooked'
  BY DEF IInv, EndLooked, TypeOK
<1>4. StartIsShort'
  BY DEF IInv, StartIsShort, TypeOK
<1>5. TickStops'
  BY DEF IInv, TickStops, TypeOK
<1>6. OnePage'
  BY DEF IInv, OnePage, TypeOK
<1> QED
  BY <1>1, <1>2, <1>3, <1>4, <1>5, <1>6 DEF IInv

LEMMA StepIInv == IInv /\ [Next]_vars => IInv'
<1> SUFFICES ASSUME IInv, [Next]_vars PROVE IInv'
  OBVIOUS
<1>1. CASE lvgl_thread
  BY <1>1, ReadKeyKeeps, RootKeeps, ClosePageKeeps, CloseFaceKeeps, ChangeKeeps,
     TabKeeps, ShowKeeps, ShowFaceKeeps, Zenon DEF lvgl_thread
<1>2. CASE \E key \in Keys : KeyPressed(key)
  BY <1>2, KeyPressedKeeps, Zenon
<1> QED
  BY <1>1, <1>2, InputCbKeeps, TickKeeps, SecondKeeps, InitUiKeeps, StutterKeeps, Zenon
     DEF Next

-----------------------------------------------------------------------------
(* The inductive invariant holds in every reachable state. *)
THEOREM HomeInvariant == Spec => []IInv
<1> QED
  BY InitIInv, StepIInv, PTL DEF Spec

(* The state of the watch, the tab and what is drawn keep their types; no   *)
(* key moves the state past the last page (ui_manager.c).                   *)
THEOREM HomeTypeOK == Spec => []TypeOK
<1>1. IInv => TypeOK
  BY DEF IInv
<1> QED
  BY <1>1, HomeInvariant, PTL

(* The one-second tick (timers.c) never writes through the label pointers   *)
(* that a closed watch face leaves behind (wf2_ui.c).                       *)
THEOREM HomeTickTouchesLiveLabels == Spec => []TickTouchesLiveLabels
<1>1. IInv => TickTouchesLiveLabels
  BY DEF IInv, TickStops, TickTouchesLiveLabels
<1> QED
  BY <1>1, HomeInvariant, PTL

(* The LVGL thread takes a press of the input thread (encoder.c) as the key *)
(* it is and at most once, and does not lose it before the next, unless a   *)
(* poll comes between its two stores; then it takes it twice at most, or    *)
(* the key before it.                                                       *)
THEOREM HomePressTakenOnce == Spec => PressTakenOnce
<1>1. IInv => (input = {} /\ takes = 0 /\ pressed # "NONE"
                 => key_pending /\ pending_key = pressed)
  BY DEF IInv, PressKept, FlagFirst, KeyFirst
<1>2. IInv /\ [Next]_vars
        => [keypad_read_callback =>
              /\ takes' = 1 \/ (takes' = 2 /\ torn')
              /\ pending_key = pressed \/ (BetweenStores /\ <<"key", pressed>> \in input)]_vars
  <2> SUFFICES ASSUME IInv, keypad_read_callback
               PROVE  /\ takes' = 1 \/ (takes' = 2 /\ torn')
                      /\ \/ pending_key = pressed
                         \/ BetweenStores /\ <<"key", pressed>> \in input
    OBVIOUS
  <2>1. takes = 0 \/ (takes = 1 /\ torn)
    BY DEF IInv, PressKept, keypad_read_callback
  <2>2. takes' = 1 \/ (takes' = 2 /\ torn')
    BY <2>1 DEF keypad_read_callback
  <2>3. FlagFirst => BetweenStores /\ <<"key", pressed>> \in input
    BY DEF FlagFirst, BetweenStores
  <2> QED
    BY <2>2, <2>3 DEF IInv, PressKept
<1> QED
  BY <1>1, <1>2, HomeInvariant, PTL DEF Spec, PressTakenOnce

(* With no key during start-up, only the current page is drawn and its tab  *)
(* is the active one, whenever the LVGL thread rests (ui_manager.c).        *)
THEOREM HomePagesExclusive == Spec => []PagesExclusive
<1>1. IInv => PagesExclusive
  BY DEF IInv, OnePage, PagesExclusive
<1> QED
  BY <1>1, HomeInvariant, PTL
=============================================================================
