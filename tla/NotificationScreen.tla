------------------------- MODULE NotificationScreen -------------------------
(***************************************************************************)
(* The notification page as the user walks through it with four keys:      *)
(* which object has the focus, what a key does there, and the detail       *)
(* screens opened from the cards (ui/notification_ui/notification_ui.c).   *)
(* Store, cards and the two threads are those of NotificationManager,      *)
(* whose every step is here a step with its effect on the focus.           *)
(*                                                                         *)
(* A refresh deletes all cards and draws new ones.  When the object that   *)
(* has the focus is deleted LVGL gives it to another of the group; which   *)
(* one is left open.                                                       *)
(***************************************************************************)
EXTENDS NotificationManager, FocusSearch

CONSTANTS
  ActionMsgs,  \* notifications with an action: calls and navigation
  MaxDetails   \* bound on detail screens open at a time

ASSUME ScreenAssumption == ActionMsgs \subseteq Msgs /\ MaxDetails \in Nat

VARIABLES
  focus,   \* the focused object
  details  \* open detail screens: the notification shown, and from which
           \* card's title it was opened, Gone when that card was deleted

screenVars == <<vars, focus, details>>

Gone == 0

-----------------------------------------------------------------------------
(* The tree of objects: n cards, and detail screens with one button or two  *)

content == <<"tabview_content", 0>>
scr == <<"notification_scr", 0>>
page_chain == <<"notify_page", 0>>
root_cont == <<"notification_root_cont", 0>>
scroll == <<"scroll_container", 0>>
empty == <<"empty_wrapper", 0>>

Numbered(name, n) == [i \in 1..n |-> <<name, i>>]

NavigableOfCards(n) == {"card", "title", "close"} \X (1..n)
NavigableOfDetails(buttons) ==
  ({"detail", "btn_cl"} \X DOMAIN buttons)
    \cup {<<"btn_ok", j>> : j \in {i \in DOMAIN buttons : buttons[i] = 2}}

Tree(n, buttons) ==
  LET group == {content, scr} \cup NavigableOfCards(n) \cup NavigableOfDetails(buttons)
      plain == {page_chain, root_cont, scroll, empty}
                 \cup ({"text_wrapper", "btn_wrapper"} \X (1..n))
                 \cup ({"bottom_bar"} \X DOMAIN buttons)
      Children(o) ==
        CASE o = content -> <<page_chain>>
          [] o = page_chain -> <<root_cont>>
          [] o = root_cont -> <<scr>>
          [] o = scr -> <<scroll>> \o Numbered("detail", Len(buttons))
          [] o = scroll -> IF n = 0 THEN <<empty>> ELSE Numbered("card", n)
          [] o[1] = "card" -> <<<<"text_wrapper", o[2]>>, <<"btn_wrapper", o[2]>>>>
          [] o[1] = "text_wrapper" -> <<<<"title", o[2]>>>>
          [] o[1] = "btn_wrapper" -> <<<<"close", o[2]>>>>
          [] o[1] = "detail" -> <<<<"bottom_bar", o[2]>>>>
          [] o[1] = "bottom_bar" ->
               (IF buttons[o[2]] = 2 THEN <<<<"btn_ok", o[2]>>>> ELSE <<>>)
                 \o <<<<"btn_cl", o[2]>>>>
          [] OTHER -> <<>>
  IN  TreeOf([o \in (group \cup plain) \ (IF n = 0 THEN {} ELSE {empty}) |-> Children(o)],
             group)

(* Every screen that can be, and where the four searches lead from each of  *)
(* its objects.                                                             *)
Shapes == (0..VISIBLE_CARDS) \X UNION {[1..d -> {1, 2}] : d \in 0..MaxDetails}
Trees == [shape \in Shapes |-> Tree(shape[1], shape[2])]
Walk ==
  [shape \in Shapes |->
     LET t == Trees[shape]
     IN  [o \in t.group |->
            [child |-> find_first_focusable_child_dfs(t, o),
             parent |-> find_first_focusable_parent_dfs(t, o),
             next |-> find_next_focusable_sibling(t, o),
             prev |-> find_prev_focusable_sibling(t, o)]]]

Buttons(ds) == [j \in DOMAIN ds |-> IF ds[j].msg \in ActionMsgs THEN 2 ELSE 1]
Screen == <<Len(cards), Buttons(details)>>

-----------------------------------------------------------------------------
(* Focus *)

OfCard(o) == o[1] \in {"card", "title", "close"}

(* All cards were deleted and drawn again.                                  *)
Redrawn ==
  /\ details' = [j \in DOMAIN details |-> [details[j] EXCEPT !.from = Gone]]
  /\ IF OfCard(focus)
     THEN focus' \in {content, scr} \cup NavigableOfDetails(Buttons(details))
     ELSE UNCHANGED focus

FocusOn(o) == focus' = (IF o = NoObj THEN focus ELSE o) /\ UNCHANGED <<vars, details>>

AtScreen == nav = "idle" /\ drawn

-----------------------------------------------------------------------------
(* Keys, by what handles them on the way up from the focused object:        *)
(* title_key_cb, card_action_cb, detail_screen_key_cb,                      *)
(* handle_notification_screen_keys_cb, and handle_root_scr_actions          *)

Inside == focus # content /\ focus # scr

IsEdge(o, key) ==
  (o = <<"card", 1>> /\ key = "LEFT") \/ (o = <<"card", VISIBLE_CARDS>> /\ key = "RIGHT")

key_right ==
  /\ AtScreen /\ Inside /\ ~IsEdge(focus, "RIGHT")
  /\ FocusOn(Walk[Screen][focus].next)

key_left ==
  /\ AtScreen /\ Inside /\ ~IsEdge(focus, "LEFT")
  /\ FocusOn(Walk[Screen][focus].prev)

(* rebase_and_populate_cards focuses the card at the same edge. *)
edge_left ==
  /\ focus = <<"card", 1>> /\ card_left
  /\ details' = [j \in DOMAIN details |-> [details[j] EXCEPT !.from = Gone]]
  /\ UNCHANGED focus

edge_right ==
  /\ focus = <<"card", VISIBLE_CARDS>> /\ card_right
  /\ details' = [j \in DOMAIN details |-> [details[j] EXCEPT !.from = Gone]]
  /\ UNCHANGED focus

key_esc ==
  /\ AtScreen /\ Inside /\ focus[1] # "detail"
  /\ FocusOn(Walk[Screen][focus].parent)

key_enter ==
  /\ AtScreen /\ focus[1] # "title"
  /\ FocusOn(Walk[Screen][focus].child)

CardDataFromNewest(k) == all_noti[write_idx + k - 1]  \* mutant

(* card_data[k].n points into the store, where the list was at the last     *)
(* refresh.                                                                 *)
CardData(k) == all_noti[notif_list + noti_curr_base_idx + k - 1]

open_detail(k) ==
  /\ AtScreen /\ focus = <<"title", k>> /\ Len(details) < MaxDetails
  /\ details' = Append(details, [msg |-> CardData(k), from |-> k])
  /\ focus' = <<"detail", Len(details) + 1>>
  /\ UNCHANGED vars

(* Back to the title.  If that was deleted the code focuses freed memory:   *)
(* a crash, which ends the behaviour, or no effect, and then the deletion   *)
(* of the focused detail screen moves the focus.                            *)
close_detail(j) ==
  /\ AtScreen /\ focus = <<"detail", j>> /\ j \in DOMAIN details
  /\ details' = RemoveIndex(details, j) /\ UNCHANGED vars
  /\ IF details[j].from # Gone
     THEN focus' = <<"title", details[j].from>>
     ELSE focus' \in Trees[<<Len(cards), Buttons(details')>>].group

(* The keypad clicks the focused button. *)
click_close(k) == focus = <<"close", k>> /\ dismiss_handler_cb(k) /\ Redrawn

-----------------------------------------------------------------------------
(* The other steps of NotificationManager *)

Arrival(m) == receive_notification(m) /\ UNCHANGED <<focus, details>>

Notice ==
  /\ update_notification_ui
  /\ IF notify /\ drawn THEN Redrawn ELSE UNCHANGED <<focus, details>>

EnterPage == EnterState /\ UNCHANGED <<focus, details>>
DrawPage == draw_notification_ui /\ focus' = scr /\ UNCHANGED details

(* RIGHT where no object of the page takes it *)
LeavePage == ~Inside /\ del_notification_ui /\ focus' = content /\ details' = <<>>
LeftPage == LeaveState /\ UNCHANGED <<focus, details>>

ScreenInit == Init /\ focus = content /\ details = <<>>

ScreenNext ==
  \/ \E m \in Msgs : Arrival(m)
  \/ Notice
  \/ key_right \/ key_left \/ edge_left \/ edge_right \/ key_esc \/ key_enter
  \/ \E k \in 1..VISIBLE_CARDS : open_detail(k) \/ click_close(k)
  \/ \E j \in 1..MaxDetails : close_detail(j)
  \/ EnterPage \/ DrawPage \/ LeavePage \/ LeftPage

ScreenSpec == ScreenInit /\ [][ScreenNext]_screenVars

-----------------------------------------------------------------------------
(* Properties *)

Verdicts ==
  {<<shape, \A o \in Trees[shape].group : Walk[shape][o] = InTreeOrder(Trees[shape], o)>> :
     shape \in Shapes}

(* On every screen that arrivals, dismissals and open detail screens leave, *)
(* the four searches are right: ENTER goes to the first object inside, ESC  *)
(* back out of it, RIGHT and LEFT to the neighbours in the order of the     *)
(* tree and never past either end.                                          *)
SearchesAgree == drawn => <<Screen, TRUE>> \in Verdicts

(* A detail screen shows the notification of the card to which ESC returns, *)
(* as long as that card exists: it was not opened through a pointer whose   *)
(* target had moved, and the focus goes back to a title that is there.      *)
(* (A notification that arrives at a full store moves the others under the  *)
(* cards until the refresh.)                                                *)
DetailOfCard ==
  rx = "idle" \/ write_idx > 0 =>
    \A j \in DOMAIN details :
      details[j].from # Gone =>
        details[j].from \in DOMAIN cards /\ details[j].msg = cards[details[j].from]
=============================================================================
