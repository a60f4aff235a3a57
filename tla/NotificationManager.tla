------------------------ MODULE NotificationManager ------------------------
(***************************************************************************)
(* The notification store (managers/notification_manager.c) together with  *)
(* the page that shows it (ui/notification_ui/notification_ui.c) and the   *)
(* page changes of ui_manager.c.                                           *)
(*                                                                         *)
(* Two threads share the store without a lock: the maintenance thread      *)
(* receives notifications and refreshes the page (event_manager.c), the    *)
(* LVGL thread dismisses, scrolls and changes pages.  They have the same   *)
(* priority; the model lets one run between the calls that the other       *)
(* makes, not inside one.  That a receive, a dismissal and a redraw are    *)
(* single steps is an assumption: none of the calls waits, but the kernel  *)
(* slices the time of threads of the same priority, and no slice is taken  *)
(* to end inside one of them.                                              *)
(***************************************************************************)
EXTENDS Integers, Sequences

CONSTANTS
  MAX_NOTIFICATION,
  VISIBLE_CARDS,
  UINT_MAX,   \* the largest unsigned int
  Msgs,       \* notifications
  NoMsg       \* a slot never written

ASSUME NotificationAssumption ==
  /\ MAX_NOTIFICATION \in Nat /\ MAX_NOTIFICATION > 0
  /\ VISIBLE_CARDS \in Nat /\ VISIBLE_CARDS > 1
  /\ UINT_MAX \in Nat /\ UINT_MAX > MAX_NOTIFICATION + VISIBLE_CARDS
  /\ NoMsg \notin Msgs

VARIABLES
  all_noti,   \* the store; the newest notification is at write_idx
  noti_len,
  write_idx,
  rx,         \* maintenance thread: between two events, or before the refresh
  notify,     \* curr_watch_state is NOTIFY
  drawn,      \* scroll_container is not NULL
  nav,        \* where the LVGL thread is in a change of page
  notif_list, \* slot that the page's list pointer points to
  noti_snapshot_len,
  noti_curr_base_idx,
  cards       \* the notifications on the screen

store == <<all_noti, noti_len, write_idx>>
page == <<notif_list, noti_snapshot_len, noti_curr_base_idx, cards>>
vars == <<store, rx, notify, drawn, nav, page>>

Slots == 0..(MAX_NOTIFICATION - 1)

(* The stored notifications, newest first. *)
Contents == [i \in 1..(MAX_NOTIFICATION - write_idx) |-> all_noti[write_idx + i - 1]]

RemoveIndex(s, i) == [j \in 1..(Len(s) - 1) |-> IF j < i THEN s[j] ELSE s[j + 1]]

-----------------------------------------------------------------------------
(* The page *)

(* populate_cards: at most VISIBLE_CARDS cards from the base on *)
PopulatedCards(first, len, base) ==
  LET upto == IF len < base + VISIBLE_CARDS THEN len ELSE base + VISIBLE_CARDS
  IN  [k \in 1..(upto - base) |-> all_noti[first + base + k - 1]]

(* get_all_notifications and populate_cards, reading the store as it is     *)
(* after the step: refresh of a page that is not drawn does nothing.        *)
Refresh(base) ==
  /\ notif_list' = write_idx'
  /\ noti_snapshot_len' = noti_len'
  /\ noti_curr_base_idx' = base
  /\ cards' = PopulatedCards(write_idx, noti_len, noti_curr_base_idx)'

RefreshNothing == UNCHANGED page  \* mutant
notification_ui_invalidate == IF drawn THEN Refresh(noti_curr_base_idx) ELSE UNCHANGED page

-----------------------------------------------------------------------------
(* The maintenance thread: EVENT_NOTIFICATION_RECEIVED *)

(* Mutant: the length is not taken back when the list is full *)
ReceiveLengthGrows(m) ==
  /\ rx = "idle" /\ rx' = "update"
  /\ all_noti' = [all_noti EXCEPT ![IF write_idx = 0 THEN 0 ELSE write_idx - 1] = m]
  /\ write_idx' = IF write_idx = 0 THEN 0 ELSE write_idx - 1
  /\ noti_len' = noti_len + 1
  /\ UNCHANGED <<notify, drawn, nav, page>>

(* Mutant: the slot after the newest one is overwritten *)
ReceiveSameSlot(m) ==
  /\ rx = "idle" /\ rx' = "update" /\ write_idx > 0
  /\ all_noti' = [all_noti EXCEPT ![IF write_idx = MAX_NOTIFICATION THEN write_idx - 1
                                    ELSE write_idx] = m]
  /\ write_idx' = write_idx - 1
  /\ noti_len' = noti_len + 1
  /\ UNCHANGED <<notify, drawn, nav, page>>

receive_notification(m) ==
  /\ rx = "idle" /\ rx' = "update"
  /\ IF write_idx = 0
     THEN /\ all_noti' = [s \in Slots |-> IF s = 0 THEN m
                                          ELSE IF s = MAX_NOTIFICATION - 1 THEN all_noti[s]
                                          ELSE all_noti[s + 1]]
          /\ UNCHANGED <<noti_len, write_idx>>
     ELSE /\ all_noti' = [all_noti EXCEPT ![write_idx - 1] = m]
          /\ write_idx' = write_idx - 1
          /\ noti_len' = noti_len + 1
  /\ UNCHANGED <<notify, drawn, nav, page>>

update_notification_ui ==
  /\ rx = "update" /\ rx' = "idle"
  /\ UNCHANGED <<store, notify, drawn, nav>>
  /\ IF notify THEN notification_ui_invalidate ELSE UNCHANGED page

-----------------------------------------------------------------------------
(* The LVGL thread: a click on a card's close button *)

DismissedOneTooFar(idx) ==  \* mutant
  /\ idx < noti_len
  /\ all_noti' = [s \in Slots |-> IF write_idx < s /\ s < write_idx + idx
                                  THEN all_noti[s - 1] ELSE all_noti[s]]
  /\ write_idx' = write_idx + 1
  /\ noti_len' = noti_len - 1

(* The store after dismiss_notification; an index out of range is refused. *)
dismiss_notification(idx) ==
  IF idx >= noti_len
  THEN UNCHANGED store
  ELSE /\ all_noti' = [s \in Slots |-> IF write_idx < s /\ s <= write_idx + idx
                                       THEN all_noti[s - 1] ELSE all_noti[s]]
       /\ write_idx' = write_idx + 1
       /\ noti_len' = noti_len - 1

(* Mutant: the base is moved only when the last card is alone on the page *)
DismissBaseLate ==
  IF noti_curr_base_idx + 1 >= noti_snapshot_len
  THEN IF noti_curr_base_idx = 0 THEN 0 ELSE noti_curr_base_idx - 1
  ELSE noti_curr_base_idx

(* The unsigned base may wrap below zero; "< 0" never holds, and the short  *)
(* list puts it back to 0.                                                  *)
DismissBase ==
  LET moved == IF noti_curr_base_idx + VISIBLE_CARDS >= noti_snapshot_len
               THEN IF noti_curr_base_idx = 0 THEN UINT_MAX ELSE noti_curr_base_idx - 1
               ELSE noti_curr_base_idx
  IN  IF noti_snapshot_len <= VISIBLE_CARDS THEN 0 ELSE moved

dismiss_handler_cb(k) ==
  /\ nav = "idle" /\ drawn /\ k \in DOMAIN cards
  /\ dismiss_notification(k - 1 + noti_curr_base_idx)
  /\ Refresh(DismissBase)
  /\ UNCHANGED <<rx, notify, drawn, nav>>

(* card_action_cb and rebase_and_populate_cards: the list is the one of the *)
(* last refresh.                                                            *)
Rebase(base) ==
  /\ noti_curr_base_idx' = base
  /\ cards' = PopulatedCards(notif_list, noti_snapshot_len, base)
  /\ UNCHANGED <<notif_list, noti_snapshot_len, store, rx, notify, drawn, nav>>

card_left ==
  /\ nav = "idle" /\ drawn /\ cards # <<>>
  /\ noti_curr_base_idx > 0
  /\ Rebase(noti_curr_base_idx - 1)

card_right ==
  /\ nav = "idle" /\ drawn /\ VISIBLE_CARDS \in DOMAIN cards
  /\ noti_curr_base_idx + VISIBLE_CARDS < noti_snapshot_len
  /\ Rebase(noti_curr_base_idx + 1)

-----------------------------------------------------------------------------
(* The LVGL thread: to this page and away from it (ui_manager.c:134-156).   *)
(* The page that is left is closed before curr_watch_state changes, and the *)
(* one that is entered is drawn after it.                                   *)

EnterState ==
  /\ nav = "idle" /\ ~notify
  /\ notify' = TRUE /\ nav' = "draw"
  /\ UNCHANGED <<store, rx, drawn, page>>

draw_notification_ui ==
  /\ nav = "draw" /\ nav' = "idle"
  /\ UNCHANGED <<store, rx, notify>>
  /\ drawn' = TRUE
  /\ Refresh(noti_curr_base_idx)

del_notification_ui ==
  /\ nav = "idle" /\ notify
  /\ nav' = "leave" /\ drawn' = FALSE /\ cards' = <<>>
  /\ UNCHANGED <<store, rx, notify, notif_list, noti_snapshot_len, noti_curr_base_idx>>

LeaveState ==
  /\ nav = "leave" /\ nav' = "idle"
  /\ notify' = FALSE
  /\ UNCHANGED <<store, rx, drawn, page>>

-----------------------------------------------------------------------------
Init ==
  /\ all_noti = [s \in Slots |-> NoMsg]
  /\ noti_len = 0 /\ write_idx = MAX_NOTIFICATION
  /\ rx = "idle" /\ nav = "idle" /\ notify = FALSE /\ drawn = FALSE
  /\ notif_list = 0 /\ noti_snapshot_len = 0 /\ noti_curr_base_idx = 0
  /\ cards = <<>>

Next ==
  \/ \E m \in Msgs : receive_notification(m)
  \/ update_notification_ui
  \/ \E k \in 1..VISIBLE_CARDS : dismiss_handler_cb(k)
  \/ card_left \/ card_right
  \/ EnterState \/ draw_notification_ui \/ del_notification_ui \/ LeaveState

Spec == Init /\ [][Next]_vars

-----------------------------------------------------------------------------
(* Properties *)

(* The length and the write index always agree, the slots from the write    *)
(* index on hold notifications, and the page's values stay in range.        *)
StoreOK ==
  /\ all_noti \in [Slots -> Msgs \cup {NoMsg}]
  /\ write_idx \in 0..MAX_NOTIFICATION
  /\ noti_len = MAX_NOTIFICATION - write_idx
  /\ \A s \in Slots : s >= write_idx => all_noti[s] \in Msgs

TypeOK ==
  /\ StoreOK
  /\ rx \in {"idle", "update"} /\ nav \in {"idle", "draw", "leave"}
  /\ notify \in BOOLEAN /\ drawn \in BOOLEAN
  /\ notif_list \in 0..MAX_NOTIFICATION
  /\ noti_snapshot_len \in 0..MAX_NOTIFICATION
  /\ noti_curr_base_idx \in 0..UINT_MAX

(* The base never leaves the list: it is 0 or a full page of notifications  *)
(* follows it.  The unsigned decrement of a dismissal therefore never       *)
(* leaves a wrapped base behind, and a page with notifications is never     *)
(* shown as empty or half empty.                                            *)
BaseInList ==
  noti_curr_base_idx = 0 \/ noti_curr_base_idx + VISIBLE_CARDS <= noti_snapshot_len

(* The page only reads slots that hold notifications. *)
CardsHoldNotifications == \A k \in DOMAIN cards : cards[k] \in Msgs

(* When neither thread is in the middle of something, the drawn page shows  *)
(* the store: no arrival is lost to a page change that races with it, and   *)
(* no dismissal or scroll leaves a stale card.                              *)
ScreenCurrent ==
  drawn /\ rx = "idle" /\ nav = "idle" =>
    cards = PopulatedCards(write_idx, noti_len, noti_curr_base_idx)

(* The store changes by one notification at a time: a received one comes    *)
(* first, a dismissed one leaves, all others stay in order.  (What happens  *)
(* when the store is full is OverflowDropsOne.)                             *)
OneAtATime ==
  [][ (write_idx > 0 \/ rx' = rx) =>
        \/ Contents' = Contents
        \/ \E m \in Msgs : Contents' = <<m>> \o Contents
        \/ \E i \in 1..noti_len : Contents' = RemoveIndex(Contents, i) ]_vars

(* A click on the close button of a card removes the notification that the  *)
(* card shows, unless one has just arrived and is not yet on the screen.    *)
DismissHitsCard ==
  [][ \A k \in 1..VISIBLE_CARDS :
        dismiss_handler_cb(k) /\ rx = "idle" =>
          \E i \in 1..noti_len :
            /\ Contents[i] = cards[k] /\ i = noti_curr_base_idx + k
            /\ Contents' = RemoveIndex(Contents, i) ]_vars

(* "Dropped last notification" (notification_manager.c:36): to receive one  *)
(* when the store is full costs one stored notification.                    *)
OverflowDropsOne ==
  [][ write_idx = 0 /\ rx' # rx /\ rx = "idle" =>
        \E m \in Msgs, i \in 1..noti_len :
          Contents' = <<m>> \o RemoveIndex(Contents, i) ]_vars
=============================================================================
