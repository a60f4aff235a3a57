--------------------- MODULE NotificationManagerProofs ---------------------
(***************************************************************************)
(* Proofs about NotificationManager, for every size of the store, of the   *)
(* page and of an unsigned int, and any set of notifications.              *)
(*                                                                         *)
(* None of the invariants is inductive alone: that the base stays in the   *)
(* list needs that the page never believes the list longer than it is, and *)
(* that the cards are notifications needs to know which part of the store  *)
(* the page's pointer still covers while a refresh is due.                 *)
(***************************************************************************)
EXTENDS NotificationManager, SequenceTheorems, TLAPS

(* A change of page is under way only while the page is not drawn. *)
NavigationOK ==
  /\ nav = "idle" => (drawn <=> notify)
  /\ nav # "idle" => notify /\ ~drawn

(* The page's list is a part of the stored one. *)
ListOK ==
  /\ noti_snapshot_len <= noti_len
  /\ drawn => /\ write_idx <= notif_list
              /\ notif_list + noti_snapshot_len = MAX_NOTIFICATION
  /\ drawn /\ rx = "idle" => notif_list = write_idx

IInv ==
  /\ TypeOK /\ BaseInList /\ CardsHoldNotifications /\ ScreenCurrent
  /\ NavigationOK /\ ListOK

LEMMA StoreArithmetic ==
  /\ MAX_NOTIFICATION \in Nat /\ MAX_NOTIFICATION > 0
  /\ VISIBLE_CARDS \in Nat /\ VISIBLE_CARDS > 1
  /\ UINT_MAX \in Nat /\ UINT_MAX > MAX_NOTIFICATION + VISIBLE_CARDS
  BY NotificationAssumption

(* What the length and the write index of the store are. *)
LengthOK ==
  /\ noti_len \in 0..MAX_NOTIFICATION /\ write_idx \in 0..MAX_NOTIFICATION
  /\ write_idx + noti_len = MAX_NOTIFICATION

LEMMA StoreLength == StoreOK => LengthOK
<1> SUFFICES ASSUME write_idx \in 0..MAX_NOTIFICATION,
                    noti_len = MAX_NOTIFICATION - write_idx
             PROVE  LengthOK
  BY DEF StoreOK
<1> QED
  BY StoreArithmetic DEF LengthOK

(* The cards populated from the stored part of a list are notifications. *)
LEMMA PopulatedMsgs ==
  ASSUME StoreOK, NEW first \in Nat, NEW len \in Nat, NEW base \in Nat,
         write_idx <= first, first + len <= MAX_NOTIFICATION
  PROVE  LET c == PopulatedCards(first, len, base)
         IN  \A k \in DOMAIN c : c[k] \in Msgs
<1> DEFINE upto == IF len < base + VISIBLE_CARDS THEN len ELSE base + VISIBLE_CARDS
           c == PopulatedCards(first, len, base)
<1> SUFFICES ASSUME NEW k \in DOMAIN c
             PROVE  c[k] \in Msgs
  OBVIOUS
<1>1. DOMAIN c = 1..(upto - base) /\ c[k] = all_noti[first + base + k - 1]
  BY DEF PopulatedCards
<1>2. upto \in Nat /\ upto <= len
  BY StoreArithmetic
<1>3. first + base + k - 1 \in Slots /\ first + base + k - 1 >= write_idx
  BY SMTT(40), <1>1, <1>2, StoreArithmetic DEF Slots, StoreOK
<1> QED
  BY <1>1, <1>3 DEF StoreOK

LEMMA InitIInv == Init => IInv
<1> SUFFICES ASSUME Init
             PROVE  IInv
  OBVIOUS
<1>1. StoreOK
  <2>1. all_noti \in [Slots -> Msgs \cup {NoMsg}]
    BY DEF Init
  <2>2. \A s \in Slots : ~(s >= MAX_NOTIFICATION)
    BY StoreArithmetic DEF Slots
  <2>3. MAX_NOTIFICATION \in 0..MAX_NOTIFICATION /\ 0 = MAX_NOTIFICATION - MAX_NOTIFICATION
    BY StoreArithmetic
  <2> QED
    BY <2>1, <2>2, <2>3 DEF Init, StoreOK
<1>2. /\ noti_len = 0 /\ rx = "idle" /\ nav = "idle" /\ notify = FALSE /\ drawn = FALSE
      /\ notif_list = 0 /\ noti_snapshot_len = 0 /\ noti_curr_base_idx = 0 /\ cards = <<>>
  BY DEF Init
<1>3. TypeOK
  <2>1. 0 \in 0..MAX_NOTIFICATION /\ 0 \in 0..UINT_MAX
    BY StoreArithmetic
  <2> QED
    BY <1>1, <1>2, <2>1 DEF TypeOK
<1> QED
  BY <1>2, <1>3 DEF IInv, BaseInList, CardsHoldNotifications, ScreenCurrent, NavigationOK,
     ListOK

(* The page holds what a refresh in this state would put on it. *)
Shown ==
  /\ write_idx \in Nat /\ noti_len \in Nat /\ noti_curr_base_idx \in Nat
  /\ write_idx + noti_len <= MAX_NOTIFICATION
  /\ cards = PopulatedCards(write_idx, noti_len, noti_curr_base_idx)

LEMMA ShownCardsHold == StoreOK /\ Shown => CardsHoldNotifications
  BY PopulatedMsgs DEF Shown, CardsHoldNotifications, StoreOK

(* A refresh shows the store as it is after the step, whatever the step did *)
(* to it.                                                                   *)
LEMMA RefreshShowsStore ==
  ASSUME StoreOK', NEW base \in Nat, Refresh(base),
         base = 0 \/ base + VISIBLE_CARDS <= noti_len'
  PROVE  /\ notif_list' \in 0..MAX_NOTIFICATION
         /\ noti_snapshot_len' \in 0..MAX_NOTIFICATION
         /\ noti_curr_base_idx' \in 0..UINT_MAX
         /\ BaseInList' /\ CardsHoldNotifications' /\ ScreenCurrent' /\ ListOK'
<1>1. /\ noti_len' \in 0..MAX_NOTIFICATION /\ write_idx' \in 0..MAX_NOTIFICATION
      /\ write_idx' + noti_len' = MAX_NOTIFICATION
  <2>1. StoreOK'
    OBVIOUS
  <2>2. LengthOK'
    BY <2>1, StoreLength, PTL
  <2> QED
    BY <2>2 DEF LengthOK
<1>2. cards' = PopulatedCards(write_idx, noti_len, noti_curr_base_idx)'
  BY DEF Refresh
<1>3. Shown'
  BY <1>1, <1>2 DEF Refresh, Shown
<1>4. CardsHoldNotifications'
  BY <1>3, ShownCardsHold, PTL
<1>5. ScreenCurrent'
  BY <1>2 DEF ScreenCurrent
<1>6. /\ notif_list' = write_idx' /\ noti_snapshot_len' = noti_len'
      /\ noti_curr_base_idx' = base
  BY DEF Refresh
<1>7. BaseInList'
  BY <1>6 DEF BaseInList
<1>8. ListOK'
  BY <1>1, <1>6 DEF ListOK
<1> QED
  BY <1>1, <1>4, <1>5, <1>6, <1>7, <1>8, StoreArithmetic

LEMMA ReceiveIInv ==
  ASSUME IInv, NEW m \in Msgs, receive_notification(m)
  PROVE  IInv'
<1>1. StoreOK'
  BY StoreArithmetic DEF receive_notification, IInv, TypeOK, StoreOK, Slots
<1>2. /\ noti_len' \in Nat /\ noti_len' >= noti_len
      /\ write_idx' \in Nat /\ write_idx' <= write_idx
  BY StoreArithmetic DEF receive_notification, IInv, TypeOK, StoreOK
<1>3. UNCHANGED <<notify, drawn, nav, page>> /\ rx' = "update"
  BY DEF receive_notification
<1>4. TypeOK' /\ NavigationOK'
  BY <1>1, <1>3 DEF page, IInv, TypeOK, NavigationOK
<1>5. ListOK'
  BY <1>2, <1>3, StoreArithmetic DEF page, IInv, TypeOK, StoreOK, ListOK
<1>6. BaseInList' /\ CardsHoldNotifications' /\ ScreenCurrent'
  BY <1>3 DEF page, IInv, BaseInList, CardsHoldNotifications, ScreenCurrent
<1> QED
  BY <1>4, <1>5, <1>6 DEF IInv

LEMMA UpdateIInv ==
  ASSUME IInv, update_notification_ui
  PROVE  IInv'
<1> USE DEF IInv, TypeOK
<1>1. StoreOK' /\ NavigationOK'
  BY DEF update_notification_ui, store, StoreOK, NavigationOK
<1>2. CASE notify /\ drawn
  <2>1. Refresh(noti_curr_base_idx)
    BY <1>2 DEF update_notification_ui, notification_ui_invalidate
  <2>2. noti_curr_base_idx = 0 \/ noti_curr_base_idx + VISIBLE_CARDS <= noti_len'
    BY StoreArithmetic DEF BaseInList, ListOK, StoreOK, update_notification_ui, store
  <2> QED
    BY <1>1, <2>1, <2>2, RefreshShowsStore DEF update_notification_ui
<1>3. CASE ~drawn
  <2>1. UNCHANGED page /\ ~drawn'
    BY <1>3 DEF update_notification_ui, notification_ui_invalidate
  <2> QED
    BY <1>1, <2>1 DEF update_notification_ui, store, page, BaseInList,
       CardsHoldNotifications, ScreenCurrent, ListOK
<1> QED
  BY <1>2, <1>3 DEF NavigationOK

LEMMA DismissIInv ==
  ASSUME IInv, NEW k \in 1..VISIBLE_CARDS, dismiss_handler_cb(k)
  PROVE  IInv'
<1> USE DEF IInv, TypeOK
<1> DEFINE idx == k - 1 + noti_curr_base_idx
<1>1. idx \in Nat /\ dismiss_notification(idx) /\ Refresh(DismissBase)
  BY StoreArithmetic DEF dismiss_handler_cb
<1>2. StoreOK' /\ noti_len' >= noti_len - 1
  BY SMTT(40), <1>1, StoreArithmetic DEF dismiss_notification, StoreOK, Slots, store
<1>3. DismissBase \in Nat /\ (DismissBase = 0 \/ DismissBase + VISIBLE_CARDS <= noti_len')
  <2>1. noti_snapshot_len - 1 <= noti_len' /\ noti_len' \in Nat
    <3>1. LengthOK' /\ LengthOK
      BY <1>2, StoreLength, PTL DEF IInv, TypeOK
    <3> QED
      BY <3>1, <1>2, StoreArithmetic DEF LengthOK, ListOK
  <2>2. CASE noti_snapshot_len <= VISIBLE_CARDS
    BY <2>2 DEF DismissBase
  <2>3. CASE /\ noti_snapshot_len > VISIBLE_CARDS
             /\ noti_curr_base_idx + VISIBLE_CARDS >= noti_snapshot_len
    <3>1. noti_curr_base_idx > 0 /\ DismissBase = noti_curr_base_idx - 1
      BY <2>3, StoreArithmetic DEF DismissBase
    <3> QED
      BY <3>1, <2>1, StoreArithmetic DEF BaseInList
  <2>4. CASE /\ noti_snapshot_len > VISIBLE_CARDS
             /\ noti_curr_base_idx + VISIBLE_CARDS < noti_snapshot_len
    <3>1. DismissBase = noti_curr_base_idx
      BY <2>4, StoreArithmetic DEF DismissBase
    <3> QED
      BY <3>1, <2>1, <2>4, StoreArithmetic
  <2> QED
    BY <2>2, <2>3, <2>4, StoreArithmetic
<1>4. NavigationOK'
  BY DEF dismiss_handler_cb, NavigationOK
<1> QED
  BY <1>1, <1>2, <1>3, <1>4, RefreshShowsStore DEF dismiss_handler_cb

(* Moving the base by one card keeps the list the page points to. *)
LEMMA RebaseIInv ==
  ASSUME IInv, nav = "idle", drawn, NEW base \in Nat, Rebase(base),
         base = 0 \/ base + VISIBLE_CARDS <= noti_snapshot_len
  PROVE  IInv'
<1> USE DEF IInv, TypeOK
<1>1. StoreOK' /\ NavigationOK' /\ ListOK' /\ BaseInList'
  BY DEF Rebase, store, StoreOK, NavigationOK, ListOK, BaseInList
<1>2. CardsHoldNotifications'
  BY PopulatedMsgs, StoreArithmetic DEF Rebase, ListOK, StoreOK, CardsHoldNotifications
<1>3. ScreenCurrent'
  BY StoreArithmetic DEF Rebase, store, ScreenCurrent, ListOK, StoreOK, PopulatedCards
<1> QED
  BY <1>1, <1>2, <1>3, StoreArithmetic DEF Rebase

LEMMA CardKeysIInv ==
  ASSUME IInv, card_left \/ card_right
  PROVE  IInv'
<1> USE DEF IInv, TypeOK
<1>1. CASE card_left
  <2>1. /\ noti_curr_base_idx - 1 \in Nat
        /\ noti_curr_base_idx - 1 + VISIBLE_CARDS <= noti_snapshot_len
    BY <1>1, StoreArithmetic DEF card_left, BaseInList
  <2> QED
    BY <1>1, <2>1, RebaseIInv DEF card_left
<1>2. CASE card_right
  <2>1. /\ noti_curr_base_idx + 1 \in Nat
        /\ noti_curr_base_idx + 1 + VISIBLE_CARDS <= noti_snapshot_len
    BY <1>2, StoreArithmetic DEF card_right
  <2> QED
    BY <1>2, <2>1, RebaseIInv DEF card_right
<1> QED
  BY <1>1, <1>2

LEMMA NavigationIInv ==
  ASSUME IInv, EnterState \/ draw_notification_ui \/ del_notification_ui \/ LeaveState
  PROVE  IInv'
<1> USE DEF IInv, TypeOK
<1>1. CASE EnterState \/ LeaveState
  <2>1. UNCHANGED <<store, rx, drawn, page>> /\ ~drawn
    BY <1>1 DEF EnterState, LeaveState, NavigationOK
  <2>2. TypeOK' /\ NavigationOK'
    BY <1>1, <2>1 DEF EnterState, LeaveState, store, page, StoreOK, NavigationOK
  <2> QED
    BY <2>1, <2>2 DEF store, page, BaseInList, CardsHoldNotifications, ScreenCurrent, ListOK
<1>2. CASE draw_notification_ui
  <2>1. StoreOK' /\ NavigationOK' /\ Refresh(noti_curr_base_idx)
    BY <1>2 DEF draw_notification_ui, store, StoreOK, NavigationOK
  <2>2. noti_curr_base_idx = 0 \/ noti_curr_base_idx + VISIBLE_CARDS <= noti_len'
    BY <1>2, StoreArithmetic DEF draw_notification_ui, store, BaseInList, ListOK, StoreOK
  <2> QED
    BY <1>2, <2>1, <2>2, RefreshShowsStore DEF draw_notification_ui
<1>3. CASE del_notification_ui
  <2>1. /\ UNCHANGED <<store, rx, notify, notif_list, noti_snapshot_len, noti_curr_base_idx>>
        /\ notify /\ nav' = "leave" /\ drawn' = FALSE /\ cards' = <<>>
    BY <1>3 DEF del_notification_ui
  <2>2. TypeOK' /\ NavigationOK'
    BY <2>1 DEF store, StoreOK, NavigationOK
  <2>3. ListOK' /\ ScreenCurrent' /\ BaseInList' /\ CardsHoldNotifications'
    BY <2>1 DEF store, ListOK, ScreenCurrent, BaseInList, CardsHoldNotifications
  <2> QED
    BY <2>2, <2>3
<1> QED
  BY <1>1, <1>2, <1>3

(* Every reachable state satisfies the inductive invariant. *)
THEOREM NotificationInvariant == Spec => []IInv
<1>1. IInv /\ [Next]_vars => IInv'
  <2> SUFFICES ASSUME IInv, [Next]_vars
               PROVE  IInv'
    OBVIOUS
  <2>1. ASSUME NEW m \in Msgs, receive_notification(m)
        PROVE  IInv'
    BY <2>1, ReceiveIInv
  <2>2. CASE update_notification_ui
    BY <2>2, UpdateIInv
  <2>3. ASSUME NEW k \in 1..VISIBLE_CARDS, dismiss_handler_cb(k)
        PROVE  IInv'
    BY <2>3, DismissIInv
  <2>4. CASE card_left \/ card_right
    BY <2>4, CardKeysIInv
  <2>5. CASE EnterState \/ draw_notification_ui \/ del_notification_ui \/ LeaveState
    BY <2>5, NavigationIInv
  <2>6. CASE UNCHANGED vars
    BY <2>6 DEF vars, store, page, IInv, TypeOK, StoreOK, BaseInList,
       CardsHoldNotifications, ScreenCurrent, PopulatedCards, NavigationOK, ListOK
  <2> QED
    BY <2>1, <2>2, <2>3, <2>4, <2>5, <2>6 DEF Next
<1> QED
  BY InitIInv, <1>1, PTL DEF Spec

(* Length, write index and slots of the store agree, in every reachable     *)
(* state.                                                                   *)
THEOREM NotificationTypeOK == Spec => []TypeOK
  BY NotificationInvariant, PTL DEF IInv

(* The page's base never leaves the list: the unsigned decrement of         *)
(* dismiss_handler_cb never leaves a wrapped value behind.                  *)
THEOREM NotificationBaseInList == Spec => []BaseInList
  BY NotificationInvariant, PTL DEF IInv

(* populate_cards only reads slots that hold notifications. *)
THEOREM NotificationCardsHold == Spec => []CardsHoldNotifications
  BY NotificationInvariant, PTL DEF IInv

(* The drawn page shows the store whenever neither thread is in the middle  *)
(* of a step.                                                               *)
THEOREM NotificationScreenCurrent == Spec => []ScreenCurrent
  BY NotificationInvariant, PTL DEF IInv

-----------------------------------------------------------------------------
(* The slots from w on as a sequence *)
LEMMA SlotsFrom ==
  ASSUME NEW a, NEW w \in 0..MAX_NOTIFICATION, NEW n, n = MAX_NOTIFICATION - w,
         \A s \in Slots : s >= w => a[s] \in Msgs
  PROVE  LET c == [i \in 1..(MAX_NOTIFICATION - w) |-> a[w + i - 1]]
         IN  /\ c \in Seq(Msgs) /\ Len(c) = n
             /\ n \in Nat /\ w \in Nat /\ w + n = MAX_NOTIFICATION
             /\ \A i \in 1..n : c[i] = a[w + i - 1]
<1> DEFINE c == [i \in 1..(MAX_NOTIFICATION - w) |-> a[w + i - 1]]
<1>1. n \in Nat /\ w \in Nat /\ w + n = MAX_NOTIFICATION
  BY StoreArithmetic
<1>2. c = [i \in 1..n |-> a[w + i - 1]]
  OBVIOUS
<1>3. ASSUME NEW i \in 1..n
      PROVE  a[w + i - 1] \in Msgs
  <2>1. w + i - 1 \in Slots /\ w + i - 1 >= w
    BY <1>1, StoreArithmetic DEF Slots
  <2> QED
    BY <2>1
<1> QED
  BY <1>1, <1>2, <1>3

(* The stored notifications as a sequence: their number, and which slot     *)
(* holds which, before and after a step.                                    *)
ContentsAreSlots ==
  /\ Contents \in Seq(Msgs) /\ Len(Contents) = noti_len
  /\ noti_len \in Nat /\ write_idx \in Nat /\ write_idx + noti_len = MAX_NOTIFICATION
  /\ \A i \in 1..noti_len : Contents[i] = all_noti[write_idx + i - 1]

LEMMA ContentsIs ==
  /\ StoreOK => ContentsAreSlots
  /\ StoreOK' => ContentsAreSlots'
<1>1. ASSUME StoreOK PROVE ContentsAreSlots
  BY <1>1, SlotsFrom DEF StoreOK, Contents, ContentsAreSlots
<1>2. ASSUME StoreOK' PROVE ContentsAreSlots'
  BY <1>2, SlotsFrom DEF StoreOK, Contents, ContentsAreSlots
<1> QED
  BY <1>1, <1>2

(* A notification that is received while a slot is free comes first. *)
LEMMA ReceiveAddsFirst ==
  ASSUME StoreOK, StoreOK', write_idx > 0, NEW m \in Msgs, receive_notification(m)
  PROVE  Contents' = <<m>> \o Contents
<1>1. /\ all_noti' = [all_noti EXCEPT ![write_idx - 1] = m]
      /\ write_idx' = write_idx - 1 /\ noti_len' = noti_len + 1
  BY DEF receive_notification, StoreOK
<1>2. /\ Contents \in Seq(Msgs) /\ Len(Contents) = noti_len
      /\ noti_len \in Nat /\ write_idx \in Nat /\ write_idx + noti_len = MAX_NOTIFICATION
      /\ \A i \in 1..noti_len : Contents[i] = all_noti[write_idx + i - 1]
  BY ContentsIs DEF ContentsAreSlots
<1>3. /\ Contents' \in Seq(Msgs) /\ Len(Contents') = noti_len'
      /\ \A i \in 1..noti_len' : Contents'[i] = all_noti'[write_idx' + i - 1]
  BY ContentsIs DEF ContentsAreSlots
<1> DEFINE s == <<m>> \o Contents
<1>4. /\ s \in Seq(Msgs) /\ Len(s) = 1 + noti_len
      /\ \A i \in 1..(1 + noti_len) : s[i] = IF i <= 1 THEN m ELSE Contents[i - 1]
  <2>1. <<m>> \in Seq(Msgs) /\ Len(<<m>>) = 1 /\ <<m>>[1] = m
    OBVIOUS
  <2>2. /\ s \in Seq(Msgs) /\ Len(s) = 1 + noti_len
        /\ \A i \in 1..(1 + noti_len) : s[i] = IF i <= 1 THEN <<m>>[i] ELSE Contents[i - 1]
    BY <1>2, <2>1, ConcatProperties
  <2>3. \A i \in 1..(1 + noti_len) : i <= 1 => <<m>>[i] = m
    BY <1>2, <2>1
  <2> QED
    BY <2>2, <2>3
<1>5. ASSUME NEW i \in 1..(1 + noti_len)
      PROVE  Contents'[i] = s[i]
  <2>1. all_noti \in [Slots -> Msgs \cup {NoMsg}] /\ write_idx - 1 \in Slots
    BY <1>2, StoreArithmetic DEF StoreOK, Slots
  <2>2. write_idx' + i - 1 \in Slots /\ write_idx' + i - 1 = write_idx + i - 2
    BY <1>1, <1>2, StoreArithmetic DEF Slots
  <2>3. Contents'[i] = all_noti'[write_idx + i - 2]
    BY SMTT(40), <1>1, <1>2, <1>3, <2>2
  <2>4. CASE i = 1
    BY <1>1, <1>2, <1>4, <2>1, <2>2, <2>3, <2>4
  <2>5. CASE i # 1
    <3>1. write_idx + i - 2 # write_idx - 1 /\ i - 1 \in 1..noti_len
          /\ write_idx + (i - 1) - 1 = write_idx + i - 2
      BY <1>2, <2>5
    <3>2. Contents'[i] = all_noti[write_idx + i - 2]
      BY <1>1, <2>1, <2>2, <2>3, <3>1
    <3>3. Contents[i - 1] = all_noti[write_idx + i - 2]
      BY <1>2, <3>1
    <3>4. s[i] = Contents[i - 1]
      BY <1>4, <2>5
    <3> QED
      BY <3>2, <3>3, <3>4
  <2> QED
    BY <2>4, <2>5
<1> HIDE DEF s
<1>6. Len(Contents') = Len(s)
  BY <1>1, <1>2, <1>3, <1>4
<1>7. \A i \in 1..Len(Contents') : Contents'[i] = s[i]
  BY <1>4, <1>5, <1>6
<1>8. Contents' = s
  BY <1>3, <1>4, <1>6, <1>7, SeqEqual
<1> QED
  BY <1>8 DEF s

(* An index that dismiss_notification accepts names the notification that   *)
(* leaves.                                                                  *)
LEMMA DismissRemoves ==
  ASSUME StoreOK, StoreOK', NEW idx \in Nat, idx < noti_len, dismiss_notification(idx)
  PROVE  Contents' = RemoveIndex(Contents, idx + 1)
<1>1. /\ Contents \in Seq(Msgs) /\ Len(Contents) = noti_len
      /\ noti_len \in Nat /\ write_idx \in Nat /\ write_idx + noti_len = MAX_NOTIFICATION
      /\ \A i \in 1..noti_len : Contents[i] = all_noti[write_idx + i - 1]
  BY ContentsIs DEF ContentsAreSlots
<1>2. ~(idx >= noti_len)
  BY <1>1
<1>3. /\ all_noti' = [s \in Slots |-> IF write_idx < s /\ s <= write_idx + idx
                                       THEN all_noti[s - 1] ELSE all_noti[s]]
      /\ write_idx' = write_idx + 1 /\ noti_len' = noti_len - 1
  BY <1>2 DEF dismiss_notification
<1>4. /\ Contents' \in Seq(Msgs) /\ Len(Contents') = noti_len'
      /\ \A i \in 1..noti_len' : Contents'[i] = all_noti'[write_idx' + i - 1]
  BY ContentsIs DEF ContentsAreSlots
<1>5. Contents' = [j \in 1..(noti_len - 1) |-> Contents'[j]]
  <2>1. \A s \in Seq(Msgs) : s = [j \in 1..Len(s) |-> s[j]]
    OBVIOUS
  <2> QED
    BY <1>3, <1>4, <2>1
<1>6. ASSUME NEW j \in 1..(noti_len - 1)
      PROVE  Contents'[j] = IF j < idx + 1 THEN Contents[j] ELSE Contents[j + 1]
  <2>1. write_idx + j \in Slots /\ write_idx' + j - 1 = write_idx + j
    BY <1>1, <1>3, StoreArithmetic DEF Slots
  <2>2. Contents'[j] = all_noti'[write_idx + j]
    BY <1>3, <1>4, <2>1
  <2>3. CASE j < idx + 1
    <3>1. write_idx < write_idx + j /\ write_idx + j <= write_idx + idx
      BY <1>1, <2>3
    <3>2. all_noti'[write_idx + j] = all_noti[(write_idx + j) - 1]
      BY <1>3, <2>1, <3>1
    <3>3. (write_idx + j) - 1 = write_idx + j - 1
      BY <1>1
    <3>4. Contents'[j] = Contents[j]
      BY <1>1, <2>2, <3>2, <3>3
    <3> QED
      BY <2>3, <3>4
  <2>4. CASE ~(j < idx + 1)
    <3>1. ~(write_idx + j <= write_idx + idx)
      BY <1>1, <2>4
    <3>2. Contents'[j] = all_noti[write_idx + j]
      BY <1>3, <2>1, <2>2, <3>1
    <3>3. j + 1 \in 1..noti_len /\ write_idx + (j + 1) - 1 = write_idx + j
      BY <1>1
    <3>4. Contents[j + 1] = all_noti[write_idx + j]
      BY <1>1, <3>3
    <3> QED
      BY <2>4, <3>2, <3>4
  <2> QED
    BY <2>3, <2>4
<1>7. RemoveIndex(Contents, idx + 1) =
        [j \in 1..(noti_len - 1) |-> IF j < idx + 1 THEN Contents[j] ELSE Contents[j + 1]]
  BY <1>1 DEF RemoveIndex
<1> QED
  BY <1>5, <1>6, <1>7

(* What a click on the close button of card k does to the store, in any     *)
(* reachable state.                                                         *)
LEMMA ClickRemoves ==
  ASSUME IInv, IInv', NEW k \in 1..VISIBLE_CARDS, dismiss_handler_cb(k)
  PROVE  \/ Contents' = Contents
         \/ /\ noti_curr_base_idx + k \in 1..noti_len
            /\ Contents' = RemoveIndex(Contents, noti_curr_base_idx + k)
<1> DEFINE idx == k - 1 + noti_curr_base_idx
<1>1. StoreOK /\ StoreOK' /\ noti_curr_base_idx \in Nat /\ dismiss_notification(idx)
  BY DEF IInv, TypeOK, dismiss_handler_cb
<1>2. idx \in Nat /\ idx + 1 = noti_curr_base_idx + k /\ noti_len \in Nat
  BY <1>1, ContentsIs DEF ContentsAreSlots
<1>3. CASE idx >= noti_len
  BY <1>1, <1>3 DEF dismiss_notification, store, Contents
<1>4. CASE ~(idx >= noti_len)
  <2>1. idx < noti_len /\ noti_curr_base_idx + k \in 1..noti_len
    BY <1>1, <1>2, <1>4
  <2>2. Contents' = RemoveIndex(Contents, idx + 1)
    BY <1>1, <1>2, <2>1, DismissRemoves
  <2> QED
    BY <1>2, <2>1, <2>2
<1> QED
  BY <1>3, <1>4

(* Received notifications come first, dismissed ones leave, and no step     *)
(* does anything else to the order of the others, for any size of the store *)
(* (notification_manager.c:27-76).                                          *)
THEOREM NotificationOneAtATime == Spec => OneAtATime
<1> DEFINE Change == \/ Contents' = Contents
                     \/ \E m \in Msgs : Contents' = <<m>> \o Contents
                     \/ \E i \in 1..noti_len : Contents' = RemoveIndex(Contents, i)
<1>1. IInv /\ IInv' /\ [Next]_vars => [(write_idx > 0 \/ rx' = rx) => Change]_vars
  <2> SUFFICES ASSUME IInv, IInv', [Next]_vars, write_idx > 0 \/ rx' = rx
               PROVE  Change \/ UNCHANGED vars
    OBVIOUS
  <2>1. ASSUME NEW m \in Msgs, receive_notification(m)
        PROVE  Change
    <3>1. rx' # rx
      BY <2>1 DEF receive_notification
    <3>2. Contents' = <<m>> \o Contents
      BY <2>1, <3>1, ReceiveAddsFirst DEF IInv, TypeOK
    <3> QED
      BY <3>2
  <2>2. ASSUME NEW k \in 1..VISIBLE_CARDS, dismiss_handler_cb(k)
        PROVE  Change
    BY <2>2, ClickRemoves
  <2>3. CASE UNCHANGED store
    BY <2>3 DEF store, Contents
  <2>4. update_notification_ui \/ card_left \/ card_right \/ EnterState
          \/ draw_notification_ui \/ del_notification_ui \/ LeaveState => UNCHANGED store
    BY DEF update_notification_ui, card_left, card_right, Rebase, EnterState,
       draw_notification_ui, del_notification_ui, LeaveState
  <2> QED
    BY <2>1, <2>2, <2>3, <2>4 DEF Next
<1> QED
  BY <1>1, NotificationInvariant, PTL DEF Spec, OneAtATime

(* The close button of a card removes the notification that the card shows, *)
(* however the base index came about (notification_ui.c:69-96).             *)
THEOREM NotificationDismissHitsCard == Spec => DismissHitsCard
<1> DEFINE Hit == \A k \in 1..VISIBLE_CARDS :
                    dismiss_handler_cb(k) /\ rx = "idle" =>
                      \E i \in 1..noti_len :
                        /\ Contents[i] = cards[k] /\ i = noti_curr_base_idx + k
                        /\ Contents' = RemoveIndex(Contents, i)
<1>1. IInv /\ IInv' => Hit
  <2> SUFFICES ASSUME IInv, IInv', NEW k \in 1..VISIBLE_CARDS,
                      dismiss_handler_cb(k), rx = "idle"
               PROVE  \E i \in 1..noti_len :
                        /\ Contents[i] = cards[k] /\ i = noti_curr_base_idx + k
                        /\ Contents' = RemoveIndex(Contents, i)
    OBVIOUS
  <2> DEFINE base == noti_curr_base_idx
             upto == IF noti_len < base + VISIBLE_CARDS THEN noti_len
                     ELSE base + VISIBLE_CARDS
  <2>1. cards = [j \in 1..(upto - base) |-> all_noti[write_idx + base + j - 1]]
    BY DEF IInv, ScreenCurrent, PopulatedCards, dismiss_handler_cb
  <2>2. /\ base \in Nat /\ StoreOK /\ StoreOK' /\ dismiss_notification(k - 1 + base)
        /\ k \in DOMAIN cards
    BY DEF IInv, TypeOK, dismiss_handler_cb
  <2>3. /\ noti_len \in Nat /\ write_idx \in Nat
        /\ \A i \in 1..noti_len : Contents[i] = all_noti[write_idx + i - 1]
    BY <2>2, ContentsIs DEF ContentsAreSlots
  <2>4. k \in 1..(upto - base)
    BY <2>1, <2>2
  <2>5. base + k \in 1..noti_len /\ k - 1 + base \in Nat /\ k - 1 + base < noti_len
    BY <2>2, <2>3, <2>4, StoreArithmetic
  <2>6. cards[k] = all_noti[write_idx + base + k - 1]
    BY <2>1, <2>4
  <2>7. Contents[base + k] = cards[k]
    <3>1. write_idx + (base + k) - 1 = write_idx + base + k - 1
      BY <2>2, <2>3
    <3> QED
      BY <2>3, <2>5, <2>6, <3>1
  <2>8. Contents' = RemoveIndex(Contents, base + k)
    <3>1. Contents' = RemoveIndex(Contents, (k - 1 + base) + 1)
      BY <2>2, <2>5, DismissRemoves
    <3>2. (k - 1 + base) + 1 = base + k
      BY <2>2
    <3> QED
      BY <3>1, <3>2
  <2> QED
    BY <2>5, <2>7, <2>8
<1>2. IInv /\ IInv' => [Hit]_vars
  BY <1>1
<1> QED
  BY <1>2, NotificationInvariant, PTL DEF DismissHitsCard
=============================================================================
