# minimal_watch in TLA+

TLA+ modules, TLC configurations and TLAPS proofs for the firmware of a
smartwatch (Zephyr RTOS, LVGL, Bluetooth LE; C sources under `src/src/`).
Everything is translated from the C code.  The repository has neither tests nor
a design document: what it says of itself is in its comments and log messages.

Contents: 1 the system, 2 the components and their properties, 3 the modules
and how they correspond to the code, 4 the runs, 5 fairness, 6 the proofs,
7 disagreements between code and comments, 8 what is not modelled, 9 plan.

## 1. The system

The boards have one CPU, so a spin-locked section and a timer callback are each
one atomic step.  Everything else interleaves wherever it touches shared state, with one
exception, in `NotificationManager`.  The maintenance thread and the LVGL thread both have
priority 10, so one takes the CPU from the other only when its time slice ends (20 ms:
`CONFIG_TIMESLICE_SIZE` of the build indexed in `cscope.out`).  The calls in which the two
meet without a lock (`receive_notification`, `dismiss_notification`, the redraw of the cards)
are single steps there.  This assumes that no slice ends inside one of them, which nothing in
the code ensures: if one does, `notification_manager.c:38-41` and `66-70` run into each
other, and of that nothing below speaks.

| context | what it runs |
| --- | --- |
| main thread (priority 0) | start-up: `do_init_work` up to the first page |
| system work queue (cooperative) | the one-second work tick: state change and work submission; the watch face tick |
| `sys_maint` thread (priority 10) | `process_rx_buffers`, the curfew hook `populate_tx_buffers` |
| 10 pool workers (priority 11, an item runs at its own priority) | application updates (`send_app_update`) |
| LVGL thread (priority 10) | polls the keypad; every key and widget callback, page drawing |
| input thread (lowest priority) | `input_cb`: stores the key for the next poll |
| Bluetooth thread | connection, subscription and MTU callbacks, received writes |
| timer interrupts | work window, grace period, settlement, soft and hard watchdog of every worker |

The watch sleeps most of the time.  Each tick opens a *work window*
(`BACKGROUND_ACTIVE` 160 ms or `UI_ACTIVE` 300 ms).  When the window ends, or
earlier when everything is idle (*early curfew*), the maintenance thread runs the
curfew hook, which sends queued Bluetooth messages, in a *grace period* of 700 ms;
then every worker is told to abort and is suspended.  A handler that runs longer
than 30 ms is asked to stop (soft watchdog), 10 ms later its thread is killed and
created again (hard watchdog).

Messages travel so: an application asks with `request_ble_resource`, the request
waits in the transmit FIFO, the curfew hook cuts it into packets for the phone;
the phone's packets are parsed into messages on the receive FIFO, the maintenance
thread drains it, and each message becomes a notification (`receive_notification`,
`update_notification_ui`) or an answer (`EVENT_APP_WORK_SCHEDULE`, put on the
worker queue, `send_app_update` to the application on the screen).

The LVGL thread polls one pending key, which turns the page or moves inside it.
While the watch face is the page, a second timer writes the time into its labels
once a second, on the system work queue and without a lock.

The hard parts are the interleavings (state read outside a lock and used later;
threads suspended or killed between any two statements), the races of expiring
timers with the event they guard against, full queues (every `k_msgq_put` is
`K_NO_WAIT`), circular buffers and lists at their limits, unsigned index
arithmetic, and links that disappear in the middle of a message.  Nothing is
persisted across a power cycle but clock and weather in RTC memory.

## 2. Components

Sources are relative to `src/src/`.  `PROJECT.json` lists the same components
with their status and, under `hazards`, the lines where each can go wrong.

| component (source) | state | operations | correct when |
| --- | --- | --- | --- |
| Runtime state machine (`managers/runtime_manager.c`) | `current_state`, hooks, window/grace timers, `sys_maint_msgq` | set state, demote to curfew, expiries, maintenance loop, `add_user_work` | a window or grace period always ends; a window always ends through the grace period; nothing runs asleep |
| Worker pool (`runtime_management/worker_pool.c`) | `runtime_msgq`, `active_worker_count`, thread slots | get, run, suspend/resume all, purge, recover | the count means something; no accepted item is stuck |
| Watchdogs (`runtime_management/watchdog.c`) | two timers and an abort flag per slot | start, stop, two expiries | timers only inside an item; nobody killed unasked; a stuck handler is reclaimed |
| Early curfew (`runtime_management/worker_mgmt.c`) | settlement timer | evaluate, expiry | never puts the watch to sleep over work |
| Event dispatch (`managers/event_manager.c`) | none | one case per event | order of state change and submission |
| Timers (`managers/timers.c`) | two delayable works | tick, start, cancel | the work tick goes on for ever, the other as long as the face is the page |
| BLE FIFOs (`BLE/ble_fifo.c`) | two circular buffers | add, get, count | drop-oldest queue |
| Packet builder, parser (`BLE/ble_packet_handler.c`) | message and offset; parser state | next packet, retrieve | what is parsed is what was sent |
| Connection manager (`managers/ble_manager.c`) | connection, subscription, MTU | callbacks, hook | a message waits for a subscriber; the hook ends |
| Request handler (`BLE/ble_request_handler.c`) | none | encode, queue | a request that is queued is one the phone can answer |
| Response handler (`BLE/ble_response_handler.c`) | none | decode, dispatch | no length byte leads over the end of a payload; every valid message is used |
| Shared state, clock (`managers/persistance_manager.c`, `common_utils.c`) | last time and forecast | three updates, getters | a tick between two stores of an update shows a time and a forecast that messages explain |
| Notification store (`managers/notification_manager.c`) | array, length, write index | receive, delete, read | one at a time, in order, newest first |
| Notification page (`ui/notification_ui/`) | base index, snapshot, cards | draw, scroll, dismiss, refresh | shows the store; a click hits the card it is on |
| UI manager (`managers/ui_manager.c`) | page, active tab, selected watch face, first-render flag | start-up, left, right, show, close | one page drawn, its tab active; no page left under an application |
| Keypad (`HAL/navigation/encoder.c`) | pending key and flag | press, poll | a press is taken as the key it is, once, unless the poll comes between its two stores |
| Watch faces (`ui/watchface/`) | label pointers | select, draw, update, delete | the tick writes only to labels that exist |
| Application manager (`managers/app_manager.c`, `ui/appmgr_ui/`) | current application, its screen | open, close, update | application, screen and page agree |
| Weather application (`applications/weather/`) | date selection, forecast, widgets | keys, request, answer | a release requests the date that is shown |
| Focus search (`ui/util.c`) | none | first child, parent, next and previous sibling | the order of the tree, no object skipped, none reached twice |
| LVGL thread, power/GPIO/storage, start-up order, images | see section 8 | | |

## 3. Modules

| module | models | extends / composes |
| --- | --- | --- |
| `RuntimeManager` | state machine, pool, watchdogs, early curfew, tick and maintenance loop together: they share one lock, one counter and each other's timers, so apart they would say nothing | instantiates `DutyCycle` |
| `DutyCycle` | abstract runtime: asleep, awake, draining, and what workers may do in each | |
| `MCRuntimeManager` | the symmetry of the workers | `RuntimeManager` |
| `DropOldestQueue` | abstract queue: what a FIFO promises | |
| `BleFifo` | both circular buffers with their index arithmetic | instantiates `DropOldestQueue` twice |
| `BleTransport` | transmit queue, hook, builder, link, receiver's parser | |
| `MCBleTransport` | two concrete messages, an empty one and one with a payload | `BleTransport` |
| `BlePayloads` | the layout of a notification on the wire and its decoder | |
| `PhoneSync` | time and weather from the request at start-up to the watch face: queues, maintenance thread, shared state, getters | `BlePayloads` |
| `MCPhoneSync` | every payload of up to 8 bytes with lengths up to 2 | `PhoneSync` |
| `NotificationManager` | store, page and page change, between the receiving thread and the LVGL thread | |
| `FocusSearch` | the four searches for a focusable object, over trees, and the order they ought to follow | |
| `NotificationScreen` | focus, keys and detail screens on the notification page | `NotificationManager`, `FocusSearch` |
| `AppManager` | pages, applications, the weather application and its answers | |
| `HomeScreen` | keypad, start-up, root pages step by step, the one-second tick and the labels of the watch face | |
| `*Proofs` | theorems | the module they are named after, TLAPS |

**RuntimeManager.**  A thread has a program counter: one label for every access to state
another context shares, so `pool_worker_entry` is `WorkerGet` (the queue),
`WorkerCheckState` (refuse asleep), `WorkerInterruptSettlement`, `WorkerInc`,
`WatchdogStart`, the handler, `WatchdogStop`, `WorkerDec`, `WorkerCount` and the
early-curfew evaluation `Eval`.  `k_thread_suspend` is membership in `suspended`; a
suspended thread keeps its label, so it can be caught between any two steps. `k_msgq_put`
hands its message to a thread that is already blocked, also when that thread is suspended;
this is why a worker may hold an item in `STATE_SLEEP`. The armed kernel timers are a set
and the time is abstract: an armed timer may expire at any moment, hence also at the worst
one.  `AddUserWorkCheck` and `AddUserWorkPut` are the two halves of `add_user_work`, whose
state check is not under the lock.  `respawns` is history and is what a hard expiry adds
to the count. `k_msgq_purge` drops the messages and sends a worker that waits for one back
to the head of its loop. `EvalWork` reads the counter and the queue, two adjacent calls,
in one step. Both loops of the handlers' code are left out: a handler returns or does
not. `DutyCycle` is what this adds up to for whoever gives the runtime work: a window ends
by handing over its curfew hook, the watch drains and sleeps; asleep no worker gets into
or out of an item unless it is killed, everybody still inside has been told to stop, and
nobody is killed untold.  The refinement mapping forgets queues, timers and program
counters.

**BleFifo** has both arrays with their write and read index.  Each operation holds the
buffer's spin lock and is one action; the drop of the oldest message is the advance of
the read index inside the add.  One slot stays free, hence the capacity of one less.

**BleTransport** works on the wire format byte by byte where the format matters:
flag, header (magic, opcode, application, length), payload.  The builder loop is
cut at every iteration (`LoadMessage`, `WriteChunk`, `EndPacket`) because the
Bluetooth thread may change the link in between.  The parser is a recursive function
over the bytes of a packet (`ReadBytes`).  Four variables are history: `due`, the messages
that have bytes in the packet in hand; `lossy`, that a packet of this stream was lost or
the phone came in the middle of it; `repeated`, that the stream holds a header twice, which
is finding 3 of section 7; `headers`, how often the header of the current message was
written.  A stream is what follows a packet with flag 0; `lossy` and `repeated` end with
it.  Without either, the phone parses what was sent, to the byte (`StreamComplete`).  With
one of them it can deliver a message that was never sent: when a packet is lost inside a
payload and the next one continues another message, the parser has no means to tell and
fills the payload up.  `StreamInOrder` says that this is all that can happen, and
`LossHeals` that it is over as soon as the phone is between two messages.
The phone's application is not in the repository; the receiver is the firmware's
own parser, which defines the format.  The queue is the drop-oldest queue that
`BleFifo` implements, so the two modules compose by refinement.  ASSUME: a payload
holds no magic byte; otherwise the parser may resynchronise inside a payload after
a loss, which the wire format does not exclude.

**NotificationManager** keeps the array and the two counters of the store as they
are (write index running downwards), the page's own copies (`notif_list`,
`noti_snapshot_len`, `noti_curr_base_idx`) and the cards drawn from them.  The
receiving thread writes the store and refreshes the page in two steps; page changes
are two steps as well (`del_notification_ui` before `curr_watch_state`, drawing
after it).  The unsigned decrement of the base index keeps its width (`UINT_MAX`).

**BlePayloads, PhoneSync.**  `parse_notification_payload` walks through four strings,
each behind a length byte, each cut to its buffer, the rest of the string skipped;
`LaidOut` states the layout that the comment in the source draws, without an order of
reading.  `PhoneSync` follows the four bytes of time and the forecast: `init_events`
asks for both on the main thread, in two steps; a request goes through the transmit
FIFO and the hook to a phone that answers or not and sends other messages besides; the
answer goes through the receive FIFO to the maintenance thread.  A request is refused
when the page has no identifier (a key may have turned the page by then).  Each store of
`update_persistant_time_state` is a step, those behind the call of `k_uptime_get`
in either order, and so is each word of the `memcpy` of a forecast.  The getters are
state functions: the cooperative tick may call them in any state.  One unit of time is
an hour, the phone's clock runs with the watch's and is not adjusted.  A forecast for
an application is to this state what a notification is: a message that uses the queues.

**FocusSearch, NotificationScreen.**  `FocusSearch` has the depth-first searches of
`util.c` as recursive functions over a tree of objects and a group: a loop over the
children of an object is a recursion over the places it can be at, "after i children of
o".  Next to them `InTreeOrder` says where they ought to lead, without a search: by the
paths of child numbers from the root.
`NotificationScreen` builds the tree of the page for every number of cards and open
detail screens (`Trees`), and computes the searches once for each (`Walk`).  Every step of
`NotificationManager` is a step here, with what it does to the focus.  A refresh deletes
all cards; LVGL then moves the focus to an object of its choice, which the model leaves
open because LVGL is not part of the repository.  A detail screen keeps the title it was opened
from in `prev_focused`, which dangles after a refresh (`Gone`).

**AppManager** has each key callback as one step (LVGL runs them in one thread) and
cuts `send_app_update`, `receive_event` and `refresh_weather_ui_data` at every
access, because a worker is preempted, suspended or killed anywhere.  Dates are day
numbers, forecasts the day they are for.  `frame` is the stack frame to which the
work item's `arg1` still points after `handle_event` has returned; it can be
overwritten (`Garbage`) before the worker reads it.  `CallHandler` uses the pointer
that was checked or reads it again: the compiler may do either.

**HomeScreen** is where `AppManager` and `NotificationManager` take one step: a page
change on the root screen is cut at every access to what the main thread or the tick
also touches (`RootAction`, `close_curr_page`, `CloseWatchface`, `ChangeState` with
the read and the store of `curr_watch_state++`, `ChangeTab`, `show_page`,
`ShowWatchface`).  The main thread starts at the end of the 100 ms sleep in
`init_ui`; it has a higher priority than the LVGL thread, hence `start \in {"sleep",
"done"}` in every guard of the latter: it may be caught in the middle of a page change
but does not run beside it.  The tick is cooperative, so it is one step, between any
two of the others.  The input thread has the lowest priority: its two stores are
steps of their own, in either order, because neither variable is volatile, and the
poll is one step to it.  `labels` says what the static pointers of `wf2_ui.c`
point to; `wf2_del_wf`, which would reset them, has no caller.  A key that an object of
the page consumes, or that follows another without a release in between, changes no
page: the poll chooses.  `pressed`, `takes`, `torn` and `startKeys` are history: the key of
the last press, how often a poll took a key since its first store, and whether one did
between the two.

## 4. Runs

| run | question | bounds |
| --- | --- | --- |
| `runtime_safety` | types; `DeadlineArmed`: nothing leaves a window or grace period without its timer; `SleepQuiet`: no handler advances asleep; `WatchdogOwned`; `AbortDelivered`; `CountExact`; `EarlySleepDrains`; `RunsDutyCycle`: the whole implements the abstract cycle | 2 workers (symmetric), both targets, each queue 1, 1 respawn |
| `runtime_liveness` | `QuietSleeps`: without ticks the watch ends asleep whatever handlers do; `StuckHandlerReclaimed`; `HeldItemResolved` | 1 worker, queues 1, 1 respawn |
| `ble_fifo` | each buffer implements a drop-oldest queue of `BLE_FIFO_SIZE`−1 | size 3, 2 messages |
| `ble_transport` | `StreamComplete`: an undamaged stream is parsed exactly; `StreamInOrder`: after losses and repeated headers only a message begun in an earlier packet can be wrong; `LossHeals`: a phone between two messages is in step at once; `HookEnds`; across MTU change, lost packets, disconnection inside a message | queue 1, MTU 20 or 22, 2 messages |
| `phone_sync` | `TickExplained`: what a tick shows in the middle of an update; `NotificationDecoded`; `SyncCompletes`: the clock is set in the end unless a message is lost | queues 2, a day of 2 hours, uptime up to 2, buffers 2, 3, 2, 1, payloads up to 8 bytes |
| `notifications` | base index, no empty card, screen current, one at a time, the dismissed one is the one shown; `SearchesAgree`: keys follow the order of the tree; `DetailOfCard`: a detail screen shows the card to which it returns | store 4, 2 cards, 2 messages, one of them with an action, 2 detail screens |
| `app_manager` | `AppScreenOwned`, `HeldHasFocus`, `ReleaseIsRequested`, `LabelShowsSelection` | 1 worker, 2 hours, days −1..1, 1 request |
| `home_screen` | `TickTouchesLiveLabels`; `PressTakenOnce`: a press is taken once, as the key it is, unless a poll comes between its two stores; `PagesExclusive`: at rest one page is drawn and its tab active; `FaceKeepsTicking` | 2 keys during start-up, state down to −2 |
| four further runs | one comment or log message each, violated (section 7) | as above |

Why the bounds are enough.  Queues of one are both empty and full; two workers are enough
for one of them to hold, run, or finish an item while the other is counted or suspended,
and the code treats slots alike (hence the symmetry, which is used only in runs without
liveness properties).  One respawn already separates a counter that forgets re-creations
from one that does not.  A FIFO of 3 wraps, is empty, full and overflows.  In 20 and 22
bytes a payload of 4 leaves packets that end inside a header, behind a header, inside a
payload and exactly at the end of a message.  Four notifications on pages of two give a
base of 0, 1 and 2, so a dismissal meets each boundary; two detail screens over two cards,
with one button or two, already have siblings inside siblings, objects without a focusable
child and a search that ends at the root.  In `phone_sync` a day of two hours has a first
and a last hour and a turn of the day within the uptime; an uptime of 2 lets a message
wait for a unit before the update and the update for another; payloads of 8 bytes hold
strings shorter than, equal to and longer than a buffer, and end before, at and behind
every length byte.  One worker is enough in `app_manager`, where workers race with the
LVGL thread and not with each other.  The theorems of section 6 hold for any bounds.
LVGL polls every 33 ms and takes a key only after a release, so two keys fit into the 100
ms of start-up (`MaxStartKeys`).  Only such a key can take the state below `_START`, where
every further LEFT does the same again; two steps of it (`MaxBelow`) show that.  Bounds on
counters: `MaxRespawns`, `MaxDays`, `MaxAsked`, `MaxBelow`, `MaxUptime`, `MaxDetails` and,
for history, `headers <= 2` and `MaxTakes`.

Every property of a passing run has a mutant of the code in `PROJECT.json`
(a dropped call, an off-by-one, a missing reset) that violates it under the same
configuration.  The mutated operators stand in the modules, marked `Mutant`.

## 5. Fairness

`RuntimeManager!FairSpec`: a kernel timer that is armed expires unless it is stopped
(WF on window, grace, soft and hard expiry); the tick handler is on the cooperative
system work queue and re-arms itself first, so a begun tick goes on (WF `TickQueue`);
a worker that can run in window after window does run (SF `WorkerCode(w)`: it
alternates between enabled and suspended, which WF would not cover).  Windows last
at least 160 ms and every other thread blocks.  Nothing is assumed of handlers or of
the maintenance thread's items, and ticks may cease: the properties state where they
need them (`TicksForever`).

`BleTransport!FairSpec`: the hook's own steps go on, and `bt_gatt_notify` returns
(`[]<>(pump # "notify")`) with success or an error.  Nothing is assumed of the link.

`PhoneSync!FairSpec`: the main thread goes on with `init_events` (WF, it never waits
there); the maintenance thread drains the receive FIFO in every work window (WF
`Maintenance`); a request that stays at the head of the transmit FIFO is sent in some
grace period and a phone that has been asked answers (WF `RequestArrives`,
`AnswerTime`).  The last two are assumptions on the phone, which is there in the end;
each of them may lose the message instead, and then `lost` says so.

`HomeScreen!FairSpec`: a pending tick runs (WF, cooperative work queue), the LVGL
thread and the main thread go on while they can (WF: they sleep for a fixed time
only).  No key need ever come.

## 6. What is proved

For all values of the constants under the named assumptions (`RuntimeAssumption`,
`AppAssumption`, ...), which are the types of sizes, non-empty queues and finite sets
of workers.  Each proof has one step or lemma per action and ends in PTL.

* **RuntimeManagerProofs.**  `TypeOK`, `DeadlineArmed`, `SleepQuiet`, `WatchdogOwned`,
  `AbortDelivered`, `CountExact`, `EarlySleepDrains`, and `RunsDutyCycle`: every step maps
  to a step of `DutyCycle` or to none.  The inductive invariant adds `HookRegistered`: an
  active state has its hook registered, because the tick that enters it registers one.
  Without it, `ExecuteCurfew` could take its first branch (no hook, no work), which goes
  straight to sleep, and neither the cycle nor the abort flags of `AbortDelivered` would
  follow.  The parts need each other: `SleepQuiet` is what keeps a worker from clearing
  its flag asleep.  `CountExact` counts with the cardinality lemmas of finite sets.
* **BleFifoProofs.**  `FifoTypeOK`, and `FifosImplementQueues`: both buffers, of any size
  of at least 2, implement `DropOldestQueue`.  The refinement mapping reads the array from
  the read index to the write index; the lemmas say what an add and a get do to that
  sequence when the indices wrap, and when the buffer is full.
* **NotificationManagerProofs.**  Types, `BaseInList`, `CardsHoldNotifications`,
  `ScreenCurrent`.  The inductive invariant relates the page's copies to the store at
  every point of the two racing threads.  From it the action properties `OneAtATime` and
  `DismissHitsCard`: in `DismissHitsCard` the index that the page passes is counted from
  the newest entry, the card's from the base, and the invariant is what makes the two
  meet.
* **AppManagerProofs.**  Types, `AppScreenOwned`, `HeldHasFocus`, `ReleaseIsRequested`.
  The strengthening is `FocusOwned` (an object has the focus only while its page and
  application exist, by which a page change from inside an application is impossible) and
  `SelectionInDays`.  `LabelShowsSelection` follows.
* **HomeScreenProofs.** Types, `TickTouchesLiveLabels`, `PressTakenOnce`,
  `PagesExclusive`. The inductive invariant has `PressKept` (which of the two stores of
  a press is still to come, and what key, flag and `takes` are then), `OnePage` (at each
  step of a page change, which pages are drawn), `EndLooked` (a step at the last page
  has seen that it is the last), `TickStops` (the tick is cancelled before the labels
  go), and `StartIsShort`: at most two keys fit into the sleep of `init_ui`. The bound
  is needed: a third could leave the face again before its first rendering, with the
  tick already armed.
* **PhoneSyncProofs.**  Types and `TickExplained`, by an invariant that puts every time
  message, queued or in hand, not ahead of the phone's clock, and every word of the
  forecast on the day of `expires_at` outside a copy.  `DecoderFollowsLayout`: for
  payloads of any length and buffers of any size the decoder accepts exactly the payloads
  that have the documented layout, and reads the strings of that layout; hence
  `NotificationDecoded`.
* **BleTransportProofs.**  Types, where the part that is not a type is that no packet is
  longer than the link allows, across `LoadMessage`, `WriteChunk` and MTU changes.  Then
  `StreamComplete`, `StreamInOrder` and `LossHeals`, for any messages, packet sizes and
  losses.  The invariant (`StreamInv`) follows the parser byte by byte through the packet
  in hand: it is where the builder is, or it skips the rest of one message of which it has
  missed the beginning, or it reads into the payload of a message it had begun.  In the
  second case payload bytes are passed over until the next magic byte, which is the start
  of a header because payloads hold none (the assumption of section 3); in the third the
  payload takes the whole packet, or it ends in it and leaves the parser in one of the other
  two places.
* **NotificationScreenProofs.**  `ScreenImplementsPage`: with focus, keys and detail
  screens the page takes only steps of `NotificationManager`, so whatever is proved there
  holds here (`ScreenSafety`).  `ScreenInv`: the focus is on an object that exists, the
  cards are those of the list, no detail screen refers to a card that is gone; from it
  `DetailOfCard`.
  `SearchesAgree` (`FocusWalksInOrder`) rests on `SearchesInTreeOrder`, which is about every
  rooted tree and not only that of the page.  A *level* is the sequence of navigable
  objects that a loop over children passes without looking below them.  The objects of a
  level are exactly those with the same navigable object around them (`LevelIsNear`),
  in the order of the tree (`LevelInOrder`); the search of ENTER returns the first of a
  level, the scan of RIGHT and LEFT, with its flags threaded through the recursion,
  the neighbour in one (`ScanOfLevel`), and the paths of `InTreeOrder` name the same objects
  (`LevelPaths`).  `PageRooted` shows that the tree of the page is rooted, for any number
  of cards and detail screens.

Recursive functions come with two obligations: that a function with the definition exists
(`ParserSteps`, `RecursionExists`: calls go to smaller arguments) and what its values are
(`ParsedReads`, `Smaller`).  Both are proved from the least element of a set of numbers,
for a measure of the arguments: the number of the byte in its packet, or in the tree a
weight that leaves room for an object's children (`Layered`).  The induction theorems of
the library take a predicate as parameter, which the provers cannot instantiate; the least
element of the set of arguments for which the claim fails serves the same purpose.

Only model-checked: the liveness properties `QuietSleeps`, `StuckHandlerReclaimed`,
`HeldItemResolved`, `HookEnds`, `SyncCompletes` and `FaceKeepsTicking`, which rest on
fairness, that is on `ENABLED`, out of reach of the prover.  Every invariant and every
other action property of section 4 is a theorem.

## 7. Where code and comments disagree

Each is a run whose only property TLC refutes.

1. `runtime_respawn_count`: a worker killed by the hard watchdog leaves its increment
   of `active_worker_count` behind (`worker_pool.c:73`).  `CountExact` has the exact
   account.  After one hard expiry the early curfew never happens again.
2. `notification_overflow`: with the store full, the shift copies in the wrong direction:
   the newest and the second newest of the stored notifications are lost, the oldest is
   kept twice.
3. `ble_header_repeat`: the header is repeated when it ends a packet exactly and the
   payload follows in the next one; the receiver takes it for payload.
4. `app_null`: an answer for a closed application reads through NULL in
   `generate_curr_app_id`, before `send_app_update` handles that case.

Also seen while modelling, without a run:

* A worker that is re-created in `STATE_SLEEP` is not suspended (`SleepQuiet` is stated
  so: it waits at the head of its loop and refuses what it gets).
* "Maintenance and active tasks fully processed" (`runtime_manager.c:182`) is logged
  while a worker holds an item that it has taken and not yet counted, which
  `EarlySleepDrains` therefore leaves out.
* `refresh_weather_ui_data` checks the widgets once and uses them later, so closing the
  application in between makes it write through NULL (label `"null"` in `AppManager`).
  An answer that never comes leaves the spinner for as long as the application is open.
* `effective_mtu` is not reset on a new connection, so the first packets can be too
  long for the link and are lost (`PacketLost`).
* Messages are said to be queued "till subscribed" (`ble_manager.c:34`) and are thrown
  away when the phone leaves inside the hook's loop.
* `close_curr_page` is said to call "all the delete function pointers"
  (`ui_manager.c:71`) and does not call that of the watch face, which does no harm as
  long as `TickTouchesLiveLabels` holds.
* A key during start-up leaves tab and page apart for good (`PagesExclusive` leaves such
  start-ups out), and a LEFT whose `curr_watch_state--` the main thread interrupts leaves
  the state below `_START`, where the guards, tests for equality, stop no further LEFT.
* `init_events` asks for time and weather once, without a retry; the request is refused
  when a key has turned the page by then, and reads through NULL on the application page.
* A forecast must be "at least 197 bytes" (`ble_response_handler.c:13`); the layout
  under that comment and the check at line 196 say 148.  `expires_at` of a
  forecast is stored and never compared, so an old one is shown until another comes.
* The table of month names (`wf2_ui.c:16`) lacks AUGUST, so the face is a month ahead from
  August on and has no name in December.
* A click on a button of a detail screen does nothing, the screen is left with ESC; LEFT
  and RIGHT on it move the focus to the cards behind it; after a refresh its
  `prev_focused` points to a title that is freed (`DetailOfCard` is about titles
  that exist).

## 8. What is not modelled, and why

*Restart with RTC memory.*  `persistance_manager.c` keeps its state in a section that
survives deep sleep, but the program never enters deep sleep: a reset is a power-on,
and starts from zeros, which is `Init` of `PhoneSync`.

*External.*  LVGL (rendering, its own focus handling, which the models leave
open), the Bluetooth stack (`init_ble`, advertising, pairing), Zephyr's kernel beyond what its
calls promise, the phone's application, drivers (power, GPIO, storage, display).

*No state worth a model.*  Drawing, labels, colours, icons, images, themes; the first
watch face (`wf1`, never selected, its tick only logs); the start-up order (the initial
states are those after `do_init_work`, in `HomeScreen` those of the sleep in
`init_ui`); `get_weather_day`, which copies for an application the array that
`get_curr_weather` reads; the LVGL thread's loop, which stands for its callbacks, the
actions of the page modules.

*Never called.*  Gestures (the boards have a keypad), `tx_reset_context`, `deinit_ui`,
`wf2_del_wf`.

## 9. Plan

The order is by what a fault would cost.  Done: `RuntimeManager`, `BleFifo` with its
refinement, `BleTransport`, `NotificationManager`, `AppManager`, `HomeScreen`,
`PhoneSync` with the decoder, `FocusSearch` under `NotificationScreen`, and the theorems
about all their safety properties.  Left:

1. `RuntimeManager` composed with `AppManager`, so that suspension and killing come
   from the state machine and not from a free choice.
2. The receive path in one module: the parser of `BleTransport` in front of the queue of
   `PhoneSync`; abstract specification: each message of a stream is handled once and in
   order unless the FIFO dropped it.
3. `NotificationManager` cut inside receive, dismissal and redraw, for a time slice that
   ends there (section 1).
