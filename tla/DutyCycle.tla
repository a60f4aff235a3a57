----------------------------- MODULE DutyCycle -----------------------------
(***************************************************************************)
(* What the runtime promises to whoever gives it work: the watch sleeps,   *)
(* wakes for a window with a curfew hook registered, closes the window by  *)
(* handing that hook over, drains, and sleeps again.  Asleep no worker     *)
(* enters or leaves its item, unless it is killed.  Those that are still   *)
(* inside when the watch falls asleep have been told to stop, and nobody   *)
(* is killed who has not been told.                                        *)
(***************************************************************************)
CONSTANT Workers

VARIABLES
  mode,   \* "asleep", "awake" or "draining"
  ends,   \* a timer is armed that ends the mode
  hook,   \* a curfew hook is registered
  inside, \* workers inside an item
  told    \* those of them that were told to stop

workers == <<inside, told>>
cycle == <<mode, ends, hook>>
vars == <<cycle, workers>>

Init ==
  /\ mode = "asleep" /\ ~ends /\ ~hook
  /\ inside = {} /\ told = {}

Wake ==
  /\ mode # "awake"
  /\ mode' = "awake" /\ ends' /\ hook'
  /\ UNCHANGED workers

CloseWindow ==
  /\ mode = "awake" /\ hook
  /\ mode' = "draining" /\ ends' /\ ~hook'
  /\ UNCHANGED workers

FallAsleep ==
  /\ mode = "draining"
  /\ mode' = "asleep" /\ ~ends' /\ UNCHANGED hook
  /\ told' = inside /\ UNCHANGED inside

(* A worker may find an order from before, until it clears it. *)
Enter(w) ==
  /\ mode # "asleep" /\ w \notin inside
  /\ inside' = inside \cup {w} /\ told' \in {told, told \cup {w}}
  /\ UNCHANGED cycle

Clear(w) ==
  /\ mode # "asleep" /\ w \in inside
  /\ told' = told \ {w} /\ UNCHANGED <<cycle, inside>>

Leave(w) ==
  /\ mode # "asleep" /\ w \in inside
  /\ inside' = inside \ {w} /\ told' = told \ {w}
  /\ UNCHANGED cycle

Tell(w) ==
  /\ w \in inside
  /\ told' = told \cup {w} /\ UNCHANGED <<cycle, inside>>

Kill(w) ==
  /\ w \in told
  /\ inside' = inside \ {w} /\ told' = told \ {w}
  /\ UNCHANGED cycle

Next ==
  \/ Wake \/ CloseWindow \/ FallAsleep
  \/ \E w \in Workers : Enter(w) \/ Clear(w) \/ Leave(w) \/ Tell(w) \/ Kill(w)

Spec == Init /\ [][Next]_vars
=============================================================================
