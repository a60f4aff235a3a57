-------------------------- MODULE DropOldestQueue --------------------------
(***************************************************************************)
(* What a message FIFO of the BLE link promises: a queue of at most Cap    *)
(* messages that never refuses one; a message added to a full queue takes  *)
(* the place of the oldest.  Nothing is reordered, duplicated or lost      *)
(* otherwise.                                                              *)
(***************************************************************************)
EXTENDS Naturals, Sequences

CONSTANTS Msgs, Cap, NoMsg, Added

VARIABLES
  queue,
  out     \* the answer to the last call

Init == queue = <<>> /\ out = NoMsg

Add(m) ==
  /\ queue' = Append(IF Len(queue) = Cap THEN Tail(queue) ELSE queue, m)
  /\ out' = Added

(* The caller gets the oldest message, or is told that there is none. *)
Get ==
  \/ queue # <<>> /\ out' = Head(queue) /\ queue' = Tail(queue)
  \/ queue = <<>> /\ out' = NoMsg /\ UNCHANGED queue

Next == Get \/ \E m \in Msgs : Add(m)

Spec == Init /\ [][Next]_<<queue, out>>
=============================================================================
