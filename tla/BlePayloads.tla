---------------------------- MODULE BlePayloads ----------------------------
(***************************************************************************)
(* How BLE/ble_response_handler.c takes a notification apart: an           *)
(* application number, then four strings, each led by its length.  The     *)
(* strings are cut to the buffers they are copied to.  Nothing of a        *)
(* payload is used when one of the lengths reaches beyond its end.         *)
(*                                                                         *)
(* A payload is a sequence of bytes; index idx of the code is position     *)
(* idx + 1 of the sequence.                                                *)
(***************************************************************************)
EXTENDS Integers, Sequences

CONSTANTS
  NameMax, BodyMax, ActionMax, DismissMax  \* sizes of the buffers

ASSUME BufferAssumption ==
  /\ NameMax \in Nat \ {0} /\ BodyMax \in Nat \ {0}
  /\ ActionMax \in Nat \ {0} /\ DismissMax \in Nat \ {0}

MinLen == 5  \* the application and four lengths

Lesser(a, b) == IF a < b THEN a ELSE b

(* Where the parser is: its index and the strings extracted so far. *)
Cursor(idx, texts) == [ok |-> TRUE, idx |-> idx, texts |-> texts]
Failed(c) == [c EXCEPT !.ok = FALSE]

(* Mutant: a string that ends with the payload is taken for too long *)
ExtractLastRefused(p, c, dest_max) ==
  IF ~c.ok \/ c.idx >= Len(p) THEN Failed(c)
  ELSE LET str_len == p[c.idx + 1]
           start == c.idx + 1
       IN  IF start + str_len >= Len(p) THEN Failed(c)
           ELSE Cursor(start + str_len,
                       Append(c.texts, SubSeq(p, start + 1, start + Lesser(str_len, dest_max - 1))))

(* A string longer than its buffer is cut, its tail skipped. *)
extract_lean_string(p, c, dest_max) ==
  IF ~c.ok \/ c.idx >= Len(p) THEN Failed(c)
  ELSE LET str_len == p[c.idx + 1]
           start == c.idx + 1
       IN  IF start + str_len > Len(p) THEN Failed(c)
           ELSE Cursor(start + str_len,
                       Append(c.texts, SubSeq(p, start + 1, start + Lesser(str_len, dest_max - 1))))

(* Bytes behind the last string are only reported. *)
parse_notification_payload(p) ==
  IF Len(p) < MinLen THEN Failed(Cursor(0, <<>>))
  ELSE LET app_name == extract_lean_string(p, Cursor(1, <<>>), NameMax)
           body == extract_lean_string(p, app_name, BodyMax)
           action_name == extract_lean_string(p, body, ActionMax)
       IN  extract_lean_string(p, action_name, DismissMax)

-----------------------------------------------------------------------------
(* The layout that the documentation of the parser draws, without a parser: *)
(* four lengths l such that each stands where the string before it ends,    *)
(* and all strings lie inside the payload.                                  *)
LengthAt(l, i) ==
  CASE i = 1 -> 2
    [] i = 2 -> 3 + l[1]
    [] i = 3 -> 4 + l[1] + l[2]
    [] i = 4 -> 5 + l[1] + l[2] + l[3]

LaidOut(p, l) ==
  /\ LengthAt(l, 4) + l[4] <= Len(p)
  /\ \A i \in 1..4 : p[LengthAt(l, i)] = l[i]

BufferOf == <<NameMax, BodyMax, ActionMax, DismissMax>>

Texts(p, l) ==
  [i \in 1..4 |-> [j \in 1..Lesser(l[i], BufferOf[i] - 1) |-> p[LengthAt(l, i) + j]]]
=============================================================================
