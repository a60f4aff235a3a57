---------------------------- MODULE MCPhoneSync ----------------------------
(* Every payload of up to 8 bytes whose lengths are at most 2. *)
EXTENDS PhoneSync

MCPayloads == UNION {[1..n -> 0..2] : n \in 5..8} \cup {<<>>, <<0, 0, 0, 0>>}
=============================================================================
