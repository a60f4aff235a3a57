--------------------------- MODULE MCBleTransport ---------------------------
(* The messages the applications send: a request without payload and a     *)
(* weather query, whose payload is a day, a month and a year.               *)
EXTENDS BleTransport

TimeUpdate == [opcode |-> 1, req_app |-> 1, payload |-> <<>>]
Query == [opcode |-> 3, req_app |-> 2, payload |-> <<5, 12, 7, 234>>]
MCMessages == {TimeUpdate, Query}
=============================================================================
