------------------------------ MODULE MCWsClient ------------------------------
(* Small instances of WsClient for TLC. *)
EXTENDS WsClient

CONSTANTS c1, c2   \* the calls

CallSet == {c1, c2}
OneCall == {c1}
NoCalls == {}

==============================================================================
