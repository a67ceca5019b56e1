----------------------------- MODULE MCWsServer -----------------------------
(* Small instances of WsServer for TLC. *)
EXTENDS WsServer, TLC

CONSTANTS wait, sub, note   \* calls

(* The receiver has a method that returns a value, one that returns a      *)
(* channel, and one without results, which is also known by an alias.      *)
Service == [get   |-> [ins |-> <<"ctx", "value">>, outs |-> <<"value", "error">>],
            watch |-> [ins |-> <<"ctx">>, outs |-> <<"chan", "error">>],
            tell  |-> [ins |-> <<"value">>, outs |-> <<>>]]
Table == register(<<>>, "srv", Service)
AliasTable == AliasMethod(<<>>, <<"say">>, <<"srv", "tell">>)

AllRequests ==
  (wait :> [method |-> <<"srv", "get">>, hasID |-> TRUE, params |-> <<TRUE>>]) @@
  (sub  :> [method |-> <<"srv", "watch">>, hasID |-> TRUE, params |-> <<>>]) @@
  (note :> [method |-> <<"say">>, hasID |-> FALSE, params |-> <<TRUE>>])

CallSet == {wait, sub, note}
Requests == [c \in CallSet |-> AllRequests[c]]
Waiting == {wait}
Outcomes == {[panics |-> FALSE, val |-> "v", err |-> FALSE],
             [panics |-> FALSE, val |-> Odd, err |-> FALSE],
             [panics |-> FALSE, val |-> "v", err |-> TRUE],
             [panics |-> TRUE, val |-> Zero, err |-> FALSE]}

=============================================================================
