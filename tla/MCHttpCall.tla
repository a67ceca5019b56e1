----------------------------- MODULE MCHttpCall -----------------------------
(* A small instance of HttpCall for TLC. *)
EXTENDS HttpCall

CONSTANTS a, b   \* calls

CallSet == {a, b}

Service ==
  [get   |-> [ins |-> <<"ctx", "value">>, outs |-> <<"value", "error">>],
   tell  |-> [ins |-> <<"ctx">>, outs |-> <<>>],
   check |-> [ins |-> <<"ctx">>, outs |-> <<"error">>],
   load  |-> [ins |-> <<"ctx", "reader">>, outs |-> <<"value", "error">>],
   watch |-> [ins |-> <<"ctx">>, outs |-> <<"chan", "error">>]]
Table == register(<<>>, "srv", Service)
AliasTable == AliasMethod(<<>>, <<"probe">>, <<"srv", "check">>)

KindSet == {"get", "long", "garbled", "short", "load", "watch", "odd", "anon", "denied", "forged",
            "bare", "other"}

MethodTypeOf == [k \in KindSet |->
  CASE k \in {"get", "long", "garbled", "short", "odd", "anon", "other"} -> Service.get
    [] k \in {"denied", "forged"} -> Service.check
    [] k = "load" -> Service.load
    [] k = "watch" -> Service.watch
    [] k = "bare" -> Service.tell]

(* The fields of two clients are not of the type of the method: one has no *)
(* results (rpc_test.go:305-313), one a result of another type.            *)
TypeOf == [MethodTypeOf EXCEPT !["anon"].outs = <<>>]
MisfitsOf == [k \in KindSet |-> IF k = "other" THEN {"v"} ELSE {}]

Request == [k \in KindSet |->
  [hasID  |-> TRUE,
   method |-> CASE k \in {"get", "long", "garbled", "short", "odd", "anon", "other"} ->
                       <<"srv", "get">>
                [] k \in {"denied", "forged"} -> <<"probe">>
                [] k = "load" -> <<"srv", "load">>
                [] k = "watch" -> <<"srv", "watch">>
                [] k = "bare" -> <<"srv", "tell">>,
   params |-> CASE k \in {"get", "long", "odd", "anon", "load", "other"} -> <<TRUE>>
                [] k = "garbled" -> <<FALSE>>
                [] k \in {"short", "watch", "denied", "forged", "bare"} -> <<>>]]

(* Tokens "t" and "f"; requests may read without one.                      *)
CredOf == [k \in KindSet |->
  CASE k = "anon" -> [header |-> "none", form |-> FALSE, token |-> "t"]
    [] k = "denied" -> [header |-> "bearer", form |-> FALSE, token |-> "t"]
    [] k = "forged" -> [header |-> "none", form |-> TRUE, token |-> "f"]
    [] k = "short" -> [header |-> "other", form |-> FALSE, token |-> "t"]
    [] OTHER -> [header |-> "bearer", form |-> FALSE, token |-> "t"]]
PermOf == [k \in KindSet |->
  CASE k \in {"get", "anon", "forged", "load"} -> "read"
    [] k \in {"denied", "bare"} -> "write"
    [] OTHER -> NoPerm]
VerifyOf == [t |-> {"read"}, f |-> Invalid]

SizeOf == [k \in KindSet |-> IF k = "long" THEN 3 ELSE 2]

(* A panic is what the proxy of "bare" and a reader closed twice end in.   *)
Outcomes == {[panics |-> FALSE, val |-> "v", err |-> FALSE],
             [panics |-> FALSE, val |-> "v", err |-> TRUE],
             [panics |-> FALSE, val |-> Odd, err |-> FALSE]}

=============================================================================
