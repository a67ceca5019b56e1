------------------------------ MODULE MCRpcWs ------------------------------
(* A small instance of RpcWs for TLC. *)
EXTENDS RpcWs

Name(s, m) == <<s, m>>
Request(n, p) == [json |-> TRUE, method |-> n, params |-> p]

LowerMethod == [m \in {"Find", "drop"} |-> IF m = "Find" THEN "find" ELSE m]

(* The server has one service and a special method that may fail; the      *)
(* client handles responses, under the empty name, and a push.             *)
AllServices == [server |-> [db |-> [rcvr |-> "db", methods |-> [find |-> "Find"]]],
                client |-> <<>>]
SpecialNames == [server |-> {<<"login">>}, client |-> {NoMethodName, <<"push">>}]
FailingNames == [server |-> {<<"login">>}, client |-> {<<"push">>}]
SendSet == [client |-> {Request(Name("db", "Find"), "good"), Request(Name("db", "drop"), "good"),
                        Request(<<"login">>, "missing")},
            server |-> {Request(<<"push">>, "good"), Garbage}]

=============================================================================
