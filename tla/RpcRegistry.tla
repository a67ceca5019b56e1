---------------------------- MODULE RpcRegistry ----------------------------
(***************************************************************************)
(* The services of package rockfmw (rpc_map.go, rpc_json.go): which        *)
(* receivers can be registered, under which name, and which method a       *)
(* request is for.                                                         *)
(*                                                                         *)
(* A receiver is [name, exported, methods]: the name of its type and the   *)
(* sequence of its exported methods, in reflection's order, each [name,    *)
(* ins], ins being the kinds of its arguments: "ptr" (a pointer to an      *)
(* exported or builtin type), "done" (a DoneHandle) or "other".  A service *)
(* is [rcvr, methods].  The name of a request is the sequence of its parts *)
(* between dots.                                                           *)
(***************************************************************************)
EXTENDS Naturals, Sequences

CONSTANT ToLower   \* ToLower[n]: the method name n in lower case

NoName == ""

(* A method can be called when it takes a pointer and a DoneHandle.        *)
Suitable(m) == m.ins = <<"ptr", "done">>

(* The methods by lower-case name.  Of two names that differ only in case  *)
(* the last one is kept.                                                   *)
methodTable(rcvr) ==
  LET ms == rcvr.methods
      Named(l) == {i \in DOMAIN ms : Suitable(ms[i]) /\ ToLower[ms[i].name] = l}
      Last(I) == CHOOSE i \in I : \A j \in I : j <= i
  IN [l \in {ToLower[ms[i].name] : i \in {j \in DOMAIN ms : Suitable(ms[j])}} |->
        ms[Last(Named(l))].name]

serviceName(rcvr, name) == IF name = NoName THEN rcvr.name ELSE name

(* Why register fails before it looks at the map, or "none".               *)
unfit(rcvr, name) ==
  CASE name = NoName /\ ~rcvr.exported -> "not exported"
    [] ~(name = NoName /\ ~rcvr.exported) /\ DOMAIN methodTable(rcvr) = {} -> "no methods"
    [] OTHER -> "none"

(* get: the service and the method a name stands for, or an error.         *)
get(services, parts) ==
  CASE Len(parts) # 2 -> [error |-> "ill-formed", rcvr |-> NoName, method |-> NoName]
    [] Len(parts) = 2 /\ parts[1] \notin DOMAIN services ->
         [error |-> "no service", rcvr |-> NoName, method |-> NoName]
    [] OTHER ->
         LET s == services[parts[1]]
             m == ToLower[parts[2]]
         IN IF m \in DOMAIN s.methods
              THEN [error |-> "none", rcvr |-> s.rcvr, method |-> s.methods[m]]
              ELSE [error |-> "no method", rcvr |-> NoName, method |-> NoName]

(* Why callRPC answers without calling the method, or "none": the name, or *)
(* parameters that are missing (also when they are null) or do not decode. *)
callError(services, req) ==
  LET g == get(services, req.method)
  IN IF g.error # "none" THEN g.error
     ELSE IF req.params # "good" THEN "params"
     ELSE "none"

=============================================================================
