------------------------------ MODULE Dispatch ------------------------------
(***************************************************************************)
(* What an RPCServer does with one request, whichever transport carried    *)
(* it (jsonrpc/handler.go, server.go, util.go): which methods it knows,    *)
(* which requests it refuses before the handler runs, and what it answers  *)
(* when the handler has returned.                                          *)
(*                                                                         *)
(* A Go function type is [ins, outs], two sequences of the kinds that the  *)
(* code tells apart ("ctx", "value", "reader" and "value", "chan",         *)
(* "error"); the receiver is left out.  A request is [method, hasID,       *)
(* params]; params[i] says whether the i-th parameter decodes.  What a     *)
(* handler returned is [panics, val, err], val being Zero when the value   *)
(* is the zero value of its type and Odd when json.Marshal refuses it, as  *)
(* it does a NaN, a function or a cycle.  A response is [code, result];    *)
(* code names the JSON-RPC error code: "ok" for no error, "parse"          *)
(* (-32700), "notFound" (-32601), "invalidParams" (-32602), "fatal" (0),   *)
(* "method" (1).                                                           *)
(***************************************************************************)
EXTENDS Integers, Sequences

Zero == "zero"     \* the zero value of a result type
Absent == "absent" \* a response without a result
Odd == "odd"       \* a result that has no JSON
NoMethod == <<>>   \* no method name

(* The positions of the value and of the error among the results of a      *)
(* function, 0 for none, or panics.                                        *)
processFuncOut(outs) ==
  [val    |-> IF Len(outs) = 2 \/ (Len(outs) = 1 /\ outs[1] # "error") THEN 1 ELSE 0,
   err    |-> CASE Len(outs) = 2 -> 2
                [] Len(outs) = 1 /\ outs[1] = "error" -> 1
                [] OTHER -> 0,
   panics |-> Len(outs) > 2 \/ (Len(outs) = 2 /\ outs[2] # "error")]

(* The rpcHandler of a method of type ft.                                  *)
rpcHandler(ft) ==
  LET hasCtx == ft.ins # <<>> /\ ft.ins[1] = "ctx"
      out == processFuncOut(ft.outs)
  IN [nParams |-> Len(ft.ins) - (IF hasCtx THEN 1 ELSE 0),
      errOut  |-> out.err,
      valOut  |-> out.val,
      outCh   |-> out.val # 0 /\ ft.outs[out.val] = "chan"]

(* The table after register(namespace, r), r having the methods of the     *)
(* function recv; a name registered again gets the new handler.            *)
register(methods, namespace, recv) ==
  LET new == {<<namespace, m>> : m \in DOMAIN recv}
  IN [n \in DOMAIN methods \cup new |->
        IF n \in new THEN rpcHandler(recv[n[2]]) ELSE methods[n]]

AliasMethod(aliases, alias, original) ==
  [a \in DOMAIN aliases \cup {alias} |-> IF a = alias THEN original ELSE aliases[a]]

(* The name a request is handled under: an alias only counts when no       *)
(* method has the name itself.                                             *)
Lookup(methods, aliases, name) ==
  CASE name \in DOMAIN methods -> name
    [] name \notin DOMAIN methods /\ name \in DOMAIN aliases /\ aliases[name] \in DOMAIN methods
         -> aliases[name]
    [] OTHER -> NoMethod

(* Why handle() does not call the method, or "none".  chans: can this      *)
(* transport carry the values of a channel (chOut # nil)?                  *)
Refusal(methods, aliases, req, chans) ==
  LET name == Lookup(methods, aliases, req.method)
  IN CASE name = NoMethod -> "notFound"
       [] name # NoMethod /\ Len(req.params) # methods[name].nParams -> "invalidParams"
       [] OTHER ->
            IF methods[name].outCh /\ ~chans THEN "notFound"
            ELSE IF \E i \in DOMAIN req.params : ~req.params[i] THEN "parse"
            ELSE "none"

(* The argument of done: does the context outlive handle()?  It does for   *)
(* every method with a channel result once its parameter count is right,   *)
(* whatever handle() does afterwards.                                      *)
KeepCtx(methods, aliases, req) ==
  LET name == Lookup(methods, aliases, req.method)
  IN /\ name # NoMethod
     /\ Len(req.params) = methods[name].nParams
     /\ methods[name].outCh

NoAnswer == [code |-> "none", result |-> Absent]

(* rpcError: nothing is sent to a notification.                            *)
rpcError(req, code) ==
  IF req.hasID THEN [code |-> code, result |-> Absent] ELSE NoAnswer

(* What handle() sends when the handler h has returned ret, a channel      *)
(* apart (see SendsChannel): an error drops the value, a panic is an error *)
(* of its own.                                                             *)
Answer(h, req, ret) ==
  CASE ret.panics -> rpcError(req, "fatal")
    [] ~ret.panics /\ ~req.hasID -> NoAnswer
    [] ~ret.panics /\ req.hasID /\ h.errOut # 0 /\ ret.err -> rpcError(req, "method")
    [] OTHER -> [code |-> "ok", result |-> IF h.valOut = 0 THEN Absent ELSE ret.val]

(* Is the answer the registration of a channel (chOut)?  A nil channel is  *)
(* still a channel: only an error keeps it from being registered.          *)
SendsChannel(h, req, ret) == h.outCh /\ Answer(h, req, ret).code = "ok"

(* Does the response have a text?  An error is marshalled without trouble. *)
Marshals(response) == response.result # Odd

(* n as a signed integer of 2 * half values (half is 2^63 for an int64).    *)
WrapInt(n, half) == ((n + half) % (2 * half)) - half

(* Does handleReader go on to decode a body of size bytes?  It reads one   *)
(* byte more than the maximum; io.LimitReader reads nothing when its limit *)
(* is not positive.                                                        *)
BytesRead(size, max, half) ==
  LET limit == WrapInt(max + 1, half)
  IN IF limit <= 0 THEN 0 ELSE IF size < limit THEN size ELSE limit

(* All of the body was read, and it is not over the limit.  A body cut off *)
(* does not decode as JSON.                                                *)
Accepts_Less(size, max, half) ==  \* Mutant: a body as long as the limit is too long.
  LET n == BytesRead(size, max, half) IN n < max /\ n = size

Accepts(size, max, half) ==
  LET n == BytesRead(size, max, half) IN n <= max /\ n = size

=============================================================================
