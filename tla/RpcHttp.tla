------------------------------ MODULE RpcHttp ------------------------------
(***************************************************************************)
(* A rockfmw server that answers over HTTP, the goroutines that register   *)
(* services with it, and RPCHTTPClient.Call (rpc_abstract.go,              *)
(* rpc_http_client.go, rpc_map.go).                                        *)
(*                                                                         *)
(* A method answers by calling done: in time or after HTTPHandler has      *)
(* returned, once, twice or never.  net/http sends what was written when   *)
(* HTTPHandler returns, and does not allow to write after that: what a     *)
(* late done does is left out, but that it comes too late is not.          *)
(*                                                                         *)
(* Abstracted: JSON, header fields and the text of errors, apart from      *)
(* whether it is empty; the routes of mux, which let only paths of two     *)
(* parts through.  A request is [verb, json, path, params].                *)
(***************************************************************************)
EXTENDS RpcRegistry

CONSTANTS
  Registrars,  \* goroutines that call RegisterService, once each
  Rcvr,        \* Rcvr[g]: the receiver g registers
  GivenName,   \* GivenName[g]: the name it gives, NoName for the type's
  HttpCalls,   \* calls over HTTP
  Requests,    \* the requests they may make
  Answers,     \* what a method gives to done: a set of [val, err, text,
               \* fits], fits when the value can be written as JSON
  MaxDone,     \* bound on the calls of one done
  NoRegistrar  \* no goroutine

ASSUME RpcHttpAssumption ==
  /\ MaxDone \in Nat \ {0}
  /\ NoRegistrar \notin Registrars
  /\ \A a \in Answers : a.err \in BOOLEAN /\ a.text \in BOOLEAN /\ a.fits \in BOOLEAN

VARIABLES
  services,  \* the map of registered services
  regResult, \* regResult[g]: what RegisterService returned to g
  request,   \* request[c]
  hpc,       \* where HTTPHandler is for c
  runner,    \* runner[c]: the goroutine that registered the called receiver
  called,    \* called[c]: the sequence of what done was given in time
  status,    \* status[c]: the HTTP status, 0 before
  body,      \* body[c]: the responses written
  cpc,       \* where Call is
  result     \* result[c]: what Call returned

httpVars == <<services, regResult, request, hpc, runner, called, status, body, cpc, result>>

NoRequest == [verb |-> "none", json |-> FALSE, path |-> <<>>, params |-> "none"]
NoResult == [ok |-> FALSE, val |-> "none"]
RPCRsps == [val : {"none"} \cup {a.val : a \in Answers}, msg : BOOLEAN]

HttpTypeOK ==
  /\ DOMAIN services \subseteq {serviceName(Rcvr[g], GivenName[g]) : g \in Registrars}
  /\ regResult \in [Registrars -> {"none", "ok", "not exported", "no methods", "taken"}]
  /\ request \in [HttpCalls -> Requests \cup {NoRequest}]
  /\ hpc \in [HttpCalls -> {"none", "running", "returned"}]
  /\ runner \in [HttpCalls -> Registrars \cup {NoRegistrar}]
  /\ \A c \in HttpCalls : called[c] \in Seq(Answers) /\ body[c] \in Seq(RPCRsps)
  /\ \A c \in HttpCalls : Len(body[c]) <= MaxDone
  /\ status \in [HttpCalls -> {0, 200, 400, 405}]
  /\ cpc \in [HttpCalls -> {"idle", "waiting", "done"}]

HttpInit ==
  /\ services = <<>>
  /\ regResult = [g \in Registrars |-> "none"]
  /\ request = [c \in HttpCalls |-> NoRequest]
  /\ hpc = [c \in HttpCalls |-> "none"]
  /\ runner = [c \in HttpCalls |-> NoRegistrar]
  /\ called = [c \in HttpCalls |-> <<>>]
  /\ status = [c \in HttpCalls |-> 0]
  /\ body = [c \in HttpCalls |-> <<>>]
  /\ cpc = [c \in HttpCalls |-> "idle"]
  /\ result = [c \in HttpCalls |-> NoResult]

callVars == <<request, hpc, runner, called, status, body, cpc, result>>

-----------------------------------------------------------------------------
(* The last part of register, under the mutex.                             *)
Insert(g) ==
  LET n == serviceName(Rcvr[g], GivenName[g])
  IN services' = [m \in DOMAIN services \cup {n} |->
                    IF m = n THEN [rcvr |-> g, methods |-> methodTable(Rcvr[g])] ELSE services[m]]

register_Over(g) ==      \* Mutant: a service that is already defined is replaced.
  /\ regResult[g] = "none"
  /\ unfit(Rcvr[g], GivenName[g]) = "none"
  /\ Insert(g)
  /\ regResult' = [regResult EXCEPT ![g] = "ok"]
  /\ UNCHANGED callVars

register(g) ==
  LET why == unfit(Rcvr[g], GivenName[g])
      n == serviceName(Rcvr[g], GivenName[g])
  IN /\ regResult[g] = "none"
     /\ IF why # "none"
          THEN regResult' = [regResult EXCEPT ![g] = why] /\ UNCHANGED services
        ELSE IF n \in DOMAIN services
          THEN regResult' = [regResult EXCEPT ![g] = "taken"] /\ UNCHANGED services
        ELSE regResult' = [regResult EXCEPT ![g] = "ok"] /\ Insert(g)
     /\ UNCHANGED callVars

(* Call sends the request.                                                 *)
Call(c) ==
  /\ cpc[c] = "idle"
  /\ \E r \in Requests : request' = [request EXCEPT ![c] = r]
  /\ cpc' = [cpc EXCEPT ![c] = "waiting"]
  /\ UNCHANGED <<services, regResult, hpc, runner, called, status, body, result>>

writeError(c, s) ==
  /\ status' = [status EXCEPT ![c] = s]
  /\ hpc' = [hpc EXCEPT ![c] = "returned"]
  /\ UNCHANGED <<runner, body>>

(* HTTPHandler up to the call of the method: an error of callRPC goes      *)
(* through done, hence is a response with status 200.                      *)
HTTPHandler(c) ==
  LET r == request[c]
      req == [method |-> r.path, params |-> r.params]
  IN /\ cpc[c] = "waiting" /\ hpc[c] = "none"
     /\ CASE r.verb # "POST" -> writeError(c, 405)
          [] r.verb = "POST" /\ ~r.json -> writeError(c, 400)
          [] OTHER ->
               IF callError(services, req) # "none"
                 THEN /\ status' = [status EXCEPT ![c] = 200]
                      /\ body' = [body EXCEPT ![c] = <<[val |-> "none", msg |-> TRUE]>>]
                      /\ hpc' = [hpc EXCEPT ![c] = "returned"]
                      /\ UNCHANGED runner
                 ELSE /\ hpc' = [hpc EXCEPT ![c] = "running"]
                      /\ runner' = [runner EXCEPT ![c] = get(services, r.path).rcvr]
                      /\ UNCHANGED <<status, body>>
     /\ UNCHANGED <<services, regResult, request, called, cpc, result>>

(* done: writes the response, or nothing when it cannot be written as      *)
(* JSON; an error is recognised by its text.                               *)
Done(c) ==
  /\ hpc[c] = "running"
  /\ Len(called[c]) < MaxDone
  /\ \E a \in Answers :
       /\ called' = [called EXCEPT ![c] = Append(@, a)]
       /\ body' = IF a.fits
                    THEN [body EXCEPT ![c] = Append(@, [val |-> a.val, msg |-> a.err /\ a.text])]
                    ELSE body
  /\ UNCHANGED <<services, regResult, request, hpc, runner, status, cpc, result>>

(* The method returns, and HTTPHandler with it; net/http sends the answer. *)
HandlerReturns(c) ==
  /\ hpc[c] = "running"
  /\ hpc' = [hpc EXCEPT ![c] = "returned"]
  /\ status' = [status EXCEPT ![c] = 200]
  /\ UNCHANGED <<services, regResult, request, runner, called, body, cpc, result>>

(* Call returns: anything but one response without a message is an error.  *)
Answered_FirstBody(c) == \* Mutant: decodes the first response and ignores the rest.
  IF status[c] = 200 /\ body[c] # <<>> /\ ~body[c][1].msg
    THEN [ok |-> TRUE, val |-> body[c][1].val] ELSE NoResult

Answered(c) ==
  IF status[c] = 200 /\ Len(body[c]) = 1 /\ ~body[c][1].msg
    THEN [ok |-> TRUE, val |-> body[c][1].val] ELSE NoResult

CallReturns(c) ==
  /\ cpc[c] = "waiting" /\ hpc[c] = "returned"
  /\ cpc' = [cpc EXCEPT ![c] = "done"]
  /\ result' = [result EXCEPT ![c] = Answered(c)]
  /\ UNCHANGED <<services, regResult, request, hpc, runner, called, status, body>>

(* The timeout of the client, or a broken connection.                      *)
CallFails(c) ==
  /\ cpc[c] = "waiting"
  /\ cpc' = [cpc EXCEPT ![c] = "done"]
  /\ UNCHANGED <<services, regResult, request, hpc, runner, called, status, body, result>>

HttpNext ==
  \/ \E g \in Registrars : register(g)
  \/ \E c \in HttpCalls :
       Call(c) \/ HTTPHandler(c) \/ Done(c) \/ HandlerReturns(c) \/ CallReturns(c) \/ CallFails(c)

HttpSpec == HttpInit /\ [][HttpNext]_httpVars

-----------------------------------------------------------------------------
(* RegisterService returned nil to a goroutine exactly when its receiver   *)
(* is the one that serves the name, now and from then on, whoever else     *)
(* registers the same name meanwhile (rpc_map.go:101-109).                 *)
WinnerServes ==
  \A g \in Registrars :
    LET n == serviceName(Rcvr[g], GivenName[g])
    IN regResult[g] = "ok" <=> (n \in DOMAIN services /\ services[n].rcvr = g)

(* Call returns nil only when of what the method gave to done before it    *)
(* returned exactly one answer could be written, and gives the value of    *)
(* that one; the error with it may still have had an empty text, which is  *)
(* taken for none (rpc_http_client.go:31-63, rpc_abstract.go:145-161).     *)
NilMeansDone ==
  \A c \in HttpCalls :
    (cpc[c] = "done" /\ result[c].ok)
      => /\ \E i \in 1 .. Len(called[c]) :
              /\ \A j \in 1 .. Len(called[c]) : called[c][j].fits <=> j = i
              /\ called[c][i].err => ~called[c][i].text
              /\ result[c].val = called[c][i].val
         /\ regResult[runner[c]] = "ok"

=============================================================================
