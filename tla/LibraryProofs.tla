---------------------------- MODULE LibraryProofs ----------------------------
(***************************************************************************)
(* Proofs about RpcHttp, SqlRows, ToNumber and Backoff, each under its own *)
(* specification.                                                          *)
(*                                                                         *)
(* RpcHttp, for any registrations, calls and answers: who serves a name,   *)
(* which is inductive given the type of regResult, and what a nil error    *)
(* means.  That needs how the responses written are related to the calls   *)
(* of done (Unserved, Served, Returned), and that whoever a request finds  *)
(* in the map of services was told that it is registered                   *)
(* (ServedRegistered).                                                     *)
(*                                                                         *)
(* SqlRows, for any columns, structs, number of rows and widths of the     *)
(* types: what ToMap puts into the table, NULLs and closed rows included,  *)
(* and what UnMarshal puts into the structs.  The first needs what the     *)
(* scan buffer still holds of earlier rows (LastBuffer), the second which  *)
(* fields are still untouched (Prepared) and what is left of an integer    *)
(* cut to fewer bits (WrappedFits).                                        *)
(*                                                                         *)
(* ToNumber and Backoff, for any widths of the types and of the mantissa,  *)
(* any delays and fractions.  Neither has much state: what is long is the  *)
(* arithmetic.  The provers know no law of 2 ^ n, so its recursion is      *)
(* taken from the number of subsets of 1 .. n, and a set of naturals with  *)
(* 0 and all its successors (AllNat) stands for induction.                 *)
(***************************************************************************)
EXTENDS RpcHttp, SqlRows, ToNumber, Backoff,
        SequenceTheorems, FiniteSetTheorems, WellFoundedInduction, TLAPS

-----------------------------------------------------------------------------
(* RpcHttp: registration                                                   *)

RegTypes == regResult \in [Registrars -> {"none", "ok", "not exported", "no methods", "taken"}]

ServedRegistered ==
  \A n \in DOMAIN services :
    services[n].rcvr \in Registrars /\ regResult[services[n].rcvr] = "ok"

RegInv == RegTypes /\ WinnerServes /\ ServedRegistered

LEMMA RegInit == HttpInit => RegInv
<1> SUFFICES ASSUME HttpInit PROVE RegInv
  OBVIOUS
<1>1. DOMAIN services = {} /\ \A g \in Registrars : regResult[g] = "none"
  BY DEF HttpInit
<1>2. RegTypes
  BY DEF HttpInit, RegTypes
<1> QED  BY <1>1, <1>2 DEF RegInv, WinnerServes, ServedRegistered

LEMMA RegStep == RegInv /\ [HttpNext]_httpVars => RegInv'
<1> SUFFICES ASSUME RegInv, [HttpNext]_httpVars PROVE RegInv'
  OBVIOUS
<1>1. CASE UNCHANGED <<services, regResult>>
  BY <1>1 DEF RegInv, RegTypes, WinnerServes, ServedRegistered
<1>2. ASSUME NEW g \in Registrars, register(g) PROVE RegInv'
  <2> DEFINE n == serviceName(Rcvr[g], GivenName[g])
  <2>1. \/ /\ services' = services
           /\ \E why : why # "ok" /\ regResult' = [regResult EXCEPT ![g] = why]
           /\ RegTypes'
        \/ /\ n \notin DOMAIN services
           /\ regResult' = [regResult EXCEPT ![g] = "ok"]
           /\ Insert(g)
    BY <1>2 DEF register, unfit, RegInv, RegTypes
  <2>2. regResult[g] = "none"
    BY <1>2 DEF register
  <2>3. CASE services' = services /\ RegTypes' /\ \E why : why # "ok" /\ regResult' = [regResult EXCEPT ![g] = why]
    <3>1. \A h \in Registrars : regResult'[h] = "ok" <=> regResult[h] = "ok"
      BY <2>2, <2>3 DEF RegInv, RegTypes
    <3> QED  BY <2>3, <3>1 DEF RegInv, WinnerServes, ServedRegistered
  <2>4. CASE /\ n \notin DOMAIN services
             /\ regResult' = [regResult EXCEPT ![g] = "ok"]
             /\ Insert(g)
    <3>1. /\ DOMAIN services' = DOMAIN services \cup {n}
          /\ services'[n].rcvr = g
          /\ \A m \in DOMAIN services : m # n /\ services'[m] = services[m]
      BY <2>4 DEF Insert
    <3> HIDE DEF n
    <3>2. RegTypes'
      BY <2>4 DEF RegInv, RegTypes
    <3>3. regResult'[g] = "ok" /\ \A h \in Registrars \ {g} : regResult'[h] = regResult[h]
      BY <2>4 DEF RegInv, RegTypes
    <3>4. WinnerServes'
      BY <2>4, <3>1, <3>3 DEF RegInv, WinnerServes, ServedRegistered, n
    <3>5. ServedRegistered'
      BY <2>4, <3>1, <3>3 DEF RegInv, ServedRegistered
    <3> QED  BY <3>2, <3>4, <3>5 DEF RegInv
  <2> QED  BY <2>1, <2>3, <2>4
<1> QED
  BY <1>1, <1>2
  DEF HttpNext, httpVars, Call, HTTPHandler, Done, HandlerReturns, CallReturns, CallFails

-----------------------------------------------------------------------------
(* RpcHttp: one call                                                       *)

Results == {"none"} \cup {a.val : a \in Answers}

CallTypes ==
  /\ hpc \in [HttpCalls -> {"none", "running", "returned"}]
  /\ runner \in [HttpCalls -> Registrars \cup {NoRegistrar}]
  /\ cpc \in [HttpCalls -> {"idle", "waiting", "done"}]
  /\ status \in [HttpCalls -> Nat]
  /\ called \in [HttpCalls -> Seq(Answers)]
  /\ body \in [HttpCalls -> Seq([val : Results, msg : BOOLEAN])]
  /\ result \in [HttpCalls -> [ok : BOOLEAN, val : Results]]

(* Before the method is called nothing is written, and if it never is, at  *)
(* most one response with a message.                                       *)
Unserved(c) ==
  /\ hpc[c] # "running"
  /\ called[c] = <<>>
  /\ body[c] # <<>> => hpc[c] = "returned" /\ body[c][1].msg

(* The calls of done have written the responses that can be written.       *)
Served(c) ==
  /\ hpc[c] # "none"
  /\ runner[c] \in Registrars /\ regResult[runner[c]] = "ok"
  /\ Len(body[c]) = 0 => \A i \in 1 .. Len(called[c]) : ~called[c][i].fits
  /\ Len(body[c]) = 1 =>
       \E i \in 1 .. Len(called[c]) :
         /\ \A j \in 1 .. Len(called[c]) : called[c][j].fits <=> j = i
         /\ body[c][1].val = called[c][i].val
         /\ body[c][1].msg <=> called[c][i].err /\ called[c][i].text

(* What Call returned was in the response.                                 *)
Returned(c) ==
  result[c].ok => /\ cpc[c] = "done" /\ hpc[c] = "returned"
                  /\ Len(body[c]) = 1 /\ ~body[c][1].msg
                  /\ result[c].val = body[c][1].val

CallInv ==
  /\ CallTypes
  /\ \A c \in HttpCalls : (Unserved(c) \/ Served(c)) /\ Returned(c)

LEMMA CallInvInit == HttpInit => CallInv
<1> SUFFICES ASSUME HttpInit PROVE CallInv
  OBVIOUS
<1>1. NoResult \in [ok : BOOLEAN, val : Results]
  BY DEF NoResult, Results
<1>2. CallTypes
  BY <1>1, EmptySeq DEF HttpInit, CallTypes
<1>3. \A c \in HttpCalls : Unserved(c)
  BY DEF HttpInit, Unserved
<1>4. \A c \in HttpCalls : Returned(c)
  BY DEF HttpInit, Returned, NoResult
<1> QED  BY <1>2, <1>3, <1>4 DEF CallInv

(* A step that concerns at most the call c: it is enough to look at c.     *)
LEMMA OneCall ==
  ASSUME CallInv, CallTypes', NEW c \in HttpCalls,
         \A d \in HttpCalls \ {c} :
           /\ hpc'[d] = hpc[d] /\ runner'[d] = runner[d] /\ cpc'[d] = cpc[d]
           /\ called'[d] = called[d] /\ body'[d] = body[d] /\ result'[d] = result[d],
         \A g \in Registrars : regResult[g] = "ok" => regResult'[g] = "ok",
         Unserved(c)' \/ Served(c)', Returned(c)'
  PROVE  CallInv'
<1>1. ASSUME NEW d \in HttpCalls, d # c PROVE (Unserved(d)' \/ Served(d)') /\ Returned(d)'
  <2>1. Unserved(d) => Unserved(d)'
    BY <1>1 DEF Unserved
  <2>2. Served(d) => Served(d)'
    BY <1>1 DEF Served
  <2>3. Returned(d) => Returned(d)'
    BY <1>1 DEF Returned
  <2> QED  BY <1>1, <2>1, <2>2, <2>3 DEF CallInv
<1> QED  BY <1>1 DEF CallInv

LEMMA CallKeeps ==
  ASSUME CallInv, NEW c \in HttpCalls, Call(c) \/ CallFails(c)
  PROVE  CallInv'
<1>1. CallTypes'
  BY DEF Call, CallFails, CallInv, CallTypes
<1>2. cpc[c] # "done" /\ UNCHANGED <<regResult, hpc, runner, called, body, result>>
  BY DEF Call, CallFails
<1>3. \A d \in HttpCalls \ {c} : cpc'[d] = cpc[d]
  BY DEF Call, CallFails, CallInv, CallTypes
<1>4. Unserved(c)' \/ Served(c)'
  BY <1>2 DEF CallInv, Unserved, Served
<1>5. Returned(c)'
  BY <1>2 DEF CallInv, Returned
<1> QED  BY <1>1, <1>2, <1>3, <1>4, <1>5, OneCall

LEMMA CallReturnsKeeps ==
  ASSUME CallInv, NEW c \in HttpCalls, CallReturns(c)
  PROVE  CallInv'
<1>1. /\ UNCHANGED <<regResult, hpc, runner, called, body, status>>
      /\ hpc[c] = "returned"
      /\ cpc' = [cpc EXCEPT ![c] = "done"]
      /\ result' = [result EXCEPT ![c] = Answered(c)]
  BY DEF CallReturns
<1>2. \/ Answered(c) = NoResult
      \/ /\ Len(body[c]) = 1 /\ ~body[c][1].msg
         /\ Answered(c) = [ok |-> TRUE, val |-> body[c][1].val]
  BY DEF Answered
<1>3. body[c] \in Seq([val : Results, msg : BOOLEAN])
  BY DEF CallInv, CallTypes
<1>4. Answered(c) \in [ok : BOOLEAN, val : Results]
  <2>1. CASE Answered(c) = NoResult
    BY <2>1 DEF NoResult, Results
  <2>2. CASE Len(body[c]) = 1 /\ Answered(c) = [ok |-> TRUE, val |-> body[c][1].val]
    <3>1. 1 \in 1 .. Len(body[c])
      BY <2>2
    <3>2. body[c][1] \in [val : Results, msg : BOOLEAN]
      BY <1>3, <3>1, ElementOfSeq
    <3>3. body[c][1].val \in Results
      BY <3>2
    <3> QED  BY <2>2, <3>3
  <2> QED  BY <1>2, <2>1, <2>2
<1>5. CallTypes'
  BY <1>1, <1>4 DEF CallInv, CallTypes
<1>6. Unserved(c)' \/ Served(c)'
  BY <1>1 DEF CallInv, Unserved, Served
<1>7. Returned(c)'
  BY <1>1, <1>2 DEF CallInv, CallTypes, Returned, NoResult
<1>8. \A d \in HttpCalls \ {c} : cpc'[d] = cpc[d] /\ result'[d] = result[d]
  BY <1>1 DEF CallInv, CallTypes
<1> QED  BY <1>1, <1>5, <1>6, <1>7, <1>8, OneCall

(* The handler of the request, up to the call of the method.               *)
LEMMA HandlerKeeps ==
  ASSUME CallInv, RegInv, NEW c \in HttpCalls, HTTPHandler(c)
  PROVE  CallInv'
<1>1. /\ cpc[c] = "waiting" /\ hpc[c] = "none"
      /\ UNCHANGED <<services, regResult, request, called, cpc, result>>
  BY DEF HTTPHandler
<1>2. Unserved(c) /\ body[c] = <<>> /\ called[c] = <<>> /\ ~result[c].ok
  BY <1>1 DEF CallInv, Unserved, Served, Returned
<1>3. \/ /\ hpc' = [hpc EXCEPT ![c] = "returned"] /\ UNCHANGED <<runner, body>>
         /\ \E s \in Nat : status' = [status EXCEPT ![c] = s]
      \/ /\ hpc' = [hpc EXCEPT ![c] = "returned"] /\ UNCHANGED runner
         /\ status' = [status EXCEPT ![c] = 200]
         /\ body' = [body EXCEPT ![c] = <<[val |-> "none", msg |-> TRUE]>>]
      \/ /\ hpc' = [hpc EXCEPT ![c] = "running"] /\ UNCHANGED <<status, body>>
         /\ runner' = [runner EXCEPT ![c] = get(services, request[c].path).rcvr]
         /\ callError(services, [method |-> request[c].path, params |-> request[c].params]) = "none"
  BY DEF HTTPHandler, writeError
<1>4. CASE /\ hpc' = [hpc EXCEPT ![c] = "returned"] /\ UNCHANGED <<runner, body>>
           /\ \E s \in Nat : status' = [status EXCEPT ![c] = s]
  <2>1. CallTypes'
    BY <1>1, <1>4 DEF CallInv, CallTypes
  <2>2. hpc'[c] = "returned" /\ \A d \in HttpCalls \ {c} : hpc'[d] = hpc[d]
    BY <1>4 DEF CallInv, CallTypes
  <2>3. Unserved(c)' /\ Returned(c)'
    BY <1>1, <1>2, <1>4, <2>2 DEF Unserved, Returned
  <2> QED  BY <1>1, <1>4, <2>1, <2>2, <2>3, OneCall
<1>5. CASE /\ hpc' = [hpc EXCEPT ![c] = "returned"] /\ UNCHANGED runner
           /\ status' = [status EXCEPT ![c] = 200]
           /\ body' = [body EXCEPT ![c] = <<[val |-> "none", msg |-> TRUE]>>]
  <2>1. CallTypes'
    <3>1. <<[val |-> "none", msg |-> TRUE]>> \in Seq([val : Results, msg : BOOLEAN])
      BY DEF Results
    <3>2. body' \in [HttpCalls -> Seq([val : Results, msg : BOOLEAN])]
      BY <1>5, <3>1 DEF CallInv, CallTypes
    <3> QED  BY <1>1, <1>5, <3>2 DEF CallInv, CallTypes
  <2>2. /\ hpc'[c] = "returned" /\ body'[c][1].msg
        /\ \A d \in HttpCalls \ {c} : hpc'[d] = hpc[d] /\ body'[d] = body[d]
    BY <1>5 DEF CallInv, CallTypes
  <2>3. Unserved(c)' /\ Returned(c)'
    BY <1>1, <1>2, <2>2 DEF Unserved, Returned
  <2> QED  BY <1>1, <1>5, <2>1, <2>2, <2>3, OneCall
<1>6. CASE /\ hpc' = [hpc EXCEPT ![c] = "running"] /\ UNCHANGED <<status, body>>
           /\ runner' = [runner EXCEPT ![c] = get(services, request[c].path).rcvr]
           /\ callError(services, [method |-> request[c].path, params |-> request[c].params]) = "none"
  <2> DEFINE g == get(services, request[c].path)
  <2>1. g.error = "none"
    BY <1>6 DEF callError
  <2>2. g.rcvr = services[request[c].path[1]].rcvr /\ request[c].path[1] \in DOMAIN services
    BY <2>1 DEF get
  <2>3. g.rcvr \in Registrars /\ regResult[g.rcvr] = "ok"
    BY <2>2 DEF RegInv, ServedRegistered
  <2> HIDE DEF g
  <2>4. runner' = [runner EXCEPT ![c] = g.rcvr]
    BY <1>6 DEF g
  <2>5. CallTypes'
    BY <1>1, <1>6, <2>3, <2>4 DEF CallInv, CallTypes
  <2>6. /\ hpc'[c] = "running" /\ runner'[c] = g.rcvr
        /\ \A d \in HttpCalls \ {c} : hpc'[d] = hpc[d] /\ runner'[d] = runner[d]
    BY <1>6, <2>4 DEF CallInv, CallTypes
  <2>7. Served(c)' /\ Returned(c)'
    BY <1>1, <1>2, <1>6, <2>3, <2>6 DEF Served, Returned
  <2> QED  BY <1>1, <1>6, <2>5, <2>6, <2>7, OneCall
<1> QED  BY <1>3, <1>4, <1>5, <1>6

LEMMA DoneKeeps ==
  ASSUME CallInv, NEW c \in HttpCalls, Done(c)
  PROVE  CallInv'
<1>1. PICK a \in Answers :
        /\ called' = [called EXCEPT ![c] = Append(@, a)]
        /\ body' = IF a.fits
                     THEN [body EXCEPT ![c] = Append(@, [val |-> a.val, msg |-> a.err /\ a.text])]
                     ELSE body
  BY DEF Done
<1>2. hpc[c] = "running" /\ UNCHANGED <<regResult, hpc, runner, status, cpc, result>>
  BY DEF Done
<1> DEFINE r == [val |-> a.val, msg |-> a.err /\ a.text]
<1>3. r \in [val : Results, msg : BOOLEAN]
  BY RpcHttpAssumption DEF Results
<1>4. r.val = a.val /\ (r.msg <=> a.err /\ a.text)
  BY RpcHttpAssumption
<1>5. body' = IF a.fits THEN [body EXCEPT ![c] = Append(@, r)] ELSE body
  BY <1>1
<1> HIDE DEF r
<1>6. CallTypes'
  <2>1. /\ Append(called[c], a) \in Seq(Answers)
        /\ Append(body[c], r) \in Seq([val : Results, msg : BOOLEAN])
    BY <1>3, AppendProperties DEF CallInv, CallTypes
  <2>2. called' \in [HttpCalls -> Seq(Answers)]
    BY <1>1, <2>1 DEF CallInv, CallTypes
  <2>3. body' \in [HttpCalls -> Seq([val : Results, msg : BOOLEAN])]
    BY <1>5, <2>1 DEF CallInv, CallTypes
  <2> QED  BY <1>2, <2>2, <2>3 DEF CallInv, CallTypes
<1>7. /\ called'[c] = Append(called[c], a)
      /\ body'[c] = IF a.fits THEN Append(body[c], r) ELSE body[c]
      /\ \A d \in HttpCalls \ {c} : called'[d] = called[d] /\ body'[d] = body[d]
  BY <1>1, <1>5 DEF CallInv, CallTypes
<1>8. Served(c) /\ ~result[c].ok
  BY <1>2 DEF CallInv, Unserved, Returned
<1>9. Served(c)'
  <2>1. PICK n \in Nat : n = Len(called[c])
    BY DEF CallInv, CallTypes
  <2>2. PICK k \in Nat : k = Len(body[c])
    BY DEF CallInv, CallTypes
  <2>3. /\ Len(called'[c]) = n + 1 /\ called'[c][n + 1] = a
        /\ \A i \in 1 .. n : called'[c][i] = called[c][i]
    BY <1>7, <2>1, AppendProperties DEF CallInv, CallTypes
  <2>4. a.fits => /\ Len(body'[c]) = k + 1 /\ body'[c][k + 1] = r
    BY <1>3, <1>7, <2>2, AppendProperties DEF CallInv, CallTypes
  <2>5. ~a.fits => body'[c] = body[c]
    BY <1>7
  <2>6. /\ k = 0 => \A i \in 1 .. n : ~called[c][i].fits
        /\ k = 1 => \E i \in 1 .. n :
                      /\ \A j \in 1 .. n : called[c][j].fits <=> j = i
                      /\ body[c][1].val = called[c][i].val
                      /\ body[c][1].msg <=> called[c][i].err /\ called[c][i].text
    BY <1>8, <2>1, <2>2 DEF Served
  <2>7. Len(body'[c]) = 0 => \A i \in 1 .. (n + 1) : ~called'[c][i].fits
    BY <2>2, <2>3, <2>4, <2>5, <2>6
  <2>8. ASSUME Len(body'[c]) = 1
        PROVE  \E i \in 1 .. (n + 1) :
                 /\ \A j \in 1 .. (n + 1) : called'[c][j].fits <=> j = i
                 /\ body'[c][1].val = called'[c][i].val
                 /\ body'[c][1].msg <=> called'[c][i].err /\ called'[c][i].text
    <3>1. CASE a.fits
      <4>1. k = 0 /\ body'[c][1] = r
        BY <2>4, <2>8, <3>1
      <4>2. ASSUME NEW j \in 1 .. (n + 1) PROVE called'[c][j].fits <=> j = n + 1
        <5>1. CASE j = n + 1
          BY <2>3, <3>1, <5>1
        <5>2. CASE j # n + 1
          <6>1. j \in 1 .. n
            BY <5>2
          <6> QED  BY <2>3, <2>6, <4>1, <5>2, <6>1
        <5> QED  BY <5>1, <5>2
      <4>3. n + 1 \in 1 .. (n + 1)
        OBVIOUS
      <4> QED  BY <1>4, <2>3, <4>1, <4>2, <4>3
    <3>2. CASE ~a.fits
      <4>1. PICK i \in 1 .. n : /\ \A j \in 1 .. n : called[c][j].fits <=> j = i
                                /\ body[c][1].val = called[c][i].val
                                /\ body[c][1].msg <=> called[c][i].err /\ called[c][i].text
        BY <2>2, <2>5, <2>6, <2>8, <3>2
      <4>2. ASSUME NEW j \in 1 .. (n + 1) PROVE called'[c][j].fits <=> j = i
        <5>1. CASE j = n + 1
          BY <2>3, <3>2, <5>1
        <5>2. CASE j # n + 1
          <6>1. j \in 1 .. n
            BY <5>2
          <6>2. called'[c][j] = called[c][j]
            BY <2>3, <6>1
          <6>3. called[c][j].fits <=> j = i
            BY <4>1, <6>1
          <6> QED  BY <6>2, <6>3, Zenon
        <5> QED  BY <5>1, <5>2
      <4>3. called'[c][i] = called[c][i] /\ body'[c] = body[c] /\ i \in 1 .. (n + 1)
        BY <2>3, <2>5, <3>2
      <4>4. /\ body'[c][1].val = called'[c][i].val
            /\ body'[c][1].msg <=> called'[c][i].err /\ called'[c][i].text
        BY <4>1, <4>3, Zenon
      <4> QED  BY <4>2, <4>3, <4>4, Zenon
    <3> QED  BY <3>1, <3>2
  <2>9. hpc'[c] = "running" /\ runner'[c] = runner[c] /\ regResult' = regResult
    BY <1>2
  <2> QED  BY <1>8, <2>3, <2>7, <2>8, <2>9 DEF Served
<1>10. Returned(c)'
  BY <1>2, <1>8 DEF Returned
<1> QED  BY <1>2, <1>6, <1>7, <1>9, <1>10, OneCall

LEMMA HandlerReturnsKeeps ==
  ASSUME CallInv, NEW c \in HttpCalls, HandlerReturns(c)
  PROVE  CallInv'
<1>1. /\ hpc[c] = "running" /\ hpc' = [hpc EXCEPT ![c] = "returned"]
      /\ status' = [status EXCEPT ![c] = 200]
      /\ UNCHANGED <<regResult, runner, called, body, cpc, result>>
  BY DEF HandlerReturns
<1>2. CallTypes'
  BY <1>1 DEF CallInv, CallTypes
<1>3. hpc'[c] = "returned" /\ \A d \in HttpCalls \ {c} : hpc'[d] = hpc[d]
  BY <1>1 DEF CallInv, CallTypes
<1>4. Served(c) /\ ~result[c].ok
  BY <1>1 DEF CallInv, Unserved, Returned
<1>5. Served(c)' /\ Returned(c)'
  BY <1>1, <1>3, <1>4 DEF Served, Returned
<1> QED  BY <1>1, <1>2, <1>3, <1>5, OneCall

(* A registration takes nothing back.                                      *)
LEMMA RegisterKeeps ==
  ASSUME CallInv, RegInv, NEW g \in Registrars, register(g)
  PROVE  CallInv'
<1>1. UNCHANGED callVars /\ regResult[g] = "none"
  BY DEF register
<1>2. \A h \in Registrars : regResult[h] = "ok" => regResult'[h] = "ok"
  BY <1>1 DEF register, RegInv, RegTypes
<1>3. CallTypes'
  BY <1>1 DEF CallInv, CallTypes, callVars
<1>4. \A c \in HttpCalls : /\ Unserved(c) => Unserved(c)'
                           /\ Served(c) => Served(c)'
                           /\ Returned(c) => Returned(c)'
  BY <1>1, <1>2 DEF Unserved, Served, Returned, callVars
<1> QED  BY <1>3, <1>4 DEF CallInv

LEMMA CallInvStep == CallInv /\ RegInv /\ [HttpNext]_httpVars => CallInv'
<1> SUFFICES ASSUME CallInv, RegInv, [HttpNext]_httpVars PROVE CallInv'
  OBVIOUS
<1>1. CASE UNCHANGED httpVars
  <2>1. CallTypes'
    BY <1>1 DEF httpVars, CallInv, CallTypes
  <2>2. \A c \in HttpCalls : /\ Unserved(c) => Unserved(c)'
                             /\ Served(c) => Served(c)'
                             /\ Returned(c) => Returned(c)'
    BY <1>1 DEF httpVars, Unserved, Served, Returned
  <2> QED  BY <2>1, <2>2 DEF CallInv
<1> QED
  BY <1>1, RegisterKeeps, CallKeeps, HandlerKeeps, DoneKeeps, HandlerReturnsKeeps,
     CallReturnsKeeps
  DEF HttpNext

-----------------------------------------------------------------------------
(* RpcHttp: the theorems                                                   *)

(* RegisterService returned nil to a goroutine exactly when its receiver   *)
(* serves the name (rpc_map.go:101-109).                                   *)
THEOREM WinnerIsServed == HttpSpec => []WinnerServes
<1>1. RegInv => WinnerServes
  BY DEF RegInv
<1> QED  BY RegInit, RegStep, <1>1, PTL DEF HttpSpec

(* Call returns nil only when the method called done exactly once before   *)
(* it returned, and gives its value (rpc_http_client.go:31-63,             *)
(* rpc_abstract.go:145-161).                                               *)
THEOREM NilWasDone == HttpSpec => []NilMeansDone
<1>1. CallInv => NilMeansDone
  <2> SUFFICES ASSUME CallInv, NEW c \in HttpCalls, cpc[c] = "done", result[c].ok
               PROVE  /\ \E i \in 1 .. Len(called[c]) :
                           /\ \A j \in 1 .. Len(called[c]) : called[c][j].fits <=> j = i
                           /\ called[c][i].err => ~called[c][i].text
                           /\ result[c].val = called[c][i].val
                      /\ regResult[runner[c]] = "ok"
    BY DEF NilMeansDone
  <2>1. Returned(c) /\ Len(body[c]) = 1 /\ ~body[c][1].msg /\ result[c].val = body[c][1].val
    BY DEF CallInv, Returned
  <2>2. body[c] # <<>>
    BY <2>1
  <2>3. Served(c)
    BY <2>1, <2>2 DEF CallInv, Unserved
  <2>4. PICK i \in 1 .. Len(called[c]) :
          /\ \A j \in 1 .. Len(called[c]) : called[c][j].fits <=> j = i
          /\ body[c][1].val = called[c][i].val
          /\ body[c][1].msg <=> called[c][i].err /\ called[c][i].text
    BY <2>1, <2>3 DEF Served
  <2>5. called[c][i].err => ~called[c][i].text
    BY <2>1, <2>4
  <2> QED  BY <2>1, <2>3, <2>4, <2>5 DEF Served
<1> QED  BY RegInit, RegStep, CallInvInit, CallInvStep, <1>1, PTL DEF HttpSpec

-----------------------------------------------------------------------------
(* Sets of naturals                                                        *)

(* A non-empty set of naturals has a least one.                            *)
LEMMA LeastNat ==
  ASSUME NEW T \in SUBSET Nat, T # {}
  PROVE  \E x \in T : \A y \in T : x <= y
<1> DEFINE R == {p \in Nat \X Nat : p[1] < p[2]}
<1>1. IsWellFoundedOn(R, Nat)
  BY NatLessThanWellFounded DEF OpToRel
<1>2. PICK x \in T : \A y \in T : ~(<<y, x>> \in R)
  <2> HIDE DEF R
  <2> QED  BY <1>1, WFMin
<1>3. \A y \in T : x <= y
  <2> TAKE y \in T
  <2>1. y \in Nat /\ x \in Nat
    OBVIOUS
  <2>2. ~(y < x)
    BY <1>2, <2>1
  <2> QED  BY <2>1, <2>2
<1> QED  BY <1>3

(* A non-empty set of positions has a last one.                            *)
LEMMA LastExists ==
  ASSUME NEW n \in Nat, NEW I \in SUBSET (1 .. n), I # {}
  PROVE  \E i \in I : \A j \in I : j <= i
<1> DEFINE T == {n - i : i \in I}
<1>1. T \in SUBSET Nat /\ T # {}
  <2>1. T \subseteq Nat
    OBVIOUS
  <2>2. PICK k \in I : TRUE
    OBVIOUS
  <2>3. n - k \in T
    OBVIOUS
  <2> QED  BY <2>1, <2>3
<1>2. PICK x \in T : \A y \in T : x <= y
  <2> HIDE DEF T
  <2> QED  BY <1>1, LeastNat
<1>3. PICK i \in I : x = n - i
  BY <1>2
<1>4. \A j \in I : n - i <= n - j
  BY <1>2, <1>3
<1> QED  BY <1>4

-----------------------------------------------------------------------------
(* ToNumber: powers of two                                                 *)

(* 2 ^ n, as the number of subsets of 1 .. n.                              *)
LEMMA TwoSubsets ==
  ASSUME NEW n \in Nat
  PROVE  IsFiniteSet(SUBSET (1 .. n)) /\ Cardinality(SUBSET (1 .. n)) = 2 ^ n
<1>1. IsFiniteSet(1 .. n) /\ Cardinality(1 .. n) = n
  <2>1. IsFiniteSet(1 .. n) /\ Cardinality(1 .. n) = IF 1 > n THEN 0 ELSE n - 1 + 1
    BY FS_Interval
  <2> QED  BY <2>1
<1> QED  BY <1>1, FS_SUBSET

LEMMA TwoNat ==
  ASSUME NEW n \in Nat
  PROVE  2 ^ n \in Nat
BY TwoSubsets, FS_CardinalityType

(* Half of the subsets of 1 .. n + 1 hold n + 1.                           *)
LEMMA TwoStep ==
  ASSUME NEW n \in Nat
  PROVE  2 ^ (n + 1) = 2 * 2 ^ n
<1> DEFINE A == SUBSET (1 .. n)
           B == {T \cup {n + 1} : T \in A}
           f == [T \in A |-> T \cup {n + 1}]
<1>1. IsFiniteSet(A) /\ Cardinality(A) = 2 ^ n
  BY TwoSubsets
<1>2. Cardinality(SUBSET (1 .. n + 1)) = 2 ^ (n + 1)
  BY TwoSubsets, n + 1 \in Nat
<1>3. SUBSET (1 .. n + 1) = A \cup B
  <2>1. ASSUME NEW S \in SUBSET (1 .. n + 1) PROVE S \in A \cup B
    <3>1. S \ {n + 1} \in A
      OBVIOUS
    <3>2. CASE n + 1 \in S
      <4>1. S = (S \ {n + 1}) \cup {n + 1}
        BY <3>2
      <4> QED  BY <3>1, <4>1
    <3>3. CASE n + 1 \notin S
      <4>1. S = S \ {n + 1}
        BY <3>3
      <4> QED  BY <3>1, <4>1
    <3> QED  BY <3>2, <3>3
  <2>2. ASSUME NEW S \in A \cup B PROVE S \in SUBSET (1 .. n + 1)
    OBVIOUS
  <2> QED  BY <2>1, <2>2
<1>4. A \cap B = {}
  OBVIOUS
<1>5. f \in Bijection(A, B)
  <2>1. f \in [A -> B]
    OBVIOUS
  <2>2. ASSUME NEW S \in A, NEW T \in A, f[S] = f[T] PROVE S = T
    <3>1. S \cup {n + 1} = T \cup {n + 1}
      BY <2>2
    <3>2. n + 1 \notin S /\ n + 1 \notin T
      OBVIOUS
    <3> QED  BY <3>1, <3>2
  <2>3. \A U \in B : \E T \in A : f[T] = U
    OBVIOUS
  <2> QED  BY <2>1, <2>2, <2>3 DEF Bijection, Injection, Surjection, IsInjective
<1> HIDE DEF A, B, f
<1>6. IsFiniteSet(B) /\ Cardinality(B) = Cardinality(A)
  BY <1>1, <1>5, FS_Bijection DEF ExistsBijection
<1>7. Cardinality(A \cup B) = Cardinality(A) + Cardinality(B) - Cardinality({})
  BY <1>1, <1>4, <1>6, FS_Union
<1>8. Cardinality({}) = 0
  BY FS_EmptySet
<1>9. 2 ^ n \in Nat
  BY TwoNat
<1>10. 2 ^ (n + 1) = Cardinality(A \cup B)
  BY <1>2, <1>3
<1>11. Cardinality(A \cup B) = 2 * 2 ^ n
  BY <1>1, <1>6, <1>7, <1>8, <1>9
<1> QED  BY <1>10, <1>11

(* Induction: a set of naturals that holds 0 and every successor of its    *)
(* members holds them all.                                                 *)
LEMMA AllNat ==
  ASSUME NEW P \in SUBSET Nat, 0 \in P, \A n \in P : n + 1 \in P
  PROVE  P = Nat
<1> SUFFICES ASSUME Nat \ P # {} PROVE FALSE
  OBVIOUS
<1>1. PICK x \in Nat \ P : \A y \in Nat \ P : x <= y
  <2>1. Nat \ P \in SUBSET Nat
    OBVIOUS
  <2> QED  BY <2>1, LeastNat
<1>2. x - 1 \in Nat /\ x - 1 \in P
  BY <1>1
<1>3. x - 1 + 1 \in P
  BY <1>2
<1> QED  BY <1>1, <1>2, <1>3

LEMMA TwoZero == 2 ^ 0 = 1
OBVIOUS

LEMMA TwoAbove ==
  ASSUME NEW n \in Nat
  PROVE  n < 2 ^ n
<1> DEFINE P == {k \in Nat : k < 2 ^ k}
<1>1. 0 \in P
  BY TwoZero
<1>2. \A k \in P : k + 1 \in P
  <2> TAKE k \in P
  <2>1. 2 ^ k \in Nat /\ 2 ^ (k + 1) = 2 * 2 ^ k
    BY TwoNat, TwoStep
  <2> QED  BY <2>1
<1> HIDE DEF P
<1>3. P = Nat
  <2>1. P \in SUBSET Nat
    BY DEF P
  <2> QED  BY <1>1, <1>2, <2>1, AllNat
<1> QED  BY <1>3 DEF P

LEMMA TwoPlus ==
  ASSUME NEW m \in Nat, NEW n \in Nat
  PROVE  2 ^ (m + n) = 2 ^ m * 2 ^ n
<1> DEFINE P == {k \in Nat : 2 ^ (m + k) = 2 ^ m * 2 ^ k}
<1>0. 2 ^ m \in Nat
  BY TwoNat
<1>1. 0 \in P
  BY <1>0, TwoZero
<1>2. \A k \in P : k + 1 \in P
  <2> TAKE k \in P
  <2>1. 2 ^ (m + k) = 2 ^ m * 2 ^ k /\ 2 ^ k \in Nat
    BY TwoNat
  <2>2. 2 ^ (k + 1) = 2 * 2 ^ k
    BY TwoStep
  <2>3. 2 ^ ((m + k) + 1) = 2 * 2 ^ (m + k)
    BY TwoStep, m + k \in Nat
  <2>4. 2 ^ (m + (k + 1)) = 2 ^ ((m + k) + 1)
    <3>1. m + (k + 1) = (m + k) + 1
      OBVIOUS
    <3> QED  BY <3>1
  <2>5. 2 ^ (m + (k + 1)) = 2 ^ m * 2 ^ (k + 1)
    BY <1>0, <2>1, <2>2, <2>3, <2>4
  <2> QED  BY <2>5
<1> HIDE DEF P
<1>3. P = Nat
  <2>1. P \in SUBSET Nat
    BY DEF P
  <2> QED  BY <1>1, <1>2, <2>1, AllNat
<1> QED  BY <1>3 DEF P

(* Powers of two grow, each a multiple of the ones before it.              *)
LEMMA TwoGrows ==
  ASSUME NEW m \in Nat, NEW n \in Nat, m <= n
  PROVE  2 ^ m <= 2 ^ n /\ 2 ^ n = 2 ^ m * 2 ^ (n - m) /\ 0 < 2 ^ m
<1>1. n - m \in Nat /\ n = m + (n - m)
  OBVIOUS
<1>2. 2 ^ n = 2 ^ m * 2 ^ (n - m)
  BY <1>1, TwoPlus
<1>3. 2 ^ m \in Nat /\ 2 ^ n \in Nat /\ 2 ^ (n - m) \in Nat
  BY <1>1, TwoNat
<1>4. 2 ^ (n - m) > 0 /\ 2 ^ m > 0
  BY <1>1, <1>3, TwoAbove
<1> QED  BY <1>2, <1>3, <1>4

-----------------------------------------------------------------------------
(* ToNumber: rounding                                                      *)

(* Rounding finds its exponent: Float(v) is one of the two multiples of    *)
(* 2 ^ e next to v, of 53 significant bits, and the nearer one.            *)
LEMMA ExponentExists ==
  ASSUME NEW bits \in Nat, NEW a \in Nat
  PROVE  \E e \in 0 .. a : a < 2 ^ (bits + e) /\ (e = 0 \/ a >= 2 ^ (bits + e - 1))
<1> DEFINE E == {e \in Nat : a < 2 ^ (bits + e)}
<1>1. a \in E
  <2>1. a < 2 ^ a /\ 2 ^ a \in Nat /\ 2 ^ (bits + a) \in Nat
    BY TwoAbove, TwoNat, bits + a \in Nat
  <2>2. 2 ^ a <= 2 ^ (bits + a)
    BY TwoGrows, bits + a \in Nat, a <= bits + a
  <2> QED  BY <2>1, <2>2
<1>2. PICK e \in E : \A d \in E : e <= d
  <2> HIDE DEF E
  <2>1. E \in SUBSET Nat
    BY DEF E
  <2> QED  BY <1>1, <2>1, LeastNat
<1>3. e \in 0 .. a /\ a < 2 ^ (bits + e)
  BY <1>1, <1>2
<1>4. ASSUME e # 0 PROVE a >= 2 ^ (bits + e - 1)
  <2>1. e - 1 \in Nat /\ e - 1 \notin E
    BY <1>2, <1>4
  <2>2. bits + (e - 1) = bits + e - 1 /\ bits + e - 1 \in Nat
    BY <2>1
  <2>3. ~(a < 2 ^ (bits + e - 1)) /\ 2 ^ (bits + e - 1) \in Nat
    BY <2>1, <2>2, TwoNat
  <2> QED  BY <2>3
<1> QED  BY <1>3, <1>4

LEMMA FloatIs ==
  ASSUME NEW v \in Int
  PROVE  \E e \in Nat, q \in Nat, r \in Nat, p \in Nat :
           /\ Magnitude(v) < 2 ^ (Mant + e)
           /\ e = 0 \/ Magnitude(v) >= 2 ^ (Mant + e - 1)
           /\ Magnitude(v) = 2 ^ e * q + r /\ r < 2 ^ e
           /\ p = q \/ p = q + 1
           /\ 2 * r > 2 ^ e => p = q + 1
           /\ 2 * r < 2 ^ e => p = q
           /\ Float(v) = IF v < 0 THEN -(2 ^ e * p) ELSE 2 ^ e * p
<1> DEFINE a == Magnitude(v)
           e == CHOOSE e \in 0 .. a : a < 2 ^ (Mant + e) /\ (e = 0 \/ a >= 2 ^ (Mant + e - 1))
           u == 2 ^ e
           q == a \div u
           r == a % u
           p == IF 2 * r > u \/ (2 * r = u /\ q % 2 = 1) THEN q + 1 ELSE q
<1>1. a \in Nat /\ Mant \in Nat
  BY FloatsAssumption DEF Magnitude
<1>2. e \in Nat /\ a < 2 ^ (Mant + e) /\ (e = 0 \/ a >= 2 ^ (Mant + e - 1))
  <2> HIDE DEF a
  <2>1. \E d \in 0 .. a : a < 2 ^ (Mant + d) /\ (d = 0 \/ a >= 2 ^ (Mant + d - 1))
    BY <1>1, ExponentExists
  <2>2. e \in 0 .. a /\ a < 2 ^ (Mant + e) /\ (e = 0 \/ a >= 2 ^ (Mant + e - 1))
    BY <2>1
  <2> QED  BY <1>1, <2>2
<1>3. Float(v) = IF v < 0 THEN -(u * p) ELSE u * p
  BY DEF Float, Rounded
<1> HIDE DEF e, a
<1>4. u \in Nat /\ u > 0
  BY <1>2, TwoNat, TwoAbove
<1> HIDE DEF u
<1>5. q \in Nat /\ r \in Nat /\ a = u * q + r /\ r < u
  BY <1>1, <1>4
<1> HIDE DEF q, r
<1>6. p \in Nat /\ (p = q \/ p = q + 1) /\ (2 * r > u => p = q + 1) /\ (2 * r < u => p = q)
  BY <1>4, <1>5
<1> HIDE DEF p
<1> QED  BY <1>2, <1>3, <1>5, <1>6 DEF a, u

(* Twice a whole number of fewer than 53 bits is a float of its own.       *)
LEMMA SmallFloat ==
  ASSUME NEW i \in Int, Magnitude(i) < 2 ^ Mant
  PROVE  Float(2 * i) = 2 * i
<1>1. PICK e \in Nat, q \in Nat, r \in Nat, p \in Nat :
        /\ Magnitude(2 * i) < 2 ^ (Mant + e)
        /\ e = 0 \/ Magnitude(2 * i) >= 2 ^ (Mant + e - 1)
        /\ Magnitude(2 * i) = 2 ^ e * q + r /\ r < 2 ^ e
        /\ p = q \/ p = q + 1
        /\ 2 * r > 2 ^ e => p = q + 1
        /\ 2 * r < 2 ^ e => p = q
        /\ Float(2 * i) = IF 2 * i < 0 THEN -(2 ^ e * p) ELSE 2 ^ e * p
  BY FloatIs, 2 * i \in Int
<1>2. Magnitude(2 * i) = 2 * Magnitude(i) /\ Magnitude(i) \in Nat
  BY DEF Magnitude
<1>3. Mant \in Nat /\ 2 ^ Mant \in Nat /\ 2 ^ (Mant + 1) = 2 * 2 ^ Mant
  BY FloatsAssumption, TwoNat, TwoStep
<1>4. e = 0 \/ e = 1
  <2> SUFFICES ASSUME e >= 2 PROVE FALSE
    OBVIOUS
  <2>1. Mant + e - 1 \in Nat /\ Mant + 1 \in Nat /\ Mant + 1 <= Mant + e - 1
    BY <1>3
  <2>2. 2 ^ (Mant + 1) <= 2 ^ (Mant + e - 1)
    BY <2>1, TwoGrows
  <2>3. Magnitude(2 * i) >= 2 ^ (Mant + e - 1) /\ 2 ^ (Mant + e - 1) \in Nat
    BY <1>1, <2>1, TwoNat
  <2> QED  BY <1>2, <1>3, <2>2, <2>3
<1>5. r = 0 /\ 2 ^ e * p = Magnitude(2 * i)
  <2>1. CASE e = 0
    <3>1. 2 ^ e = 1
      BY <2>1, TwoZero
    <3> QED  BY <1>1, <3>1
  <2>2. CASE e = 1
    <3>1. 2 ^ e = 2
      BY <2>2
    <3>2. 2 * Magnitude(i) = 2 * q + r /\ r < 2 /\ (2 * r < 2 => p = q)
      BY <1>1, <1>2, <3>1
    <3>3. r = 0 /\ p = q
      BY <1>2, <3>2
    <3> QED  BY <1>1, <1>2, <3>1, <3>3
  <2> QED  BY <1>4, <2>1, <2>2
<1> QED  BY <1>1, <1>5 DEF Magnitude

(* The whole numbers that a float of the exponent e + 1 lies between.      *)
LEMMA Neighbours ==
  ASSUME NEW z \in Exact, NEW e \in Nat, NEW q \in Nat, 2 ^ (Mant - 1) <= q
  PROVE  Magnitude(z) \in Nat /\ (Magnitude(z) <= 2 ^ e * q \/ 2 ^ e * q + 2 ^ e <= Magnitude(z))
<1>1. PICK k \in 0 .. Long : \E m \in 0 .. 2 ^ Mant : Magnitude(z) = m * 2 ^ k
  BY DEF Exact
<1>2. Mant \in Nat \ {0} /\ Long \in Nat /\ k \in Nat /\ Mant - 1 \in Nat
  BY FloatsAssumption
<1>3. /\ 2 ^ Mant \in Nat /\ 2 ^ k \in Nat /\ 2 ^ e \in Nat /\ 2 ^ (Mant - 1) \in Nat
      /\ 2 ^ Mant = 2 * 2 ^ (Mant - 1)
  <2>1. 2 ^ ((Mant - 1) + 1) = 2 * 2 ^ (Mant - 1) /\ (Mant - 1) + 1 = Mant
    BY <1>2, TwoStep
  <2> QED  BY <1>2, <2>1, TwoNat
<1>4. PICK m \in Nat : m <= 2 ^ Mant /\ Magnitude(z) = m * 2 ^ k
  BY <1>1, <1>3
<1>5. CASE k >= e
  <2>1. k - e \in Nat /\ 2 ^ k = 2 ^ e * 2 ^ (k - e) /\ 2 ^ (k - e) \in Nat
    BY <1>2, <1>5, TwoGrows, TwoNat
  <2>2. PICK c \in Nat : c = m * 2 ^ (k - e)
    BY <2>1
  <2>3. Magnitude(z) = 2 ^ e * c
    BY <1>3, <1>4, <2>1, <2>2
  <2>4. c <= q \/ q + 1 <= c
    OBVIOUS
  <2>5. c <= q => 2 ^ e * c <= 2 ^ e * q
    BY <1>3
  <2>6. q + 1 <= c => 2 ^ e * (q + 1) <= 2 ^ e * c
    BY <1>3
  <2>7. 2 ^ e * (q + 1) = 2 ^ e * q + 2 ^ e
    BY <1>3
  <2> QED  BY <1>3, <2>3, <2>4, <2>5, <2>6, <2>7
<1>6. CASE k < e
  <2>1. k + 1 \in Nat /\ k + 1 <= e /\ 2 ^ (k + 1) = 2 * 2 ^ k
    BY <1>2, <1>6, TwoStep
  <2>2. 2 ^ (k + 1) <= 2 ^ e
    BY <2>1, TwoGrows
  <2>3. m * 2 ^ k <= 2 * 2 ^ (Mant - 1) * 2 ^ k
    BY <1>3, <1>4
  <2>4. 2 ^ (Mant - 1) * (2 * 2 ^ k) <= 2 ^ (Mant - 1) * 2 ^ e
    BY <1>3, <2>1, <2>2
  <2>5. 2 ^ (Mant - 1) * 2 ^ e <= q * 2 ^ e
    BY <1>3
  <2>6. 2 * 2 ^ (Mant - 1) * 2 ^ k = 2 ^ (Mant - 1) * (2 * 2 ^ k) /\ q * 2 ^ e = 2 ^ e * q
    BY <1>3
  <2> HIDE DEF Magnitude
  <2>7. Magnitude(z) <= 2 ^ e * q /\ Magnitude(z) \in Nat
    BY <1>3, <1>4, <2>3, <2>4, <2>5, <2>6
  <2> QED  BY <2>7
<1> QED  BY <1>2, <1>5, <1>6

(* The float of twice a larger number is twice the nearest one of 53 bits. *)
LEMMA LargeFloat ==
  ASSUME NEW i \in Int, 2 ^ Mant <= Magnitude(i), Magnitude(i) < 2 ^ Long
  PROVE  \E y \in Int : Float(2 * i) = 2 * y /\ Nearest(y, i)
<1>1. PICK e \in Nat, q \in Nat, r \in Nat, p \in Nat :
        /\ Magnitude(2 * i) < 2 ^ (Mant + e)
        /\ e = 0 \/ Magnitude(2 * i) >= 2 ^ (Mant + e - 1)
        /\ Magnitude(2 * i) = 2 ^ e * q + r /\ r < 2 ^ e
        /\ p = q \/ p = q + 1
        /\ 2 * r > 2 ^ e => p = q + 1
        /\ 2 * r < 2 ^ e => p = q
        /\ Float(2 * i) = IF 2 * i < 0 THEN -(2 ^ e * p) ELSE 2 ^ e * p
  BY FloatIs, 2 * i \in Int
<1>2. Magnitude(2 * i) = 2 * Magnitude(i) /\ Magnitude(i) \in Nat
  BY DEF Magnitude
<1>3. /\ Mant \in Nat \ {0} /\ Long \in Nat /\ Mant - 1 \in Nat
      /\ 2 ^ Mant \in Nat /\ 2 ^ Mant > 0 /\ 2 ^ Long \in Nat
  BY FloatsAssumption, TwoNat, TwoAbove
<1>4. e >= 1
  <2> SUFFICES ASSUME e = 0 PROVE FALSE
    OBVIOUS
  <2>1. Mant + e = Mant
    BY <1>3
  <2>2. Magnitude(2 * i) < 2 ^ Mant
    BY <1>1, <2>1
  <2> QED  BY <1>2, <1>3, <2>2
(* In whole numbers: the multiple of 2 ^ d below, and what is above it.    *)
<1>5. PICK d \in Nat : e = d + 1
  BY <1>4, e - 1 \in Nat
<1>6. 2 ^ e = 2 * 2 ^ d /\ 2 ^ d \in Nat /\ 2 ^ d > 0
  BY <1>5, TwoStep, TwoNat, TwoAbove
<1>7. PICK s \in Nat : /\ r = 2 * s /\ Magnitude(i) = 2 ^ d * q + s /\ s < 2 ^ d
                       /\ 2 * s > 2 ^ d => p = q + 1
                       /\ 2 * s < 2 ^ d => p = q
  <2>1. 2 ^ e * q = 2 * (2 ^ d * q) /\ 2 ^ d * q \in Nat
    BY <1>6
  <2>2. r = 2 * (Magnitude(i) - 2 ^ d * q)
    BY <1>1, <1>2, <2>1
  <2>3. PICK s \in Int : s = Magnitude(i) - 2 ^ d * q
    BY <1>2, <2>1
  <2>4. r = 2 * s /\ Magnitude(i) = 2 ^ d * q + s
    BY <1>2, <2>1, <2>2, <2>3
  <2>5. s \in Nat /\ s < 2 ^ d
    BY <1>1, <1>6, <2>4
  <2>6. (2 * s > 2 ^ d => p = q + 1) /\ (2 * s < 2 ^ d => p = q)
    BY <1>1, <1>6, <2>4
  <2> QED  BY <2>4, <2>5, <2>6
<1>8. 2 ^ d * p \in Nat /\ 2 ^ e * p = 2 * (2 ^ d * p)
  BY <1>6
<1>9. PICK y \in Int : y = IF i < 0 THEN -(2 ^ d * p) ELSE 2 ^ d * p
  BY <1>8
<1>10. Float(2 * i) = 2 * y
  BY <1>1, <1>8, <1>9
(* The exponent: 2 ^ (Mant + d) <= 2 * Magnitude(i) < 2 ^ (Long + 1).      *)
<1>11. /\ Mant + e - 1 = Mant + d /\ Mant + e = (Mant + d) + 1 /\ Mant + d \in Nat
       /\ 2 ^ (Mant + d) \in Nat /\ 2 ^ (Mant + d) = 2 ^ Mant * 2 ^ d
  <2>1. Mant + e - 1 = Mant + d /\ Mant + e = (Mant + d) + 1 /\ Mant + d \in Nat
    BY <1>3, <1>5
  <2>2. 2 ^ (Mant + d) \in Nat
    BY <2>1, TwoNat
  <2>3. 2 ^ (Mant + d) = 2 ^ Mant * 2 ^ d
    BY <1>3, TwoPlus
  <2> QED  BY <2>1, <2>2, <2>3
<1>12. 2 ^ (Mant + d) <= 2 * Magnitude(i) /\ 2 * Magnitude(i) < 2 * 2 ^ (Mant + d)
  <2>1. 2 ^ ((Mant + d) + 1) = 2 * 2 ^ (Mant + d)
    BY <1>11, TwoStep
  <2>2. Magnitude(2 * i) < 2 ^ ((Mant + d) + 1)
    BY <1>1, <1>11
  <2>3. Magnitude(2 * i) >= 2 ^ (Mant + d)
    <3>1. Magnitude(2 * i) >= 2 ^ (Mant + e - 1)
      BY <1>1, <1>4
    <3> QED  BY <1>11, <3>1
  <2> QED  BY <1>2, <2>1, <2>2, <2>3
<1>13. Mant + d <= Long
  <2> SUFFICES ASSUME Long + 1 <= Mant + d PROVE FALSE
    BY <1>3
  <2>1. 2 ^ (Long + 1) = 2 * 2 ^ Long /\ 2 ^ (Long + 1) <= 2 ^ (Mant + d)
    BY <1>3, <1>11, TwoGrows, TwoStep, Long + 1 \in Nat
  <2> QED  BY <1>2, <1>3, <1>11, <1>12, <2>1
<1>14. 2 ^ (Mant - 1) <= q /\ q < 2 ^ Mant
  <2>1. 2 ^ Mant = 2 * 2 ^ (Mant - 1) /\ 2 ^ (Mant - 1) \in Nat
    <3>1. 2 ^ ((Mant - 1) + 1) = 2 * 2 ^ (Mant - 1) /\ (Mant - 1) + 1 = Mant
      BY <1>3, TwoStep
    <3> QED  BY <1>3, <3>1, TwoNat
  <2>2. 2 ^ Mant * 2 ^ d <= 2 * (2 ^ d * q + s)
    BY <1>7, <1>11, <1>12
  <2>3. 2 * (2 ^ d * q + s) < 2 * (2 ^ Mant * 2 ^ d)
    BY <1>7, <1>11, <1>12
  <2>4. q < 2 ^ Mant
    <3> SUFFICES ASSUME 2 ^ Mant <= q PROVE FALSE
      BY <1>3
    <3>1. 2 ^ d * 2 ^ Mant <= 2 ^ d * q
      BY <1>3, <1>6
    <3> QED  BY <1>3, <1>6, <2>3, <3>1
  <2>5. 2 ^ (Mant - 1) <= q
    <3> SUFFICES ASSUME q + 1 <= 2 ^ (Mant - 1) PROVE FALSE
      BY <2>1
    <3>1. 2 ^ d * (q + 1) <= 2 ^ d * 2 ^ (Mant - 1)
      BY <1>6, <2>1
    <3>2. 2 ^ Mant * 2 ^ d = 2 * (2 ^ d * 2 ^ (Mant - 1))
      BY <1>6, <2>1
    <3>3. 2 ^ d * (q + 1) = 2 ^ d * q + 2 ^ d
      BY <1>6
    <3> QED  BY <1>6, <1>7, <2>1, <2>2, <3>1, <3>2, <3>3
  <2> QED  BY <2>4, <2>5
<1>15. y \in Exact
  <2>1. Magnitude(y) = p * 2 ^ d
    BY <1>6, <1>8, <1>9 DEF Magnitude
  <2>2. p \in 0 .. 2 ^ Mant
    BY <1>1, <1>3, <1>14
  <2>3. d \in 0 .. Long
    BY <1>3, <1>13
  <2>4. p * 2 ^ d <= 2 ^ Mant * 2 ^ d
    BY <1>3, <1>6, <2>2
  <2>5. 2 ^ (Mant + d) <= 2 ^ Long
    BY <1>3, <1>11, <1>13, TwoGrows
  <2>6. Magnitude(y) <= 2 ^ Long
    BY <1>3, <1>6, <1>11, <2>1, <2>4, <2>5
  <2>7. y \in -(2 ^ Long) .. 2 ^ Long
    BY <1>3, <2>6 DEF Magnitude
  <2> QED  BY <2>1, <2>2, <2>3, <2>7 DEF Exact
<1>16. ASSUME NEW z \in Exact PROVE Magnitude(y - i) <= Magnitude(z - i)
  <2>1. Magnitude(z) \in Nat /\ (Magnitude(z) <= 2 ^ d * q \/ 2 ^ d * q + 2 ^ d <= Magnitude(z))
    BY <1>14, Neighbours
  <2>2. z \in Int
    BY <1>3 DEF Exact
  <2>3. PICK b \in Nat, u \in Nat : b = 2 ^ d * q /\ u = 2 ^ d
    BY <1>6
  <2>4. 2 ^ d * p = b \/ 2 ^ d * p = b + u
    BY <1>1, <1>6, <2>3
  <2>5. (2 * s > u => 2 ^ d * p = b + u) /\ (2 * s < u => 2 ^ d * p = b)
    <3>1. 2 ^ d * (q + 1) = b + u
      BY <1>6, <2>3
    <3> QED  BY <1>7, <2>3, <3>1
  <2>6. PICK w \in Nat : w = 2 ^ d * p
    BY <1>8
  <2>7. /\ Magnitude(i) = b + s /\ s < u
        /\ Magnitude(z) <= b \/ b + u <= Magnitude(z)
        /\ y = IF i < 0 THEN -w ELSE w
        /\ w = b \/ w = b + u
        /\ 2 * s > u => w = b + u
        /\ 2 * s < u => w = b
    BY <1>7, <1>9, <2>1, <2>3, <2>4, <2>5, <2>6
  <2> QED  BY <2>2, <2>7 DEF Magnitude
<1> QED  BY <1>10, <1>15, <1>16 DEF Nearest

-----------------------------------------------------------------------------
(* ToNumber: the conversions                                               *)

(* What the types hold: fewer than 64 bits, and int32 and uint32 no more   *)
(* than a float does.                                                      *)
LEMMA TypeBits ==
  ASSUME NEW t \in IntTypes, NEW i \in Ints(t)
  PROVE  /\ i \in Int /\ Magnitude(i) < 2 ^ Long
         /\ t \in {"int32", "uint32"} => Magnitude(i) < 2 ^ Mant
<1>1. /\ Mant \in Nat /\ Short \in Nat /\ Long \in Nat /\ Short <= Mant /\ Mant < Long
      /\ Short - 1 \in Nat /\ Long - 1 \in Nat
  BY FloatsAssumption
<1>2. /\ 2 ^ Mant \in Nat /\ 2 ^ Short \in Nat /\ 2 ^ Long \in Nat
      /\ 2 ^ Short <= 2 ^ Mant /\ 2 ^ Mant <= 2 ^ Long
  BY <1>1, TwoNat, TwoGrows
<1>3. ASSUME NEW n \in Nat, n - 1 \in Nat
      PROVE  2 ^ n = 2 * 2 ^ (n - 1) /\ 2 ^ (n - 1) \in Nat /\ 2 ^ (n - 1) > 0
  <2>1. 2 ^ ((n - 1) + 1) = 2 * 2 ^ (n - 1) /\ (n - 1) + 1 = n
    BY <1>3, TwoStep
  <2> QED  BY <1>3, <2>1, TwoNat, TwoAbove
<1>4. 2 ^ Short = 2 * 2 ^ (Short - 1) /\ 2 ^ (Short - 1) \in Nat /\ 2 ^ (Short - 1) > 0
  BY <1>1, <1>3
<1>5. 2 ^ Long = 2 * 2 ^ (Long - 1) /\ 2 ^ (Long - 1) \in Nat /\ 2 ^ (Long - 1) > 0
  BY <1>1, <1>3
<1>6. CASE t = "int32"
  <2>1. i \in -(2 ^ (Short - 1)) .. 2 ^ (Short - 1) - 1
    BY <1>6 DEF Ints
  <2> QED  BY <1>2, <1>4, <2>1 DEF Magnitude
<1>7. CASE t = "uint32"
  <2>1. i \in 0 .. 2 ^ Short - 1
    BY <1>7 DEF Ints
  <2> QED  BY <1>2, <2>1 DEF Magnitude
<1>8. CASE t = "int64"
  <2>1. i \in -(2 ^ (Long - 1)) .. 2 ^ (Long - 1) - 1
    BY <1>8 DEF Ints
  <2> QED  BY <1>5, <1>8, <2>1 DEF Magnitude
<1>9. CASE t = "uint64"
  <2>1. i \in 0 .. 2 ^ Long - 1
    BY <1>9 DEF Ints
  <2> QED  BY <1>2, <1>9, <2>1 DEF Magnitude
<1> QED  BY <1>6, <1>7, <1>8, <1>9 DEF IntTypes

(* A whole number of the type comes out of the float as one of 53 bits     *)
(* that is nearest to it, and as itself if it has no more.                 *)
LEMMA FloatNearest ==
  ASSUME NEW t \in IntTypes, NEW i \in Ints(t)
  PROVE  \E y \in Int : /\ Truncated(Float(2 * i), 2) = y /\ Nearest(y, i)
                        /\ t \in {"int32", "uint32"} => y = i
<1>1. /\ i \in Int /\ Magnitude(i) < 2 ^ Long /\ Magnitude(i) \in Nat
      /\ t \in {"int32", "uint32"} => Magnitude(i) < 2 ^ Mant
  BY TypeBits DEF Magnitude
<1>2. ASSUME NEW y \in Int PROVE Truncated(2 * y, 2) = y
  BY DEF Truncated
<1>3. 2 ^ Mant \in Nat /\ 2 ^ Long \in Nat /\ Long \in Nat
  BY FloatsAssumption, TwoNat
<1>4. CASE Magnitude(i) < 2 ^ Mant
  <2>1. Truncated(Float(2 * i), 2) = i
    BY <1>1, <1>2, <1>4, SmallFloat
  <2>2. Magnitude(i) = Magnitude(i) * 2 ^ 0
    BY <1>1, TwoZero
  <2>3. i \in Exact
    <3>1. i \in -(2 ^ Long) .. 2 ^ Long
      BY <1>1, <1>3 DEF Magnitude
    <3>2. Magnitude(i) \in 0 .. 2 ^ Mant /\ 0 \in 0 .. Long
      BY <1>1, <1>3, <1>4
    <3> QED  BY <2>2, <3>1, <3>2 DEF Exact
  <2>4. ASSUME NEW z \in Exact PROVE Magnitude(i - i) <= Magnitude(z - i)
    <3>1. z \in Int
      BY <1>3 DEF Exact
    <3> QED  BY <1>1, <3>1 DEF Magnitude
  <2> QED  BY <1>1, <2>1, <2>3, <2>4 DEF Nearest
<1>5. CASE 2 ^ Mant <= Magnitude(i)
  <2>1. PICK y \in Int : Float(2 * i) = 2 * y /\ Nearest(y, i)
    BY <1>1, <1>5, LargeFloat
  <2>2. ~(t \in {"int32", "uint32"})
    BY <1>1, <1>3, <1>5
  <2> QED  BY <1>2, <2>1, <2>2
<1> QED  BY <1>1, <1>3, <1>4, <1>5

(* What was converted is what the result was made from.                    *)
ToInv ==
  into # "none" => into \in IntTypes /\ arg \in Args /\ num \in Converted(into, ToFloat(arg), 2)

LEMMA ToInvInit == ToInit => ToInv
BY DEF ToInit, ToInv

LEMMA ToStep == ToInv /\ [ToNext]_toVars => ToInv'
<1> SUFFICES ASSUME ToInv, [ToNext]_toVars PROVE ToInv'
  OBVIOUS
<1>1. CASE ToNext
  <2>1. PICK t \in IntTypes : To(t)
    BY <1>1 DEF ToNext
  <2>2. PICK x \in Args : arg' = x /\ num' \in Converted(t, ToFloat(x), 2)
    BY <2>1 DEF To
  <2>3. into' = t
    BY <2>1 DEF To
  <2> QED  BY <2>2, <2>3 DEF ToInv
<1>2. CASE UNCHANGED toVars
  BY <1>2 DEF ToInv, toVars
<1> QED  BY <1>1, <1>2

LEMMA ToKept == ToInv => WholeKept
<1> SUFFICES ASSUME ToInv, NEW i, i = arg.v \div 2, into # "none",
                    arg.kind \in {"whole", "text"}, arg.v % 2 = 0, i \in Ints(into)
             PROVE  \/ Nearest(num, i)
                    \/ /\ into \in {"int64", "uint64"}
                       /\ \E y \in Exact \ Ints(into) : Nearest(y, i)
  BY DEF WholeKept
<1>1. into \in IntTypes /\ arg \in Args /\ num \in Converted(into, ToFloat(arg), 2)
  BY DEF ToInv
<1>2. arg.v \in Int
  <2>1. \A n \in Int : 2 * n \in Int
    OBVIOUS
  <2>2. Ints("int64") \subseteq Int /\ Ints("uint64") \subseteq Int
    BY TypeBits DEF IntTypes
  <2>3. Halves \subseteq Int
    BY FloatsAssumption, TwoNat DEF Halves
  <2> QED  BY <1>1, <2>1, <2>2, <2>3 DEF Args
<1>3. i \in Int /\ arg.v = 2 * i
  BY <1>2
<1>4. ToFloat(arg) = Float(2 * i)
  BY <1>3 DEF ToFloat
<1>5. PICK y \in Int : /\ Truncated(Float(2 * i), 2) = y /\ Nearest(y, i)
                       /\ into \in {"int32", "uint32"} => y = i
  BY <1>1, FloatNearest
<1>6. num \in IF y \in Ints(into) THEN {y} ELSE Ints(into)
  BY <1>1, <1>4, <1>5 DEF Converted
<1>7. CASE y \in Ints(into)
  BY <1>5, <1>6, <1>7
<1>8. CASE y \notin Ints(into)
  <2>1. into \in {"int64", "uint64"}
    BY <1>1, <1>5, <1>8 DEF IntTypes
  <2>2. y \in Exact
    BY <1>5 DEF Nearest
  <2> QED  BY <1>5, <1>8, <2>1, <2>2
<1> QED  BY <1>7, <1>8

(* A whole number that a type can hold comes back from ToInt32, ToUint32,  *)
(* ToInt64 and ToUint64 as the nearest float64, whatever the widths of the *)
(* types (to_float.go:9-47).                                               *)
THEOREM WholeIsKept == ToSpec => []WholeKept
<1>1. ToInit => ToInv
  BY ToInvInit
<1>2. ToInv /\ [ToNext]_toVars => ToInv'
  BY ToStep
<1>3. ToInv => WholeKept
  BY ToKept
<1> QED  BY <1>1, <1>2, <1>3, PTL DEF ToSpec

-----------------------------------------------------------------------------
(* SqlRows: ToMap                                                          *)

(* The column of a name exists.                                            *)
LEMMA SourceExists ==
  ASSUME NEW name \in Names
  PROVE  SourceOf(name) \in DOMAIN Columns
<1> DEFINE I == {i \in DOMAIN Columns : Lower[Columns[i]] = name}
<1>1. Len(Columns) \in Nat /\ DOMAIN Columns = 1 .. Len(Columns)
  BY SqlAssumption
<1>2. I \in SUBSET (1 .. Len(Columns)) /\ I # {}
  BY <1>1 DEF Names
<1>3. PICK k \in I : \A j \in I : j <= k
  <2> HIDE DEF I
  <2> QED  BY <1>1, <1>2, LastExists
<1>4. \E i \in DOMAIN Columns : /\ Lower[Columns[i]] = name
                               /\ \A j \in DOMAIN Columns : Lower[Columns[j]] = name => j <= i
  BY <1>3
<1> QED  BY <1>4 DEF SourceOf

RowTypes ==
  /\ rows \in Seq(Rows)
  /\ values \in [DOMAIN Columns -> Texts]
  /\ tbm \in Seq([Names -> Texts])

(* The buffer still holds the last row of the table.                       *)
LastBuffer ==
  \A name \in Names :
    values[SourceOf(name)] = (IF tbm = <<>> THEN Empty ELSE tbm[Len(tbm)][name])

RowInv == RowTypes /\ LastBuffer /\ TableHoldsRows

LEMMA RowInit == SqlInit => RowInv
<1> SUFFICES ASSUME SqlInit PROVE RowInv
  OBVIOUS
<1>1. rows = <<>> /\ tbm = <<>>
  BY DEF SqlInit
<1>2. values = [i \in DOMAIN Columns |-> Empty]
  BY DEF SqlInit
<1>3. RowTypes
  BY <1>1, <1>2 DEF RowTypes, Texts, TextKinds, Empty
<1>4. LastBuffer
  BY <1>1, <1>2, SourceExists DEF LastBuffer
<1>5. TableHoldsRows
  BY <1>1 DEF TableHoldsRows
<1> QED  BY <1>3, <1>4, <1>5 DEF RowInv

(* What Scan leaves in the buffer, and what goes from there into the table.*)
LEMMA ScanFills ==
  ASSUME values \in [DOMAIN Columns -> Texts], NEW row \in Rows, NEW shut \in BOOLEAN
  PROVE  /\ Scan(row, shut) \in [DOMAIN Columns -> Texts]
         /\ \A i \in DOMAIN Columns :
              Scan(row, shut)[i] = IF ~shut /\ \A j \in 1 .. i : row[j].kind # "null" THEN row[i] ELSE values[i]
         /\ entry(Scan(row, shut)) \in [Names -> Texts]
         /\ \A name \in Names : entry(Scan(row, shut))[name] = Scan(row, shut)[SourceOf(name)]
<1>1. \A i \in DOMAIN Columns : i \in Nat /\ i \in 1 .. i
  BY SqlAssumption
<1>2. \A i \in DOMAIN Columns :
        Scan(row, shut)[i] = IF ~shut /\ \A j \in 1 .. i : row[j].kind # "null" THEN row[i] ELSE values[i]
  BY DEF Scan
<1>3. Scan(row, shut) \in [DOMAIN Columns -> Texts]
  <2>1. \A i \in DOMAIN Columns : Scan(row, shut)[i] \in Texts
    <3> SUFFICES ASSUME NEW i \in DOMAIN Columns, row[i].kind # "null" PROVE row[i] \in Texts
      BY <1>1, <1>2
    <3>1. row[i] \in [kind : TextKinds \cup {"null"}, v : Int]
      BY SqlAssumption DEF Rows
    <3> QED  BY <3>1 DEF Texts
  <2> QED  BY <2>1 DEF Scan
<1>4. \A name \in Names : entry(Scan(row, shut))[name] = Scan(row, shut)[SourceOf(name)]
  BY DEF entry, SourceOf
<1>5. entry(Scan(row, shut)) \in [Names -> Texts]
  <2>1. \A name \in Names : entry(Scan(row, shut))[name] \in Texts
    BY <1>3, <1>4, SourceExists
  <2> QED  BY <2>1 DEF entry
<1> QED  BY <1>2, <1>3, <1>4, <1>5

LEMMA NextRowKeeps ==
  ASSUME RowInv, NextRow
  PROVE  RowInv'
<1>0. PICK shut \in BOOLEAN : shut = closed'
  BY DEF NextRow
<1>1. PICK row \in Rows : /\ rows' = Append(rows, row)
                          /\ values' = Scan(row, shut)
                          /\ tbm' = Append(tbm, entry(Scan(row, shut)))
  BY <1>0 DEF NextRow
<1> DEFINE n == Len(rows)
           e == entry(Scan(row, shut))
<1>2. /\ n \in Nat /\ Len(tbm) = n
      /\ rows \in Seq(Rows) /\ tbm \in Seq([Names -> Texts])
      /\ values \in [DOMAIN Columns -> Texts]
  BY DEF RowInv, RowTypes, TableHoldsRows
<1>3. /\ Scan(row, shut) \in [DOMAIN Columns -> Texts]
      /\ \A i \in DOMAIN Columns :
           Scan(row, shut)[i] = IF ~shut /\ \A j \in 1 .. i : row[j].kind # "null" THEN row[i] ELSE values[i]
      /\ e \in [Names -> Texts]
      /\ \A name \in Names : e[name] = Scan(row, shut)[SourceOf(name)]
  BY <1>2, ScanFills
<1> HIDE DEF e
<1>4. tbm' = Append(tbm, e)
  BY <1>1 DEF e
<1>5. /\ Len(rows') = n + 1 /\ rows'[n + 1] = row /\ \A k \in 1 .. n : rows'[k] = rows[k]
      /\ rows' \in Seq(Rows)
  BY <1>1, <1>2, AppendProperties
<1>6. /\ Len(tbm') = n + 1 /\ tbm'[n + 1] = e /\ \A k \in 1 .. n : tbm'[k] = tbm[k]
      /\ tbm' \in Seq([Names -> Texts]) /\ tbm' # <<>>
  BY <1>2, <1>3, <1>4, AppendProperties
<1>7. RowTypes'
  BY <1>1, <1>3, <1>5, <1>6 DEF RowTypes
<1>8. LastBuffer'
  BY <1>1, <1>3, <1>6 DEF LastBuffer
<1>9. TableHoldsRows'
  <2> SUFFICES ASSUME NEW k \in 1 .. (n + 1), NEW name \in Names
               PROVE  tbm'[k][name] =
                        IF /\ shut => k # n + 1
                           /\ \A j \in 1 .. SourceOf(name) : rows'[k][j].kind # "null"
                          THEN rows'[k][SourceOf(name)]
                          ELSE IF k = 1 THEN Empty ELSE tbm'[k - 1][name]
    <3>1. DOMAIN rows' = 1 .. (n + 1) /\ Len(rows') = n + 1 /\ Len(tbm') = n + 1
      BY <1>2, <1>5, <1>6
    <3>2. closed' <=> shut
      BY <1>0
    <3> QED  BY <3>1, <3>2 DEF TableHoldsRows
  <2>1. CASE k = n + 1
    <3>1. /\ tbm'[k][name] = Scan(row, shut)[SourceOf(name)] /\ rows'[k] = row
          /\ SourceOf(name) \in DOMAIN Columns
      BY <1>3, <1>5, <1>6, <2>1, SourceExists
    <3>2. values[SourceOf(name)] = IF k = 1 THEN Empty ELSE tbm'[k - 1][name]
      <4>1. CASE n = 0
        BY <1>2, <2>1, <4>1 DEF RowInv, LastBuffer
      <4>2. CASE n # 0
        <5>1. tbm # <<>> /\ k - 1 = n /\ n \in 1 .. n
          BY <1>2, <2>1, <4>2
        <5> QED  BY <1>2, <1>6, <5>1, <4>2 DEF RowInv, LastBuffer
      <4> QED  BY <4>1, <4>2
    <3>3. tbm'[k][name] =
            IF ~shut /\ \A j \in 1 .. SourceOf(name) : row[j].kind # "null"
              THEN row[SourceOf(name)] ELSE values[SourceOf(name)]
      BY <1>3, <3>1
    <3> QED  BY <2>1, <3>1, <3>2, <3>3
  <2>2. CASE k # n + 1
    <3>1. k \in 1 .. n /\ k \in DOMAIN rows /\ (k # 1 => k - 1 \in 1 .. n)
      BY <1>2, <2>2
    <3>2. tbm'[k] = tbm[k] /\ rows'[k] = rows[k] /\ (k # 1 => tbm'[k - 1] = tbm[k - 1])
      BY <1>5, <1>6, <3>1
    <3>3. ~closed
      BY DEF NextRow
    <3> QED  BY <2>2, <3>1, <3>2, <3>3 DEF RowInv, TableHoldsRows
  <2> QED  BY <2>1, <2>2
<1> QED  BY <1>7, <1>8, <1>9 DEF RowInv

LEMMA RowStep == RowInv /\ [SqlNext]_sqlVars => RowInv'
<1> SUFFICES ASSUME RowInv, [SqlNext]_sqlVars PROVE RowInv'
  OBVIOUS
<1>1. CASE NextRow
  BY <1>1, NextRowKeeps
<1>2. CASE RowsEnd \/ ColumnsFail \/ Choose \/ Fill \/ UNCHANGED sqlVars
  <2>1. UNCHANGED <<rows, closed, values, tbm>>
    BY <1>2 DEF RowsEnd, ColumnsFail, Choose, Fill, sqlVars
  <2> QED  BY <2>1 DEF RowInv, RowTypes, LastBuffer, TableHoldsRows
<1> QED  BY <1>1, <1>2 DEF SqlNext

-----------------------------------------------------------------------------
(* SqlRows: UnMarshal                                                      *)

(* A multiple leaves no remainder.                                         *)
LEMMA Multiple ==
  ASSUME NEW z \in Int, NEW m \in Nat \ {0}
  PROVE  (z * m) % m = 0
<1>1. PICK x \in Int : x = z * m
  OBVIOUS
<1>2. PICK d \in Int : d = x \div m
  OBVIOUS
<1>3. PICK e \in Int : e = x % m
  OBVIOUS
<1>4. x = m * d + e /\ 0 <= e /\ e < m
  BY <1>2, <1>3
<1>5. e = m * (z - d)
  BY <1>1, <1>4
<1>6. CASE z - d >= 1
  <2>1. m * (z - d) >= m * 1
    BY <1>6
  <2> QED  BY <1>4, <1>5, <2>1
<1>7. CASE z - d <= -1
  <2>1. m * (z - d) <= m * (-1)
    BY <1>7
  <2> QED  BY <1>4, <1>5, <2>1
<1>8. CASE z - d = 0
  BY <1>1, <1>3, <1>5, <1>8
<1> QED  BY <1>6, <1>7, <1>8

(* The low bits of an integer, read as a number of a type, are a number of *)
(* that type, and what is lost is a multiple of the type's size.           *)
LEMMA WrappedFits ==
  ASSUME NEW t \in IntTypes, NEW i \in Int
  PROVE  Wrapped(t, i) \in Ints(t) /\ (Wrapped(t, i) - i) % 2 ^ Bits(t) = 0
<1>1. /\ Bits(t) \in Nat /\ Bits(t) - 1 \in Nat
      /\ t \in {"int32", "uint32"} => Bits(t) = Short
      /\ t \in {"int64", "uint64"} => Bits(t) = Long
  BY FloatsAssumption DEF Bits
<1>2. /\ 2 ^ (Bits(t) - 1) \in Nat /\ 2 ^ (Bits(t) - 1) > 0
      /\ 2 ^ Bits(t) = 2 * 2 ^ (Bits(t) - 1)
  <2>1. 2 ^ ((Bits(t) - 1) + 1) = 2 * 2 ^ (Bits(t) - 1) /\ (Bits(t) - 1) + 1 = Bits(t)
    BY <1>1, TwoStep
  <2> QED  BY <1>1, <2>1, TwoNat, TwoAbove
<1>3. PICK h \in Nat \ {0} : h = 2 ^ (Bits(t) - 1)
  BY <1>2
<1>4. PICK m \in Nat \ {0} : m = 2 ^ Bits(t) /\ m = 2 * h
  BY <1>2, <1>3
<1>5. PICK l \in Int : l = Least(t) /\ Ints(t) = l .. l + m - 1
  <2>1. CASE t \in {"int32", "int64"}
    <3>1. Least(t) = -h /\ Ints(t) = -h .. h - 1
      BY <1>1, <1>3, <2>1 DEF Least, Ints
    <3> QED  BY <1>4, <3>1
  <2>2. CASE t \in {"uint32", "uint64"}
    <3>1. Least(t) = 0 /\ Ints(t) = 0 .. m - 1
      BY <1>1, <1>4, <2>2 DEF Least, Ints
    <3> QED  BY <1>4, <3>1
  <2> QED  BY <2>1, <2>2 DEF IntTypes
<1>6. PICK d \in Int : d = (i - l) \div m
  OBVIOUS
<1>7. PICK e \in Int : e = (i - l) % m
  OBVIOUS
<1>8. i - l = m * d + e /\ 0 <= e /\ e < m
  BY <1>6, <1>7
<1>9. Wrapped(t, i) = l + e
  BY <1>4, <1>5, <1>7 DEF Wrapped
<1>10. Wrapped(t, i) \in Ints(t)
  BY <1>5, <1>8, <1>9
<1>11. Wrapped(t, i) - i = (-d) * m
  BY <1>8, <1>9
<1>12. ((-d) * m) % m = 0
  BY Multiple
<1> QED  BY <1>4, <1>10, <1>11, <1>12

(* What is stored of a text that parses is what the field may hold of it.  *)
LEMMA StoredHolds ==
  ASSUME NEW kind \in Kinds, NEW cell \in Texts, kind # "slice", Parses(kind, cell)
  PROVE  Holds(kind, cell, Stored(kind, cell))
<1>1. cell.v \in Int
  BY DEF Texts
<1>2. CASE kind \in IntTypes
  <2>1. cell.kind = "whole"
    <3>1. CASE kind \in {"int32", "int64"}
      BY <3>1 DEF Parses
    <3>2. CASE kind \in {"uint32", "uint64"}
      BY <3>2 DEF Parses
    <3> QED  BY <1>2, <3>1, <3>2 DEF IntTypes
  <2>2. PICK x : x = Stored(kind, cell)
    OBVIOUS
  <2>5. x.kind = "value" /\ x.v = Wrapped(kind, cell.v)
    BY <1>2, <2>2 DEF Stored, Content, IntTypes
  <2>3. /\ Wrapped(kind, cell.v) \in Ints(kind)
        /\ (Wrapped(kind, cell.v) - cell.v) % 2 ^ Bits(kind) = 0
    BY <1>1, <1>2, WrappedFits
  <2>4. Holds(kind, cell, x) <=> /\ cell.kind = "whole" /\ x.kind = "value"
                                 /\ x.v \in Ints(kind)
                                 /\ (x.v - cell.v) % 2 ^ Bits(kind) = 0
    BY <1>2 DEF Holds, IntTypes
  <2> QED  BY <2>1, <2>2, <2>3, <2>4, <2>5
<1>3. CASE kind \in {"float32", "float64", "bool"}
  BY <1>3 DEF Parses, Stored, Holds, IntTypes
<1>4. CASE kind = "string"
  BY <1>4 DEF Stored, Holds, IntTypes
<1>5. CASE kind \in {"private", "other"}
  BY <1>5 DEF Parses
<1> QED  BY <1>2, <1>3, <1>4, <1>5 DEF Kinds

(* Before Fill nothing has failed and the structs are as they were given,  *)
(* or new.                                                                 *)
Prepared ==
  /\ spc \in {"rows", "table", "fields", "done"}
  /\ fields \in Seq([col : STRING, kind : Kinds])
  /\ spc \in {"rows", "table"} => ~err
  /\ spc = "fields" =>
       /\ ~err /\ tbm # <<>>
       /\ \/ target = "struct" /\ Len(tbm) = 1 /\ out = <<Given(fields)>>
          \/ target = "slice" /\ out = [i \in DOMAIN tbm |-> Fresh(fields)]

FillInv == RowTypes /\ Prepared /\ NilMeansFilled

LEMMA FillInit == SqlInit => Prepared /\ NilMeansFilled
<1> SUFFICES ASSUME SqlInit PROVE Prepared /\ NilMeansFilled
  OBVIOUS
<1>1. spc = "rows" /\ ~err /\ fields = <<>>
  BY DEF SqlInit
<1>2. fields \in Seq([col : STRING, kind : Kinds])
  BY <1>1, EmptySeq
<1> QED  BY <1>1, <1>2 DEF Prepared, NilMeansFilled

LEMMA ChooseKeeps ==
  ASSUME FillInv, Choose
  PROVE  Prepared' /\ NilMeansFilled'
<1>1. /\ spc = "table" /\ ~err /\ tbm' = tbm /\ tbm \in Seq([Names -> Texts])
      /\ fields' \in Seq([col : STRING, kind : Kinds])
  BY SqlAssumption DEF Choose, FillInv, Prepared, RowTypes
<1>2. CASE target' = "struct"
  <2>1. /\ err' = (Len(tbm) # 1)
        /\ spc' = IF Len(tbm) = 1 THEN "fields" ELSE "done"
        /\ out' = <<Given(fields')>>
    BY <1>2 DEF Choose
  <2>2. CASE Len(tbm) = 1
    <3>1. ~err'
      BY <2>1, <2>2, Zenon
    <3>2. spc' = "fields" /\ out' = <<Given(fields')>>
      BY <2>1, <2>2, Zenon
    <3>3. tbm # <<>>
      BY <2>2
    <3> QED  BY <1>1, <1>2, <2>2, <3>1, <3>2, <3>3 DEF Prepared, NilMeansFilled, Given
  <2>3. CASE Len(tbm) # 1
    <3>1. err' /\ spc' = "done"
      BY <2>1, <2>3
    <3> QED  BY <1>1, <3>1 DEF Prepared, NilMeansFilled
  <2> QED  BY <2>2, <2>3
<1>3. CASE target' = "slice"
  <2>1. /\ ~err'
        /\ spc' = IF tbm = <<>> THEN "done" ELSE "fields"
        /\ out' = IF tbm = <<>> THEN <<Given(fields')>> ELSE [i \in DOMAIN tbm |-> Fresh(fields')]
    BY <1>1, <1>3 DEF Choose
  <2> QED  BY <1>1, <1>3, <2>1 DEF Prepared, NilMeansFilled, Given, Fresh
<1>4. CASE target' = "other"
  <2>1. err' /\ spc' = "done"
    BY <1>4 DEF Choose
  <2> QED  BY <1>1, <2>1 DEF Prepared, NilMeansFilled
<1> QED  BY <1>2, <1>3, <1>4 DEF Choose

LEMMA FillKeeps ==
  ASSUME FillInv, Fill
  PROVE  Prepared' /\ NilMeansFilled'
<1>1. /\ spc = "fields" /\ spc' = "done" /\ tbm # <<>>
      /\ UNCHANGED <<tbm, target, fields>>
      /\ tbm \in Seq([Names -> Texts])
  BY DEF Fill, FillInv, Prepared, RowTypes
<1>2. SUFFICES ASSUME ~err' PROVE NilMeansFilled'
  BY <1>1 DEF FillInv, Prepared, NilMeansFilled
<1> DEFINE before == Content(IF target = "struct" THEN "old" ELSE "zero", 0)
<1>3. \A k \in DOMAIN tbm : ~RowFails(tbm[k])
  BY <1>2 DEF Fill
<1>4. /\ Len(tbm) \in Nat /\ DOMAIN tbm = 1 .. Len(tbm)
      /\ \A k \in DOMAIN tbm : tbm[k] \in [Names -> Texts]
  BY <1>1
<1>5. DOMAIN out = DOMAIN tbm /\ Len(out) = Len(tbm)
  BY <1>1, <1>4 DEF FillInv, Prepared
<1>6. \A k \in DOMAIN tbm : \A i \in DOMAIN fields : out[k][i] = before
  BY <1>1, <1>4, <1>5 DEF FillInv, Prepared, Given, Fresh
<1>7. \A k \in DOMAIN tbm : out'[k] = mapSingle2interface(tbm[k], out[k])
  BY <1>3, <1>4, <1>5 DEF Fill
<1>8. DOMAIN out' = 1 .. Len(tbm) /\ Len(out') = Len(tbm)
  BY <1>4, <1>5 DEF Fill
<1>9. ASSUME NEW k \in DOMAIN tbm, NEW i \in DOMAIN fields
      PROVE  IF /\ fields[i].col \in Names /\ tbm[k][fields[i].col].kind # "empty"
                /\ fields[i].kind # "slice"
               THEN Holds(fields[i].kind, tbm[k][fields[i].col], out'[k][i])
               ELSE out'[k][i] = before
  <2>1. \A j \in 1 .. i : ~Fails(fields[j], tbm[k])
    <3>1. \A j \in 1 .. i : j \in DOMAIN fields
      BY DEF FillInv, Prepared
    <3> QED  BY <1>3, <3>1 DEF RowFails
  <2>2. DOMAIN tbm[k] = Names
    BY <1>4
  <2>3. out'[k][i] = IF Leaves(fields[i], tbm[k]) THEN out[k][i]
                     ELSE Stored(fields[i].kind, tbm[k][fields[i].col])
    <3>1. out'[k][i] = mapSingle2interface(tbm[k], out[k])[i]
      BY <1>7
    <3>2. mapSingle2interface(tbm[k], out[k])[i] =
            IF Leaves(fields[i], tbm[k]) \/ \E j \in 1 .. i : Fails(fields[j], tbm[k])
              THEN out[k][i] ELSE Stored(fields[i].kind, tbm[k][fields[i].col])
      BY DEF mapSingle2interface
    <3> QED  BY <2>1, <3>1, <3>2, Zenon
  <2>4. CASE Leaves(fields[i], tbm[k])
    <3>1. out'[k][i] = before
      BY <1>6, <2>3, <2>4
    <3>2. ~(/\ fields[i].col \in Names /\ tbm[k][fields[i].col].kind # "empty"
            /\ fields[i].kind # "slice")
      BY <2>2, <2>4 DEF Leaves
    <3> QED  BY <3>1, <3>2
  <2>5. CASE ~Leaves(fields[i], tbm[k])
    <3>1. /\ fields[i].col \in Names /\ tbm[k][fields[i].col].kind # "empty"
          /\ fields[i].kind # "slice"
      BY <2>2, <2>5 DEF Leaves
    <3>2. tbm[k][fields[i].col] \in Texts /\ fields[i].kind \in Kinds
      <4>1. tbm[k] \in [Names -> Texts]
        BY <1>4
      <4>2. fields[i] \in [col : STRING, kind : Kinds]
        <5>1. fields \in Seq([col : STRING, kind : Kinds])
          BY DEF FillInv, Prepared
        <5>2. i \in 1 .. Len(fields)
          BY <5>1
        <5> QED  BY <5>1, <5>2, ElementOfSeq
      <4> QED  BY <3>1, <4>1, <4>2
    <3>3. Parses(fields[i].kind, tbm[k][fields[i].col])
      <4>1. i \in 1 .. i
        BY DEF FillInv, Prepared
      <4> QED  BY <2>1, <2>2, <3>1, <4>1 DEF Fails
    <3>4. Holds(fields[i].kind, tbm[k][fields[i].col], Stored(fields[i].kind, tbm[k][fields[i].col]))
      BY <3>1, <3>2, <3>3, StoredHolds
    <3> QED  BY <2>3, <2>5, <3>1, <3>4
  <2> QED  BY <2>4, <2>5
<1>10. tbm' = tbm /\ fields' = fields /\ target' = target
  BY <1>1
<1> QED  BY <1>1, <1>4, <1>8, <1>9, <1>10 DEF NilMeansFilled

LEMMA FillStep == FillInv /\ [SqlNext]_sqlVars => Prepared' /\ NilMeansFilled'
<1> SUFFICES ASSUME FillInv, [SqlNext]_sqlVars PROVE Prepared' /\ NilMeansFilled'
  OBVIOUS
<1>1. CASE NextRow \/ RowsEnd
  <2>1. spc = "rows" /\ spc' \in {"rows", "table"} /\ UNCHANGED <<err, fields>>
    BY <1>1 DEF NextRow, RowsEnd
  <2> QED  BY <2>1 DEF FillInv, Prepared, NilMeansFilled
<1>2. CASE ColumnsFail
  BY <1>2 DEF ColumnsFail, FillInv, Prepared, NilMeansFilled
<1>3. CASE UNCHANGED sqlVars
  BY <1>3 DEF sqlVars, FillInv, Prepared, NilMeansFilled
<1> QED  BY <1>1, <1>2, <1>3, ChooseKeeps, FillKeeps DEF SqlNext

-----------------------------------------------------------------------------
(* Every row of the result set is a row of the table; only a NULL in a     *)
(* row, or rows closed before it was scanned, let values of the row before *)
(* through (sql_unmarshal.go:40-56).                                       *)
THEOREM TableIsRows == SqlSpec => []TableHoldsRows
<1>1. RowInv => TableHoldsRows
  BY DEF RowInv
<1> QED  BY RowInit, RowStep, <1>1, PTL DEF SqlSpec

(* When UnMarshal returns nil, every struct has the non-empty cells of its *)
(* own row, as far as its fields' types can hold them, and keeps what it   *)
(* had elsewhere (sql_unmarshal.go:60-175).                                *)
THEOREM NilIsFilled == SqlSpec => []NilMeansFilled
<1>1. RowInv => RowTypes
  BY DEF RowInv
<1>2. RowTypes /\ Prepared /\ NilMeansFilled /\ [SqlNext]_sqlVars => Prepared' /\ NilMeansFilled'
  BY FillStep DEF FillInv
<1> QED  BY RowInit, RowStep, FillInit, <1>1, <1>2, PTL DEF SqlSpec

-----------------------------------------------------------------------------
(* Backoff: powers of three                                                *)

(* The recursion of Threes has a solution, from its prefixes.              *)
Prefixes(k) == {g \in [0 .. k -> Nat] : g[0] = 1 /\ \A j \in 1 .. k : g[j] = 3 * g[j - 1]}

LEMMA PrefixExists ==
  ASSUME NEW k \in Nat
  PROVE  Prefixes(k) # {}
<1> DEFINE P == {n \in Nat : Prefixes(n) # {}}
<1>1. 0 \in P
  <2>1. [j \in 0 .. 0 |-> 1] \in Prefixes(0)
    BY DEF Prefixes
  <2> QED  BY <2>1
<1>2. \A n \in P : n + 1 \in P
  <2> TAKE n \in P
  <2>1. PICK g : g \in Prefixes(n)
    OBVIOUS
  <2>2. /\ g \in [0 .. n -> Nat] /\ g[0] = 1 /\ \A j \in 1 .. n : g[j] = 3 * g[j - 1]
    BY <2>1 DEF Prefixes
  <2> DEFINE h == [j \in 0 .. n + 1 |-> IF j = n + 1 THEN 3 * g[n] ELSE g[j]]
  <2>3. h \in [0 .. n + 1 -> Nat]
    BY <2>2
  <2>4. h[0] = 1
    BY <2>2
  <2>5. ASSUME NEW j \in 1 .. n + 1 PROVE h[j] = 3 * h[j - 1]
    <3>1. CASE j = n + 1
      <4>1. j - 1 = n /\ j - 1 # n + 1
        BY <3>1
      <4> QED  BY <3>1, <4>1
    <3>2. CASE j # n + 1
      <4>1. j \in 1 .. n /\ j - 1 \in 0 .. n /\ j - 1 # n + 1
        BY <3>2
      <4> QED  BY <2>2, <3>2, <4>1
    <3> QED  BY <3>1, <3>2
  <2>6. h \in Prefixes(n + 1)
    <3> HIDE DEF h
    <3> QED  BY <2>3, <2>4, <2>5 DEF Prefixes
  <2> QED  BY <2>6
<1> HIDE DEF P
<1>3. P = Nat
  <2>1. P \in SUBSET Nat
    BY DEF P
  <2> QED  BY <1>1, <1>2, <2>1, AllNat
<1> QED  BY <1>3 DEF P

LEMMA PrefixesAgree ==
  ASSUME NEW k \in Nat, NEW g \in Prefixes(k), NEW l \in Nat, NEW h \in Prefixes(l)
  PROVE  \A j \in Nat : j <= k /\ j <= l => g[j] = h[j]
<1> DEFINE P == {j \in Nat : j <= k /\ j <= l => g[j] = h[j]}
<1>1. /\ g[0] = 1 /\ \A j \in 1 .. k : g[j] = 3 * g[j - 1]
      /\ h[0] = 1 /\ \A j \in 1 .. l : h[j] = 3 * h[j - 1]
  BY DEF Prefixes
<1>2. 0 \in P
  BY <1>1
<1>3. \A j \in P : j + 1 \in P
  <2> TAKE j \in P
  <2>1. SUFFICES ASSUME j + 1 <= k, j + 1 <= l PROVE g[j + 1] = h[j + 1]
    OBVIOUS
  <2>2. j + 1 \in 1 .. k /\ j + 1 \in 1 .. l /\ (j + 1) - 1 = j
    BY <2>1
  <2>3. g[j] = h[j]
    BY <2>1
  <2>4. g[j + 1] = 3 * g[j] /\ h[j + 1] = 3 * h[j]
    BY <1>1, <2>2
  <2> QED  BY <2>3, <2>4
<1> HIDE DEF P
<1>4. P = Nat
  <2>1. P \in SUBSET Nat
    BY DEF P
  <2> QED  BY <1>2, <1>3, <2>1, AllNat
<1> QED  BY <1>4 DEF P

LEMMA ThreesIs == Threes = [n \in Nat |-> IF n = 0 THEN 1 ELSE 3 * Threes[n - 1]]
<1> DEFINE pre == [n \in Nat |-> CHOOSE g : g \in Prefixes(n)]
           f == [n \in Nat |-> pre[n][n]]
<1>1. \A n \in Nat : pre[n] \in Prefixes(n)
  BY PrefixExists
<1> HIDE DEF pre
<1>2. ASSUME NEW n \in Nat PROVE f[n] = IF n = 0 THEN 1 ELSE 3 * f[n - 1]
  <2>1. pre[n][0] = 1 /\ \A j \in 1 .. n : pre[n][j] = 3 * pre[n][j - 1]
    BY <1>1 DEF Prefixes
  <2>2. CASE n = 0
    BY <2>1, <2>2
  <2>3. CASE n # 0
    <3>1. n - 1 \in Nat /\ n \in 1 .. n /\ n - 1 <= n
      BY <2>3
    <3>2. pre[n][n] = 3 * pre[n][n - 1]
      BY <2>1, <3>1
    <3>3. pre[n][n - 1] = pre[n - 1][n - 1]
      BY <1>1, <3>1, PrefixesAgree
    <3> QED  BY <2>3, <3>1, <3>2, <3>3
  <2> QED  BY <2>2, <2>3
<1>3. f = [n \in Nat |-> IF n = 0 THEN 1 ELSE 3 * f[n - 1]]
  <2>1. f = [n \in Nat |-> f[n]]
    OBVIOUS
  <2> HIDE DEF f
  <2> QED  BY <1>2, <2>1
<1> HIDE DEF f
<1>4. \E g : g = [n \in Nat |-> IF n = 0 THEN 1 ELSE 3 * g[n - 1]]
  BY <1>3
<1> QED  BY <1>4 DEF Threes

LEMMA ThreesStep ==
  Threes[0] = 1 /\ \A n \in Nat : Threes[n] \in Nat /\ Threes[n + 1] = 3 * Threes[n]
<1>1. Threes[0] = 1
  BY ThreesIs
<1>2. ASSUME NEW n \in Nat PROVE Threes[n + 1] = 3 * Threes[n]
  <2>1. n + 1 \in Nat /\ n + 1 # 0 /\ (n + 1) - 1 = n
    OBVIOUS
  <2> QED  BY <2>1, ThreesIs
<1> DEFINE P == {n \in Nat : Threes[n] \in Nat}
<1>3. 0 \in P /\ \A n \in P : n + 1 \in P
  BY <1>1, <1>2
<1> HIDE DEF P
<1>4. P = Nat
  <2>1. P \in SUBSET Nat
    BY DEF P
  <2> QED  BY <1>3, <2>1, AllNat
<1> QED  BY <1>1, <1>2, <1>4 DEF P

(* 3 ^ n is 2 ^ n or more, and from 3 ^ 2 on twice as much.                *)
LEMMA ThreesAbove ==
  ASSUME NEW n \in Nat
  PROVE  2 ^ n <= Threes[n] /\ (n >= 2 => 2 * 2 ^ n <= Threes[n])
<1> DEFINE P == {k \in Nat : 2 ^ k <= Threes[k] /\ (k >= 2 => 2 * 2 ^ k <= Threes[k])}
<1>1. 0 \in P
  BY TwoZero, ThreesStep
<1>2. ASSUME NEW k \in P PROVE k + 1 \in P
  <2>1. /\ 2 ^ k \in Nat /\ Threes[k] \in Nat
        /\ 2 ^ (k + 1) = 2 * 2 ^ k /\ Threes[k + 1] = 3 * Threes[k]
    BY TwoNat, TwoStep, ThreesStep
  <2>2. 2 ^ k <= Threes[k] /\ (k >= 2 => 2 * 2 ^ k <= Threes[k])
    OBVIOUS
  <2>3. 2 ^ (k + 1) <= Threes[k + 1]
    BY <2>1, <2>2
  <2>4. ASSUME k + 1 >= 2 PROVE 2 * 2 ^ (k + 1) <= Threes[k + 1]
    <3>1. CASE k = 1
      <4>1. Threes[1] = 3 /\ Threes[2] = 9
        <5>1. Threes[0 + 1] = 3 * Threes[0] /\ Threes[1 + 1] = 3 * Threes[1]
          BY ThreesStep
        <5>2. 0 + 1 = 1 /\ 1 + 1 = 2
          OBVIOUS
        <5> QED  BY <5>1, <5>2, ThreesStep
      <4>2. 2 ^ (k + 1) = 4 /\ Threes[k + 1] = 9
        BY <3>1, <4>1
      <4> QED  BY <4>2
    <3>2. CASE k >= 2
      BY <2>1, <2>2, <3>2
    <3> QED  BY <2>4, <3>1, <3>2
  <2> QED  BY <2>3, <2>4
<1> HIDE DEF P
<1>3. P = Nat
  <2>1. P \in SUBSET Nat
    BY DEF P
  <2> QED  BY <1>1, <1>2, <2>1, AllNat
<1> QED  BY <1>3 DEF P

-----------------------------------------------------------------------------
(* Backoff: the pauses                                                     *)

(* x \div y is the largest integer whose product with y is at most x.      *)
LEMMA Quotient ==
  ASSUME NEW x \in Int, NEW y \in Nat \ {0}
  PROVE  x \div y \in Int /\ y * (x \div y) <= x /\ \A c \in Int : y * c <= x => c <= x \div y
<1>1. x \div y \in Int /\ y * (x \div y) <= x /\ x < y * (x \div y) + y
  OBVIOUS
<1>2. ASSUME NEW c \in Int, y * c <= x, ~(c <= x \div y) PROVE FALSE
  <2>1. PICK d \in Int : d = x \div y
    BY <1>1
  <2>2. d + 1 <= c /\ x < y * d + y
    BY <1>1, <1>2, <2>1
  <2>3. y * (d + 1) <= y * c /\ y * (d + 1) = y * d + y
    BY <2>2
  <2>4. y * d \in Int /\ y * c \in Int
    OBVIOUS
  <2> QED  BY <1>2, <2>2, <2>3, <2>4
<1> QED  BY <1>1, <1>2

LEMMA DurationIs ==
  /\ Ints("int64") \subseteq Int
  /\ MinDelay \in Nat /\ MaxDelay \in Nat /\ 0 < MinDelay /\ MinDelay <= MaxDelay
  /\ \A x \in Nat : \A y \in Ints("int64") : x <= y => x \in Ints("int64")
<1>1. Ints("int64") \subseteq Int
  BY TypeBits DEF IntTypes
<1>2. Ints("int64") = -(2 ^ (Long - 1)) .. 2 ^ (Long - 1) - 1 /\ 2 ^ (Long - 1) \in Nat
  <2>1. Long - 1 \in Nat
    BY FloatsAssumption
  <2> QED  BY <2>1, TwoNat DEF Ints
<1>3. \A x \in Nat : \A y \in Ints("int64") : x <= y => x \in Ints("int64")
  BY <1>2
<1> QED  BY <1>1, <1>3, BackoffAssumption

(* The delay of an attempt as a fraction: from MinDelay on, and less than  *)
(* MinDelay * (1.5 ^ n + 1).                                               *)
LEMMA Fraction ==
  ASSUME NEW n \in Nat, NEW r \in 0 .. Jitters - 1
  PROVE  /\ Num(n, r) \in Nat /\ Den(n) \in Nat \ {0}
         /\ Den(n) * MinDelay <= Num(n, r)
         /\ Num(n, r) <= Num(n, Jitters - 1)
         /\ Den(n + 1) = 2 * Den(n)
         /\ n >= 2 => \A s \in 0 .. Jitters - 1 : 2 * Num(n, r) <= Num(n + 1, s)
<1>1. PICK t \in Nat : t = 2 ^ n /\ t > 0 /\ 2 ^ (n + 1) = 2 * t
  BY TwoNat, TwoStep, TwoAbove
<1>2. PICK h \in Nat : h = Threes[n] /\ t <= h /\ (n >= 2 => 2 * t <= h) /\ Threes[n + 1] = 3 * h
  BY <1>1, ThreesStep, ThreesAbove
<1>3. PICK j \in Nat : j = Jitters /\ j > 0
  BY BackoffAssumption
<1>4. PICK m \in Nat : m = MinDelay
  BY DurationIs
<1>5. r \in Nat /\ r <= j - 1 /\ j - 1 \in Nat
  BY <1>3
<1>6. /\ Num(n, r) = m * (h * j + r * t)
      /\ Num(n, Jitters - 1) = m * (h * j + (j - 1) * t)
      /\ Den(n) = t * j /\ Den(n + 1) = (2 * t) * j
      /\ \A s \in Nat : Num(n + 1, s) = m * ((3 * h) * j + s * (2 * t))
  BY <1>1, <1>2, <1>3, <1>4 DEF Num, Den
<1>7. h * j \in Nat /\ r * t \in Nat /\ (j - 1) * t \in Nat /\ t * j \in Nat /\ t * j > 0
  BY <1>1, <1>3, <1>5
<1>8. r * t <= (j - 1) * t
  BY <1>5
<1>9. t * j <= h * j
  BY <1>2
<1>10. ASSUME NEW a \in Nat, NEW b \in Nat, a <= b PROVE m * a <= m * b /\ m * a \in Nat
  BY <1>10
<1>11. Num(n, r) \in Nat /\ Num(n, r) <= Num(n, Jitters - 1)
  <2>1. /\ h * j + r * t \in Nat /\ h * j + (j - 1) * t \in Nat
        /\ h * j + r * t <= h * j + (j - 1) * t
    BY <1>7, <1>8
  <2> QED  BY <1>6, <1>10, <2>1
<1>12. Den(n) * MinDelay <= Num(n, r)
  <2>1. t * j <= h * j + r * t /\ h * j + r * t \in Nat
    BY <1>7, <1>9
  <2>2. m * (t * j) <= m * (h * j + r * t)
    BY <1>7, <1>10, <2>1
  <2>3. (t * j) * m = m * (t * j)
    BY <1>7
  <2> QED  BY <1>4, <1>6, <2>2, <2>3
<1>13. Den(n) \in Nat \ {0} /\ Den(n + 1) = 2 * Den(n)
  <2>1. (2 * t) * j = 2 * (t * j)
    OBVIOUS
  <2> QED  BY <1>6, <1>7, <2>1
<1>14. ASSUME n >= 2, NEW s \in 0 .. Jitters - 1 PROVE 2 * Num(n, r) <= Num(n + 1, s)
  <2>1. 2 * t <= h /\ s \in Nat
    BY <1>2, <1>3, <1>14
  <2>2. (2 * t) * j <= h * j
    BY <2>1
  <2>3. (j - 1) * t <= t * j /\ (2 * t) * j = 2 * (t * j) /\ (3 * h) * j = 3 * (h * j)
    BY <1>5
  <2>4. 2 * (h * j + r * t) <= 3 * (h * j)
    BY <1>7, <1>8, <2>2, <2>3
  <2>5. s * (2 * t) \in Nat
    BY <2>1
  <2>6. /\ 2 * (h * j + r * t) <= (3 * h) * j + s * (2 * t)
        /\ 2 * (h * j + r * t) \in Nat /\ (3 * h) * j + s * (2 * t) \in Nat
    BY <1>7, <2>3, <2>4, <2>5
  <2>7. m * (2 * (h * j + r * t)) <= m * ((3 * h) * j + s * (2 * t))
    BY <1>10, <2>6
  <2>8. m * (2 * (h * j + r * t)) = 2 * (m * (h * j + r * t))
    BY <1>7
  <2> QED  BY <1>6, <2>1, <2>7, <2>8
<1> QED  BY <1>11, <1>12, <1>13, <1>14

(* A pause is an integer within the limit; before the exponential leaves   *)
(* Duration it is the fraction, truncated, or the limit.                   *)
LEMMA PauseIs ==
  ASSUME NEW n \in Nat, NEW d \in next(n)
  PROVE  /\ d \in Int /\ d <= MaxDelay
         /\ ~Overflows(n) =>
              \E r \in 0 .. Jitters - 1 :
                 d = IF Num(n, r) \div Den(n) > MaxDelay THEN MaxDelay ELSE Num(n, r) \div Den(n)
<1>1. PICK r \in 0 .. Jitters - 1 : \E c \in Converted("int64", Num(n, r), Den(n)) :
        d = IF c > MaxDelay THEN MaxDelay ELSE c
  BY DEF next
<1>2. PICK c \in Converted("int64", Num(n, r), Den(n)) : d = IF c > MaxDelay THEN MaxDelay ELSE c
  BY <1>1
<1>3. c \in Int
  BY DurationIs DEF Converted
<1>4. d \in Int /\ d <= MaxDelay
  BY <1>2, <1>3, DurationIs
<1>5. ASSUME ~Overflows(n) PROVE c = Num(n, r) \div Den(n)
  <2>1. /\ Num(n, r) \in Nat /\ Den(n) \in Nat \ {0} /\ Num(n, r) <= Num(n, Jitters - 1)
        /\ Num(n, Jitters - 1) \in Nat
    <3>1. Jitters - 1 \in 0 .. Jitters - 1
      BY BackoffAssumption
    <3> QED  BY <3>1, Fraction
  <2>2. /\ Truncated(Num(n, r), Den(n)) = Num(n, r) \div Den(n)
        /\ Truncated(Num(n, Jitters - 1), Den(n)) = Num(n, Jitters - 1) \div Den(n)
    BY <2>1 DEF Truncated
  <2>3. /\ Num(n, r) \div Den(n) \in Nat
        /\ Num(n, r) \div Den(n) <= Num(n, Jitters - 1) \div Den(n)
    <3>1. PICK x \in Nat, z \in Nat, y \in Nat \ {0} :
             x = Num(n, r) /\ z = Num(n, Jitters - 1) /\ y = Den(n) /\ x <= z
      BY <2>1
    <3>2. /\ x \div y \in Int /\ y * (x \div y) <= x
          /\ \A b \in Int : y * b <= x => b <= x \div y
          /\ \A b \in Int : y * b <= z => b <= z \div y
      BY Quotient
    <3>3. 0 <= x \div y
      <4>1. y * 0 <= x
        OBVIOUS
      <4> QED  BY <3>2, <4>1
    <3>4. y * (x \div y) <= z
      BY <3>1, <3>2
    <3>5. x \div y <= z \div y
      BY <3>2, <3>4
    <3> QED  BY <3>1, <3>2, <3>3, <3>5
  <2>4. Num(n, Jitters - 1) \div Den(n) \in Ints("int64")
    BY <1>5, <2>2 DEF Overflows
  <2>5. Num(n, r) \div Den(n) \in Ints("int64")
    BY <2>3, <2>4, DurationIs
  <2> QED  BY <2>2, <2>5 DEF Converted
<1> QED  BY <1>2, <1>4, <1>5

(* From the fourth attempt on the fraction outweighs the random part.      *)
LEMMA FractionGrows ==
  ASSUME NEW n \in Nat, n >= 2, NEW r \in 0 .. Jitters - 1, NEW s \in 0 .. Jitters - 1
  PROVE  /\ Num(n, r) \div Den(n) \in Nat
         /\ Num(n + 1, s) \div Den(n + 1) \in Nat
         /\ Num(n, r) \div Den(n) <= Num(n + 1, s) \div Den(n + 1)
<1>1. PICK x \in Nat, y \in Nat \ {0}, z \in Nat :
        x = Num(n, r) /\ y = Den(n) /\ z = Num(n + 1, s) /\ 2 * y = Den(n + 1) /\ 2 * x <= z
  <2>1. Num(n, r) \in Nat /\ Den(n) \in Nat \ {0} /\ Den(n + 1) = 2 * Den(n) /\ 2 * Num(n, r) <= Num(n + 1, s)
    BY Fraction
  <2>2. Num(n + 1, s) \in Nat
    BY Fraction, n + 1 \in Nat
  <2> QED  BY <2>1, <2>2
<1>2. /\ x \div y \in Int /\ y * (x \div y) <= x
      /\ \A c \in Int : y * c <= x => c <= x \div y
  BY Quotient
<1>3. z \div (2 * y) \in Int /\ \A c \in Int : (2 * y) * c <= z => c <= z \div (2 * y)
  <2>1. 2 * y \in Nat \ {0}
    OBVIOUS
  <2> QED  BY <2>1, Quotient
<1>4. 0 <= x \div y
  <2>1. y * 0 <= x
    OBVIOUS
  <2> QED  BY <1>2, <2>1
<1>5. x \div y <= z \div (2 * y)
  <2>1. PICK c \in Int : c = x \div y /\ y * c <= x
    BY <1>2
  <2>2. (2 * y) * c = 2 * (y * c) /\ y * c \in Int
    OBVIOUS
  <2>3. (2 * y) * c <= z
    BY <1>1, <2>1, <2>2
  <2> QED  BY <1>3, <2>1, <2>3
<1> QED  BY <1>1, <1>2, <1>3, <1>4, <1>5

LEMMA DurationKeeps ==
  ASSUME NEW n \in Nat, n >= 2, ~Overflows(n + 1)
  PROVE  ~Overflows(n)
<1> DEFINE top == Jitters - 1
<1>1. top \in 0 .. Jitters - 1
  BY BackoffAssumption
<1>2. /\ Num(n, top) \in Nat /\ Num(n + 1, top) \in Nat
  BY <1>1, Fraction, n + 1 \in Nat
<1>3. /\ Truncated(Num(n, top), Den(n)) = Num(n, top) \div Den(n)
      /\ Truncated(Num(n + 1, top), Den(n + 1)) = Num(n + 1, top) \div Den(n + 1)
  BY <1>2 DEF Truncated
<1>4. /\ Num(n, top) \div Den(n) \in Nat
      /\ Num(n, top) \div Den(n) <= Num(n + 1, top) \div Den(n + 1)
  BY <1>1, FractionGrows
<1>5. Num(n + 1, top) \div Den(n + 1) \in Ints("int64")
  BY <1>3 DEF Overflows
<1>6. Num(n, top) \div Den(n) \in Ints("int64")
  BY <1>4, <1>5, DurationIs
<1> QED  BY <1>3, <1>6 DEF Overflows

(* The last pause is one of the attempt before.                            *)
BackoffInv ==
  /\ attempt \in Nat
  /\ attempt > 0 => delay \in next(attempt - 1)

LEMMA BackoffInvInit == BackoffInit => BackoffInv
BY DEF BackoffInit, BackoffInv

LEMMA BackoffStep == BackoffInv /\ [Pause]_backoffVars => BackoffInv'
<1> SUFFICES ASSUME BackoffInv, [Pause]_backoffVars PROVE BackoffInv'
  OBVIOUS
<1>1. CASE Pause
  <2>1. attempt \in Nat /\ attempt' = attempt + 1 /\ delay' \in next(attempt)
    BY <1>1 DEF Pause, BackoffInv
  <2>2. attempt' - 1 = attempt /\ attempt' \in Nat
    BY <2>1
  <2>3. delay' \in next(attempt' - 1)
    BY <2>1, <2>2
  <2> QED  BY <2>2, <2>3 DEF BackoffInv
<1>2. CASE UNCHANGED backoffVars
  BY <1>2 DEF BackoffInv, backoffVars
<1> QED  BY <1>1, <1>2

LEMMA PauseGrows ==
  ASSUME BackoffInv, Pause
  PROVE  /\ delay' <= MaxDelay
         /\ ~Overflows(attempt) => /\ MinDelay <= delay'
                                   /\ attempt >= 3 => delay <= delay'
<1>1. PICK n \in Nat : n = attempt
  BY DEF BackoffInv
<1>2. delay' \in next(n)
  BY <1>1 DEF Pause
<1>3. delay' \in Int /\ delay' <= MaxDelay
  BY <1>2, PauseIs
<1>4. ASSUME ~Overflows(n) PROVE MinDelay <= delay'
  <2>1. PICK r \in 0 .. Jitters - 1 :
          delay' = IF Num(n, r) \div Den(n) > MaxDelay THEN MaxDelay ELSE Num(n, r) \div Den(n)
    BY <1>2, <1>4, PauseIs
  <2>2. MinDelay <= Num(n, r) \div Den(n)
    <3>1. Num(n, r) \in Int /\ Den(n) \in Nat \ {0} /\ Den(n) * MinDelay <= Num(n, r) /\ MinDelay \in Int
      BY Fraction, DurationIs
    <3> QED  BY <3>1, Quotient
  <2> QED  BY <2>1, <2>2, DurationIs
<1>5. ASSUME ~Overflows(n), n >= 3 PROVE delay <= delay'
  <2>1. PICK m \in Nat : n = m + 1 /\ m >= 2
    BY <1>5, n - 1 \in Nat
  <2>2. ~Overflows(m) /\ delay \in next(m)
    <3>1. attempt - 1 = m /\ attempt > 0
      BY <1>1, <2>1
    <3> QED  BY <1>5, <2>1, <3>1, DurationKeeps DEF BackoffInv
  <2>3. PICK r \in 0 .. Jitters - 1 :
          delay = IF Num(m, r) \div Den(m) > MaxDelay THEN MaxDelay ELSE Num(m, r) \div Den(m)
    BY <2>2, PauseIs
  <2>4. PICK s \in 0 .. Jitters - 1 :
          delay' = IF Num(m + 1, s) \div Den(m + 1) > MaxDelay THEN MaxDelay
                   ELSE Num(m + 1, s) \div Den(m + 1)
    BY <1>2, <1>5, <2>1, PauseIs
  <2>5. PICK x \in Nat, z \in Nat :
          x = Num(m, r) \div Den(m) /\ z = Num(m + 1, s) \div Den(m + 1) /\ x <= z
    BY <2>1, FractionGrows
  <2> QED  BY <2>3, <2>4, <2>5, DurationIs
<1> QED  BY <1>1, <1>3, <1>4, <1>5

(* No pause between two attempts is longer than methodMaxRetryDelay, and   *)
(* while the exponential is a Duration none is shorter than                *)
(* methodMinRetryDelay nor, from the fourth on, than the one before,       *)
(* whatever the delays, the fractions of rand.Float64 and the width of a   *)
(* Duration (util.go:65-81).                                               *)
THEOREM PausesDoGrow == BackoffSpec => PausesGrow
<1>1. BackoffInit => BackoffInv
  BY BackoffInvInit
<1>2. BackoffInv /\ [Pause]_backoffVars => BackoffInv'
  BY BackoffStep
<1>3. BackoffInv /\ [Pause]_backoffVars =>
        [attempt' = attempt + 1 =>
           /\ delay' <= MaxDelay
           /\ ~Overflows(attempt) => /\ MinDelay <= delay'
                                     /\ attempt >= 3 => delay <= delay']_backoffVars
  BY PauseGrows
<1> QED  BY <1>1, <1>2, <1>3, PTL DEF BackoffSpec, PausesGrow

=============================================================================
