------------------------------ MODULE HttpCall ------------------------------
(***************************************************************************)
(* A call over HTTP, from the program's function field to the handler and  *)
(* back (jsonrpc/client.go httpClient and rpcFunc, server.go ServeHTTP,    *)
(* handler.go handleReader and handle), composed with the POST that        *)
(* carries a reader parameter (ReaderParam) and with the permissions in    *)
(* front of the server and of its methods (Auth).                          *)
(*                                                                         *)
(* Every call is one POST with one answer.  The exchange can break at any  *)
(* point, because the connection does or because the context of the caller *)
(* ended; the request may have reached the server, or still reach it.      *)
(* What the call is about is its kind: function types, request and size.   *)
(* The function field of the client need not have the type of the method   *)
(* it names: a value stands for its JSON, which may not fit the field.     *)
(*                                                                         *)
(* Abstracted: JSON; status codes, which the client does not look at; the  *)
(* retry loop, whose condition (code 2) no answer of an RPCServer meets.   *)
(***************************************************************************)
EXTENDS Dispatch, Auth, ReaderParam

CONSTANTS
  Kinds,        \* what a call may be
  Type,         \* Type[k]: the type of the client's function field, as in Dispatch
  MethodType,   \* MethodType[k]: the type of the method it names, if the server has it
  Misfits,      \* Misfits[k]: values that do not unmarshal into the field's result type
  Req,          \* Req[k]: the request, as in Dispatch
  Size,         \* Size[k]: its length
  Unencodable,  \* kinds with a parameter that cannot be marshalled
  Methods,      \* the method table of the RPCServer
  Aliases,      \* its aliases
  Cred,         \* Cred[k]: the credentials, as in Auth
  Perm,         \* Perm[k]: the perm tag of the method, or NoPerm
  Verify,       \* what the program says of a token
  ValidPerms,   \* validPerms of the PermissionedProxy
  DefaultPerms, \* defaultPerms of the PermissionedProxy
  Returns,      \* what a handler may return: a set of [panics, val, err]
  MaxSizes,     \* values WithMaxRequestSize is given
  IntLimit      \* the first number an int64 cannot hold, 2^63, scaled down

NoKind == "none"
NoRet == [panics |-> FALSE, val |-> "none", err |-> FALSE]

(* The table holds what register made of the method.                       *)
Registered(k) ==
  LET name == Lookup(Methods, Aliases, Req[k].method)
  IN name # NoMethod => Methods[name] = rpcHandler(MethodType[k])

(* A Go function type that makeRpcFunc or register takes.                  *)
IsFunction(ft) ==
  ft.ins \in Seq(STRING) /\ ft.outs \in Seq(STRING) /\ ~processFuncOut(ft.outs).panics

ASSUME HttpAssumption ==
  /\ Unencodable \subseteq Kinds
  /\ ProxyAccepts(ValidPerms, {Perm[k] : k \in Kinds} \ {NoPerm})
  /\ IntLimit \in Nat \ {0}
  /\ MaxSizes \subseteq 0 .. IntLimit - 1
  /\ \A k \in Kinds : /\ Size[k] \in 0 .. IntLimit - 1 /\ Req[k].hasID
                      /\ IsFunction(Type[k]) /\ IsFunction(MethodType[k]) /\ Registered(k)
                      /\ Absent \notin Misfits[k]
  /\ \A ret \in Returns : ret.panics \in BOOLEAN /\ ret.err \in BOOLEAN /\ ret.val # Absent
  /\ NoRet \notin Returns

VARIABLES
  maxSize,  \* the server's maxRequestSize
  kind,     \* kind[c]: what the program called
  cpc,      \* where c is in handleRpcCall
  lost,     \* calls whose HTTP exchange broke
  spc,      \* where the request of c is on the server
  runs,     \* runs[c]: how often its handler was called
  ret,      \* ret[c]: what its handler returned
  reply,    \* reply[c]: the body of the HTTP response
  got       \* got[c]: what the program was given

callVars == <<maxSize, kind, cpc, lost, spc, runs, ret, reply, got>>
vars == <<maxSize, kind, cpc, lost, spc, runs, ret, reply, got, readerVars>>

Panicked == [panics |-> TRUE, val |-> Zero, err |-> FALSE]
NoGot == [val |-> "none", err |-> FALSE]

HasReader(ft) == \E i \in DOMAIN ft.ins : ft.ins[i] = "reader"
(* The last result of a Go function is its error, any other its value.     *)
HasError(ft) == ft.outs # <<>> /\ ft.outs[Len(ft.outs)] = "error"
HasValue(ft) == Len(ft.outs) > (IF HasError(ft) THEN 1 ELSE 0)

(* Does the method run, or does the proxy return in its place?             *)
Allowed(k) ==
  Perm[k] = NoPerm
    \/ (HasContext(MethodType[k]) /\ HasPerm(Cred[k], Verify, DefaultPerms, Perm[k]))
NotAllowed(k) == IF HasContext(MethodType[k]) THEN Denied(MethodType[k]) ELSE Panicked
RunOf(k) == IF Allowed(k) THEN 1 ELSE 0

Values == {Zero} \cup {r.val : r \in Returns}
Codes == {"none", "ok", "parse", "notFound", "invalidParams", "fatal", "method"}

TypeOK ==
  /\ maxSize \in MaxSizes
  /\ kind \in [Calls -> Kinds \cup {NoKind}]
  /\ cpc \in [Calls -> {"idle", "encoding", "posting", "done"}]
  /\ lost \subseteq Calls
  /\ spc \in [Calls -> {"none", "decoding", "running", "answered"}]
  /\ runs \in [Calls -> Nat]
  /\ ret \in [Calls -> Returns \cup {NoRet, Panicked} \cup {NotAllowed(k) : k \in Kinds}]
  /\ reply \in [Calls -> [code : Codes, result : Values \cup {Absent}]]
  /\ got \in [Calls -> [val : Values, err : BOOLEAN] \cup {NoGot}]
  /\ ReaderTypes

Init ==
  /\ maxSize \in MaxSizes
  /\ kind = [c \in Calls |-> NoKind]
  /\ cpc = [c \in Calls |-> "idle"] /\ lost = {}
  /\ spc = [c \in Calls |-> "none"]
  /\ runs = [c \in Calls |-> 0]
  /\ ret = [c \in Calls |-> NoRet]
  /\ reply = [c \in Calls |-> NoAnswer]
  /\ got = [c \in Calls |-> NoGot]
  /\ ReaderInit

-----------------------------------------------------------------------------
(* The client.                                                             *)

(* A result is unmarshalled into the value of the function field, if it    *)
(* has one; a channel, which no response over HTTP carries, stays nil.     *)
Unmarshals(ft, resp) ==
  LET val == processFuncOut(ft.outs).val
  IN val # 0 /\ ft.outs[val] # "chan" /\ resp.result # Absent

processResponse(ft, resp) ==
  [val |-> IF Unmarshals(ft, resp) THEN resp.result ELSE Zero,
   err |-> processFuncOut(ft.outs).err # 0 /\ resp.code # "ok"]

processError(ft) == [val |-> Zero, err |-> processFuncOut(ft.outs).err # 0]

(* The program calls; the encoder of a reader starts its goroutine.        *)
Invoke(c) ==
  /\ cpc[c] = "idle"
  /\ \E k \in Kinds :
       /\ kind' = [kind EXCEPT ![c] = k]
       /\ IF HasReader(Type[k]) THEN Encode(c) ELSE UNCHANGED readerVars
  /\ cpc' = [cpc EXCEPT ![c] = "encoding"]
  /\ UNCHANGED <<maxSize, lost, spc, runs, ret, reply, got>>

(* doRequest marshals the request and hands it to the HTTP client.         *)
Post(c) ==
  /\ cpc[c] = "encoding"
  /\ IF kind[c] \in Unencodable
       THEN /\ cpc' = [cpc EXCEPT ![c] = "done"]
            /\ got' = [got EXCEPT ![c] = processError(Type[kind[c]])]
       ELSE /\ cpc' = [cpc EXCEPT ![c] = "posting"]
            /\ UNCHANGED got
  /\ UNCHANGED <<maxSize, kind, lost, spc, runs, ret, reply, readerVars>>

(* Do returns an error: the connection broke or the context ended.         *)
Break(c) ==
  /\ cpc[c] = "posting"
  /\ cpc' = [cpc EXCEPT ![c] = "done"]
  /\ lost' = lost \cup {c}
  /\ got' = [got EXCEPT ![c] = processError(Type[kind[c]])]
  /\ UNCHANGED <<maxSize, kind, spc, runs, ret, reply, readerVars>>

Receive_Unchecked(c) ==  \* Mutant: a result that does not unmarshal is only logged.
  /\ cpc[c] = "posting" /\ spc[c] = "answered"
  /\ cpc' = [cpc EXCEPT ![c] = "done"]
  /\ got' = [got EXCEPT ![c] =
       IF reply[c] = NoAnswer
         THEN processError(Type[kind[c]])
         ELSE processResponse(Type[kind[c]], reply[c])]
  /\ UNCHANGED <<maxSize, kind, lost, spc, runs, ret, reply, readerVars>>

(* The response is decoded, then its result; an empty body does not decode.*)
Receive(c) ==
  /\ cpc[c] = "posting" /\ spc[c] = "answered"
  /\ cpc' = [cpc EXCEPT ![c] = "done"]
  /\ LET ft == Type[kind[c]]
         undecoded == Unmarshals(ft, reply[c]) /\ reply[c].result \in Misfits[kind[c]]
     IN got' = [got EXCEPT ![c] =
          IF reply[c] = NoAnswer \/ undecoded
            THEN processError(ft)
            ELSE processResponse(ft, reply[c])]
  /\ UNCHANGED <<maxSize, kind, lost, spc, runs, ret, reply, readerVars>>

-----------------------------------------------------------------------------
(* The server.                                                             *)

(* A request arrives at most once: net/http does not repeat a POST.  It    *)
(* may arrive after the client has given up.                               *)
Arrives_Resent(c) ==     \* Mutant: a call whose exchange broke is sent again.
  \/ cpc[c] = "posting" /\ spc[c] = "none"
  \/ c \in lost /\ spc[c] \in {"none", "answered"}

Arrives(c) ==
  /\ cpc[c] = "posting" \/ c \in lost
  /\ spc[c] = "none"

(* auth.Handler, handleReader and the first half of handle.  An error      *)
(* before the request is decoded is answered like one of a notification:   *)
(* not at all; neither does a 401 have a body.                             *)
Arrive(c) ==
  LET k == kind[c]
      known == ~Rejected(Cred[k], Verify) /\ Accepts(Size[k], maxSize, IntLimit)
      no == IF known THEN Refusal(Methods, Aliases, Req[k], FALSE) ELSE "parse"
  IN /\ Arrives(c)
     /\ IF no # "none"
          THEN /\ spc' = [spc EXCEPT ![c] = "answered"]
               /\ reply' = [reply EXCEPT ![c] =
                    IF known THEN rpcError(Req[k], no) ELSE NoAnswer]
               /\ UNCHANGED <<runs, readerVars>>
        ELSE IF HasReader(MethodType[k])
          THEN spc' = [spc EXCEPT ![c] = "decoding"] /\ Decode(c) /\ UNCHANGED <<runs, reply>>
        ELSE /\ spc' = [spc EXCEPT ![c] = "running"]
             /\ runs' = [runs EXCEPT ![c] = @ + RunOf(k)]
             /\ UNCHANGED <<reply, readerVars>>
     /\ UNCHANGED <<maxSize, kind, cpc, lost, ret, got>>

(* The decoder has the body, so the handler is called.                     *)
Hand(c) ==
  /\ Meet(c)
  /\ spc' = [spc EXCEPT ![c] = "running"]
  /\ runs' = [runs EXCEPT ![c] = @ + RunOf(kind[c])]
  /\ UNCHANGED <<maxSize, kind, cpc, lost, ret, reply, got>>

(* The decoder gave up since the client did (its context was noticed).     *)
GiveUp(c) ==
  /\ c \in lost
  /\ DecodeGivesUp(c)
  /\ spc' = [spc EXCEPT ![c] = "answered"]
  /\ reply' = [reply EXCEPT ![c] = rpcError(Req[kind[c]], "parse")]
  /\ UNCHANGED <<maxSize, kind, cpc, lost, runs, ret, got>>

(* doCall returns with r.  The body of an answer that json.Marshal refuses *)
(* is empty, with status 200.                                              *)
Respond(c, r) ==
  /\ spc' = [spc EXCEPT ![c] = "answered"]
  /\ ret' = [ret EXCEPT ![c] = r]
  /\ LET h == Methods[Lookup(Methods, Aliases, Req[kind[c]].method)]
         answer == Answer(h, Req[kind[c]], r)
     IN reply' = [reply EXCEPT ![c] = IF Marshals(answer) THEN answer ELSE NoAnswer]
  /\ UNCHANGED <<maxSize, kind, cpc, lost, runs, got>>

Return(c) ==
  /\ spc[c] = "running"
  /\ IF Allowed(kind[c])
       THEN \E r \in Returns : (r.err => HasError(MethodType[kind[c]])) /\ Respond(c, r)
       ELSE Respond(c, NotAllowed(kind[c]))
  /\ UNCHANGED readerVars

(* The handler reads its parameter to the end, or closes it; doing either  *)
(* after the other, or twice, panics.                                      *)
UseReader(c) ==
  /\ spc[c] = "running" /\ dec[c] = "got" /\ Allowed(kind[c])
  /\ IF ClosesTwice(c)
       THEN Respond(c, Panicked) /\ UNCHANGED readerVars
       ELSE /\ ReadEnds(c) \/ CloseReader(c)
            /\ UNCHANGED callVars

(* The goroutine of the encoder and the handler of its POST.               *)
Transfer(c) ==
  /\ PushArrives(c) \/ PostBreaks(c) \/ PushCtxEnds(c) \/ PushGivesUp(c) \/ PushDone(c)
  /\ UNCHANGED callVars

Next ==
  \E c \in Calls :
    \/ Invoke(c) \/ Post(c) \/ Break(c) \/ Receive(c)
    \/ Arrive(c) \/ Hand(c) \/ GiveUp(c) \/ Return(c) \/ UseReader(c)
    \/ Transfer(c)

Spec == Init /\ [][Next]_vars

(* The goroutines that have what they wait for go on.  Nothing is assumed  *)
(* of the network, of handlers, or of net/http noticing a lost client.     *)
Fairness ==
  \A c \in Calls : WF_vars(Hand(c)) /\ WF_vars(PushDone(c) /\ UNCHANGED callVars)

FairSpec == Spec /\ Fairness

-----------------------------------------------------------------------------
(* What the caller of the method would see without a network: the error    *)
(* alone when there is one, as JSON-RPC has no room for both, an error for *)
(* a panic, and the value if the caller has a place for it.  A value that  *)
(* has no JSON, or whose JSON is not the caller's, is an error as well.    *)
Local(k, r) ==
  LET failed == r.panics \/ (r.err /\ HasError(MethodType[k]))
      given == HasValue(MethodType[k]) /\ ~failed
      taken == HasValue(Type[k]) /\ Type[k].outs[1] # "chan"
      spoilt == given /\ (r.val = Odd \/ (taken /\ r.val \in Misfits[k]))
  IN [val |-> IF given /\ taken /\ ~spoilt THEN r.val ELSE Zero,
      err |-> (failed \/ spoilt) /\ HasError(Type[k])]

(* A call that got its response returns what the handler returned, result  *)
(* and error in their places, also when method and function field differ   *)
(* in their types; every other call returns an error, if the field has     *)
(* one: when the request was too long, refused or lost (handler.go:        *)
(* 113-156, 258-328, client.go:134-191, 434-464, 527-565, util.go:37-60,   *)
(* rpc_test.go:303-363).                                                   *)
CallLikeLocal ==
  \A c \in Calls : cpc[c] = "done" =>
    IF c \notin lost /\ ret[c] # NoRet
      THEN got[c] = Local(kind[c], ret[c])
      ELSE HasError(Type[kind[c]]) => got[c].err

(* A method behind a PermissionedProxy runs only for a request with a      *)
(* token that verifies and has the permission, or, if the default has it,  *)
(* for one without any token: never for one whose token was refused        *)
(* (auth/handler.go:19-48, auth/auth.go:19-79).                            *)
RunsPermitted ==
  \A c \in Calls :
    LET cred == Cred[kind[c]]
    IN (runs[c] > 0 /\ Perm[kind[c]] # NoPerm) =>
         IF cred.header = "none" /\ ~cred.form
           THEN Perm[kind[c]] \in DefaultPerms
           ELSE /\ cred.header # "other" /\ Verify[cred.token] # Invalid
                /\ Perm[kind[c]] \in Verify[cred.token]

(* A request is turned away for its length only when it is longer than the *)
(* limit, unless the limit is the largest int64, where limit + 1 wraps     *)
(* (handler.go:134-149).                                                   *)
WithinLimit ==
  \A c \in Calls :
    (/\ spc[c] = "answered" /\ ret[c] = NoRet /\ reply[c] = NoAnswer
     /\ ~Rejected(Cred[kind[c]], Verify) /\ maxSize < IntLimit - 1)
      => Size[kind[c]] > maxSize

(* The handler of the POST does not return, which would close the body,    *)
(* while the method may still read it: only a broken connection cuts a     *)
(* body short (httpio/reader.go:56-69, 96-113).                            *)
BodyHeld == \A c \in Calls : use[c] = "cut" => c \in broken

(* A push and a decoder of the same uuid find each other, whichever came   *)
(* first (httpio/reader.go:84-94, 126-139).                                *)
Rendezvous ==
  \A c \in Calls :
    (push[c] = "offering" /\ dec[c] = "waiting")
      ~> (dec[c] = "got" \/ dec[c] = "failed" \/ push[c] = "failed")

(* Once the method has read the body to its end or closed it, the client's *)
(* goroutine ends (httpio/reader.go:37-50, 62-75, 104-113).                *)
ReadReleasesPost ==
  \A c \in Calls :
    use[c] # "no" ~> post[c] = "ended"

(* Over HTTP the promise of RpcCall holds without any repetition, also for *)
(* methods tagged for retrying: a request runs at most once, and only a    *)
(* request that ran returns its reply (client.go:134-191, 527-560).        *)
Status(c) ==
  IF cpc[c] = "idle" THEN "idle"
  ELSE IF cpc[c] # "done" THEN "pending"
  ELSE IF c \notin lost /\ ret[c] # NoRet /\ runs[c] > 0 THEN "reply" ELSE "closed"

Call == INSTANCE RpcCall WITH
  RetryCalls <- {},
  MaxAttempts <- 1,
  status <- [c \in Calls |-> Status(c)],
  sent <- [c \in Calls |-> IF cpc[c] = "idle" THEN 0 ELSE 1],
  runs <- [c \in Calls |-> [a \in 1 .. 1 |-> runs[c]]]

RefinesRpcCall == Call!Spec

=============================================================================
