---------------------------- MODULE HttpCallProofs ----------------------------
(***************************************************************************)
(* Proofs about HttpCall, for any calls, methods, permissions and limits.  *)
(*                                                                         *)
(* No action of a call touches another call, so the invariant is CallInv   *)
(* of every call: where the client and the server can be at the same time  *)
(* (Phase), which requests get past the checks (Admitted), what an answer  *)
(* says of the handler (Replied), and who holds the body of a reader       *)
(* (Body).  CallLikeLocal joins them: the answer a call receives is that   *)
(* of its own handler, and no handler returns after it.                    *)
(***************************************************************************)
EXTENDS HttpCall, SequenceTheorems, TLAPS

-----------------------------------------------------------------------------
(* What the functions of the model give                                    *)

(* The client and the server agree on where results and errors are.        *)
LEMMA Results ==
  ASSUME NEW ft, IsFunction(ft)
  PROVE  /\ processFuncOut(ft.outs).err # 0 <=> HasError(ft)
         /\ processFuncOut(ft.outs).val # 0 <=> HasValue(ft)
         /\ processFuncOut(ft.outs).val \in {0, 1}
         /\ rpcHandler(ft).errOut = processFuncOut(ft.outs).err
         /\ rpcHandler(ft).valOut = processFuncOut(ft.outs).val
<1> DEFINE outs == ft.outs
<1>1. outs \in Seq(STRING) /\ ~processFuncOut(outs).panics
  BY DEF IsFunction
<1> HIDE DEF outs
<1>2. Len(outs) \in 0 .. 2 /\ (Len(outs) = 2 => outs[2] = "error")
  <2>1. processFuncOut(outs).panics = (Len(outs) > 2 \/ (Len(outs) = 2 /\ outs[2] # "error"))
    BY Zenon DEF processFuncOut
  <2>2. ~(Len(outs) > 2 \/ (Len(outs) = 2 /\ outs[2] # "error"))
    BY <1>1, <2>1, Zenon
  <2> DEFINE n == Len(outs)
  <2>3. n \in Nat
    BY <1>1
  <2>4. ~(n > 2) /\ (n = 2 => outs[2] = "error")
    BY <2>2
  <2> HIDE DEF n
  <2>5. n \in 0 .. 2
    BY <2>3, <2>4
  <2> QED  BY <2>4, <2>5 DEF n
<1>3. outs = <<>> <=> Len(outs) = 0
  BY <1>1
<1>4. HasError(ft) <=> Len(outs) > 0 /\ outs[Len(outs)] = "error"
  BY <1>2, <1>3 DEF HasError, outs
<1>5. HasValue(ft) <=> Len(outs) > (IF HasError(ft) THEN 1 ELSE 0)
  BY DEF HasValue, outs
<1>6. processFuncOut(outs).err # 0 <=> HasError(ft)
  BY <1>2, <1>4 DEF processFuncOut
<1>7. processFuncOut(outs).val # 0 <=> HasValue(ft)
  BY <1>2, <1>4, <1>5 DEF processFuncOut
<1>8. processFuncOut(outs).val \in {0, 1}
  BY DEF processFuncOut
<1>9. /\ rpcHandler(ft).errOut = processFuncOut(outs).err
      /\ rpcHandler(ft).valOut = processFuncOut(outs).val
  BY DEF rpcHandler, outs
<1> QED  BY <1>6, <1>7, <1>8, <1>9 DEF outs

(* What a handler, or the proxy in its place, may return.                  *)
Rets == Returns \cup {Panicked} \cup {NotAllowed(k) : k \in Kinds}

LEMMA RetTypes ==
  ASSUME NEW r \in Rets
  PROVE  /\ r.panics \in BOOLEAN /\ r.err \in BOOLEAN /\ r # NoRet
         /\ r.val \in Values /\ r.val # Absent
<1>1. CASE r \in Returns
  BY <1>1, HttpAssumption DEF Values
<1>2. CASE r = Panicked
  <2>1. r.panics = TRUE /\ r.err = FALSE /\ r.val = Zero /\ NoRet.panics = FALSE
    BY <1>2 DEF Panicked, NoRet
  <2> QED  BY <2>1 DEF Values, Zero, Absent
<1>3. ASSUME NEW k \in Kinds, r = Denied(MethodType[k])
      PROVE  /\ r.panics \in BOOLEAN /\ r.err \in BOOLEAN /\ r # NoRet
             /\ r.val \in Values /\ r.val # Absent
  <2>1. /\ r.panics <=> ~(Len(MethodType[k].outs) = 2 \/ MethodType[k].outs = <<"error">>)
        /\ r.err <=> Len(MethodType[k].outs) = 2 \/ MethodType[k].outs = <<"error">>
        /\ r.panics \in BOOLEAN /\ r.err \in BOOLEAN
        /\ r.val = Zero
    BY <1>3 DEF Denied, Zero
  <2>2. NoRet.panics = FALSE /\ NoRet.err = FALSE
    BY DEF NoRet
  <2> QED  BY <2>1, <2>2 DEF Values, Zero, Absent
<1> QED  BY <1>1, <1>2, <1>3 DEF Rets, NotAllowed

(* The answer to a request tells what its handler returned.  Replies are   *)
(* what the body of an HTTP response may hold.                             *)
Replies == [code : Codes, result : Values \cup {Absent}]

LEMMA Answers ==
  ASSUME NEW k \in Kinds, NEW r \in Rets
  PROVE  LET a == Answer(rpcHandler(MethodType[k]), Req[k], r)
             failed == r.panics \/ (r.err /\ HasError(MethodType[k]))
         IN /\ a \in Replies /\ a # NoAnswer
            /\ a.code # "ok" <=> failed
            /\ a.result = IF HasValue(MethodType[k]) /\ ~failed THEN r.val ELSE Absent
<1> DEFINE h == rpcHandler(MethodType[k])
           a == Answer(h, Req[k], r)
           failed == r.panics \/ (r.err /\ HasError(MethodType[k]))
<1>1. /\ r.panics \in BOOLEAN /\ r.err \in BOOLEAN /\ r.val \in Values
      /\ Req[k].hasID
  BY RetTypes, HttpAssumption
<1>2. (h.errOut # 0 <=> HasError(MethodType[k])) /\ (h.valOut # 0 <=> HasValue(MethodType[k]))
  BY Results, HttpAssumption
<1> HIDE DEF h
<1>3. a = CASE r.panics -> [code |-> "fatal", result |-> Absent]
            [] ~r.panics /\ h.errOut # 0 /\ r.err -> [code |-> "method", result |-> Absent]
            [] OTHER -> [code |-> "ok", result |-> IF h.valOut = 0 THEN Absent ELSE r.val]
  BY <1>1 DEF Answer, rpcError
<1>4. /\ a.result = IF HasValue(MethodType[k]) /\ ~failed THEN r.val ELSE Absent
      /\ a.code # "ok" <=> failed
      /\ a = [code |-> a.code, result |-> a.result]
      /\ a.code \in {"fatal", "method", "ok"}
  <2>1. CASE r.panics
    BY <1>3, <2>1
  <2>2. CASE ~r.panics /\ h.errOut # 0 /\ r.err
    BY <1>2, <1>3, <2>2
  <2>3. CASE ~r.panics /\ ~(h.errOut # 0 /\ r.err)
    BY <1>2, <1>3, <2>3
  <2> QED  BY <2>1, <2>2, <2>3
<1> HIDE DEF a
<1>5. a \in Replies
  BY <1>1, <1>4 DEF Codes, Replies
<1>6. a # NoAnswer
  BY <1>4 DEF NoAnswer
<1> QED  BY <1>4, <1>5, <1>6 DEF a, h

(* What the client makes of the body that the answer became.               *)
Undecoded(k, resp) == Unmarshals(Type[k], resp) /\ resp.result \in Misfits[k]
Understood(k, resp) ==
  IF resp = NoAnswer \/ Undecoded(k, resp)
    THEN processError(Type[k]) ELSE processResponse(Type[k], resp)
Written(resp) == IF Marshals(resp) THEN resp ELSE NoAnswer

LEMMA Understands ==
  ASSUME NEW k \in Kinds, NEW r \in Rets
  PROVE  Understood(k, Written(Answer(rpcHandler(MethodType[k]), Req[k], r))) = Local(k, r)
<1> DEFINE a == Answer(rpcHandler(MethodType[k]), Req[k], r)
           failed == r.panics \/ (r.err /\ HasError(MethodType[k]))
           given == HasValue(MethodType[k]) /\ ~failed
           taken == HasValue(Type[k]) /\ Type[k].outs[1] # "chan"
           spoilt == given /\ (r.val = Odd \/ (taken /\ r.val \in Misfits[k]))
           hasErr == processFuncOut(Type[k].outs).err # 0
<1>1. /\ a # NoAnswer /\ (a.code # "ok" <=> failed)
      /\ a.result = IF given THEN r.val ELSE Absent
  BY Answers
<1>2. Local(k, r) = [val |-> IF given /\ taken /\ ~spoilt THEN r.val ELSE Zero,
                     err |-> (failed \/ spoilt) /\ HasError(Type[k])]
  BY DEF Local
<1>3. hasErr <=> HasError(Type[k])
  BY Results, HttpAssumption
<1>4. /\ processError(Type[k]) = [val |-> Zero, err |-> hasErr]
      /\ processResponse(Type[k], a) =
           [val |-> IF Unmarshals(Type[k], a) THEN a.result ELSE Zero,
            err |-> hasErr /\ a.code # "ok"]
  BY DEF processError, processResponse
<1>5. /\ Unmarshals(Type[k], a) <=> taken /\ a.result # Absent
      /\ ~Unmarshals(Type[k], NoAnswer)
  BY Results, HttpAssumption DEF Unmarshals, NoAnswer
<1>6. r.val # Absent /\ Absent # Odd /\ Absent \notin Misfits[k]
  BY RetTypes, HttpAssumption DEF Absent, Odd
<1>7. Written(a) = IF given /\ r.val = Odd THEN NoAnswer ELSE a
  BY <1>1, <1>6 DEF Written, Marshals
<1> HIDE DEF a, failed, taken, hasErr
<1>8. Undecoded(k, a) <=> given /\ taken /\ r.val \in Misfits[k]
  BY <1>1, <1>5, <1>6 DEF Undecoded
<1>9. CASE spoilt
  <2>1. Understood(k, Written(a)) = processError(Type[k])
    BY <1>7, <1>8, <1>9 DEF Understood
  <2>2. Local(k, r) = [val |-> Zero, err |-> HasError(Type[k])]
    <3>1. ((failed \/ spoilt) /\ HasError(Type[k])) = HasError(Type[k])
      BY <1>9 DEF HasError
    <3> HIDE DEF given, spoilt
    <3> QED  BY <1>2, <1>9, <3>1
  <2>3. hasErr = HasError(Type[k])
    BY <1>3 DEF hasErr, HasError
  <2> QED  BY <1>4, <2>1, <2>2, <2>3 DEF a
<1>10. CASE ~spoilt
  <2>1. Understood(k, Written(a)) = processResponse(Type[k], a)
    BY <1>1, <1>7, <1>8, <1>10 DEF Understood
  <2>2. (hasErr /\ a.code # "ok") = ((failed \/ spoilt) /\ HasError(Type[k]))
    BY <1>1, <1>3, <1>10 DEF hasErr, HasError
  <2>3. (IF Unmarshals(Type[k], a) THEN a.result ELSE Zero)
          = IF given /\ taken /\ ~spoilt THEN r.val ELSE Zero
    BY <1>1, <1>5, <1>6, <1>10
  <2> HIDE DEF given, spoilt
  <2> QED  BY <1>2, <1>4, <2>1, <2>2, <2>3 DEF a
<1> QED  BY <1>9, <1>10

(* A refusal, and an error made by the client.                             *)
LEMMA Errors ==
  ASSUME NEW k \in Kinds
  PROVE  /\ processError(Type[k]) \in [val : Values, err : BOOLEAN]
         /\ HasError(Type[k]) => processError(Type[k]).err
         /\ \A code \in Codes \ {"none"} :
              /\ rpcError(Req[k], code) \in Replies
              /\ rpcError(Req[k], code) # NoAnswer
              /\ rpcError(Req[k], code).code = code
         /\ \A a \in Replies :
              /\ Understood(k, a) \in [val : Values, err : BOOLEAN]
              /\ HasError(Type[k]) /\ (a = NoAnswer \/ a.code # "ok") => Understood(k, a).err
<1>1. /\ processError(Type[k]) \in [val : Values, err : BOOLEAN]
      /\ HasError(Type[k]) => processError(Type[k]).err
  BY Results, HttpAssumption DEF processError, Values
<1>2. ASSUME NEW code \in Codes \ {"none"}
      PROVE  /\ rpcError(Req[k], code) \in Replies
             /\ rpcError(Req[k], code) # NoAnswer
             /\ rpcError(Req[k], code).code = code
  <2>1. rpcError(Req[k], code) = [code |-> code, result |-> Absent]
    BY HttpAssumption DEF rpcError
  <2>2. NoAnswer.code = "none"
    BY DEF NoAnswer
  <2>3. rpcError(Req[k], code).code = code
    BY <2>1
  <2>4. rpcError(Req[k], code) \in Replies
    BY <2>1 DEF Replies
  <2> QED  BY <2>2, <2>3, <2>4
<1>3. ASSUME NEW a \in Replies
      PROVE  /\ Understood(k, a) \in [val : Values, err : BOOLEAN]
             /\ HasError(Type[k]) /\ (a = NoAnswer \/ a.code # "ok") => Understood(k, a).err
  <2>1. /\ processResponse(Type[k], a) \in [val : Values, err : BOOLEAN]
        /\ HasError(Type[k]) /\ a.code # "ok" => processResponse(Type[k], a).err
    BY Results, HttpAssumption DEF processResponse, Replies, Values, Unmarshals
  <2> QED  BY <1>1, <2>1 DEF Understood
<1> QED  BY <1>1, <1>2, <1>3

LEMMA NoAnswerType == NoAnswer \in Replies
BY DEF NoAnswer, Codes, Replies

(* Why handle() refuses a request is one of three codes.                   *)
LEMMA Refusals ==
  \A req : Refusal(Methods, Aliases, req, FALSE) \in {"none", "notFound", "invalidParams", "parse"}
BY DEF Refusal

(* A request that is not longer than the limit is not turned away for its  *)
(* length, unless the limit is the largest number.                         *)
LEMMA WithinIsAccepted ==
  ASSUME NEW size \in 0 .. IntLimit - 1, NEW max \in 0 .. IntLimit - 1,
         max < IntLimit - 1, size <= max
  PROVE  Accepts(size, max, IntLimit)
<1>1. IntLimit \in Nat \ {0}
  BY HttpAssumption
<1>2. (max + 1 + IntLimit) % (2 * IntLimit) = max + 1 + IntLimit
  BY <1>1
<1>3. WrapInt(max + 1, IntLimit) = max + 1
  BY <1>1, <1>2 DEF WrapInt
<1> QED  BY <1>1, <1>3 DEF Accepts, BytesRead

-----------------------------------------------------------------------------
(* The invariant                                                           *)

(* Where the two ends of c can be at the same time.                        *)
Phase(c) ==
  /\ cpc[c] # "idle" => kind[c] \in Kinds
  /\ spc[c] # "none" => cpc[c] \in {"posting", "done"}
  /\ c \in lost => cpc[c] = "done"
  /\ cpc[c] = "done" /\ c \notin lost => spc[c] \in {"none", "answered"}
  /\ spc[c] \in {"none", "decoding"} => runs[c] = 0
  /\ spc[c] \in {"none", "decoding", "running"} => ret[c] = NoRet
  /\ dec[c] = "waiting" => spc[c] = "decoding"

(* What got past the checks of handle() and of the permissions.            *)
Admitted(c) ==
  /\ spc[c] \in {"decoding", "running"} =>
       Refusal(Methods, Aliases, Req[kind[c]], FALSE) = "none"
  /\ spc[c] = "decoding" \/ runs[c] > 0 => ~Rejected(Cred[kind[c]], Verify)
  /\ runs[c] > 0 => Allowed(kind[c])

(* What an answer says of the handler.                                     *)
Replied(c) == spc[c] = "answered" =>
  /\ ret[c] # NoRet => reply[c] = Written(Answer(rpcHandler(MethodType[kind[c]]), Req[kind[c]], ret[c]))
  /\ ret[c] = NoRet /\ reply[c] # NoAnswer => reply[c].code # "ok"
  /\ ret[c] = NoRet /\ reply[c] = NoAnswer =>
       \/ Rejected(Cred[kind[c]], Verify)
       \/ ~Accepts(Size[kind[c]], maxSize, IntLimit)

(* CallLikeLocal, of one call.                                             *)
Given(c) == cpc[c] = "done" =>
  IF c \notin lost /\ ret[c] # NoRet
    THEN got[c] = Local(kind[c], ret[c])
    ELSE HasError(Type[kind[c]]) => got[c].err

(* The handler of the POST waits as long as the body may be read.          *)
Body(c) ==
  /\ dec[c] = "got" /\ waitClosed[c] = 0 => push[c] = "waiting" \/ c \in broken
  /\ use[c] = "cut" => c \in broken

CallInv(c) == Phase(c) /\ Admitted(c) /\ Replied(c) /\ Given(c) /\ Body(c)

HttpInv == TypeOK /\ \A c \in Calls : CallInv(c)

LEMMA HttpInit == Init => HttpInv
<1> SUFFICES ASSUME Init PROVE HttpInv
  OBVIOUS
<1>1. NoAnswer \in Replies
  BY NoAnswerType
<1>2. ReaderTypes
  BY DEF Init, ReaderInit, ReaderTypes, Sides
<1>3. TypeOK
  BY <1>1, <1>2 DEF Init, TypeOK, Replies
<1>4. ASSUME NEW c \in Calls PROVE CallInv(c)
  <2>1. /\ cpc[c] = "idle" /\ spc[c] = "none" /\ runs[c] = 0 /\ ret[c] = NoRet
        /\ dec[c] = "none" /\ use[c] = "no" /\ c \notin lost
    BY DEF Init, ReaderInit
  <2>2. Phase(c) /\ Admitted(c)
    BY <2>1 DEF Phase, Admitted
  <2>3. Replied(c) /\ Given(c) /\ Body(c)
    BY <2>1 DEF Replied, Given, Body
  <2> QED  BY <2>2, <2>3 DEF CallInv
<1> QED  BY <1>3, <1>4 DEF HttpInv

-----------------------------------------------------------------------------
(* A step of a call leaves the others alone                                *)

Step(c) ==
  \/ Invoke(c) \/ Post(c) \/ Break(c) \/ Receive(c)
  \/ Arrive(c) \/ Hand(c) \/ GiveUp(c) \/ Return(c) \/ UseReader(c)
  \/ Transfer(c)

Same(d) ==
  /\ kind'[d] = kind[d] /\ cpc'[d] = cpc[d] /\ spc'[d] = spc[d] /\ runs'[d] = runs[d]
  /\ ret'[d] = ret[d] /\ reply'[d] = reply[d] /\ got'[d] = got[d]
  /\ push'[d] = push[d] /\ dec'[d] = dec[d] /\ waitClosed'[d] = waitClosed[d]
  /\ use'[d] = use[d]
  /\ (d \in lost') <=> (d \in lost)
  /\ (d \in broken') <=> (d \in broken)

(* The ways a request can be received: it is turned away unread, refused,  *)
(* handed to the decoder of its reader, or run.                            *)
Known(c) == ~Rejected(Cred[kind[c]], Verify) /\ Accepts(Size[kind[c]], maxSize, IntLimit)

TurnedAway(c) ==
  /\ ~Known(c)
  /\ spc' = [spc EXCEPT ![c] = "answered"]
  /\ reply' = [reply EXCEPT ![c] = NoAnswer]
  /\ UNCHANGED <<runs, readerVars>>

RefusedWith(c, code) ==
  /\ spc' = [spc EXCEPT ![c] = "answered"]
  /\ reply' = [reply EXCEPT ![c] = rpcError(Req[kind[c]], code)]
  /\ UNCHANGED <<runs, readerVars>>

Accepted(c) ==
  /\ Known(c) /\ Refusal(Methods, Aliases, Req[kind[c]], FALSE) = "none"
  /\ UNCHANGED reply
  /\ \/ /\ spc' = [spc EXCEPT ![c] = "decoding"]
        /\ Decode(c)
        /\ UNCHANGED runs
     \/ /\ spc' = [spc EXCEPT ![c] = "running"]
        /\ runs' = [runs EXCEPT ![c] = @ + RunOf(kind[c])]
        /\ UNCHANGED readerVars

LEMMA ArriveCases ==
  ASSUME NEW c \in Calls, Arrive(c)
  PROVE  /\ Arrives(c) /\ UNCHANGED <<maxSize, kind, cpc, lost, ret, got>>
         /\ \/ TurnedAway(c)
            \/ \E code \in {"notFound", "invalidParams", "parse"} : RefusedWith(c, code)
            \/ Accepted(c)
<1> DEFINE no == Refusal(Methods, Aliases, Req[kind[c]], FALSE)
<1>1. Arrives(c) /\ UNCHANGED <<maxSize, kind, cpc, lost, ret, got>>
  BY DEF Arrive
<1>2. CASE ~Known(c)
  BY <1>2 DEF Arrive, Known, TurnedAway
<1>3. CASE Known(c) /\ no # "none"
  <2>1. RefusedWith(c, no)
    BY <1>3 DEF Arrive, Known, RefusedWith
  <2>2. no \in {"notFound", "invalidParams", "parse"}
    BY <1>3, Refusals
  <2> QED  BY <1>1, <2>1, <2>2
<1>4. CASE Known(c) /\ no = "none"
  BY <1>4 DEF Arrive, Known, Accepted
<1> QED  BY <1>2, <1>3, <1>4

LEMMA OthersSame ==
  ASSUME TypeOK, NEW c \in Calls, Step(c), NEW d \in Calls \ {c}
  PROVE  Same(d) /\ maxSize' = maxSize
<1> USE DEF TypeOK, ReaderTypes, Same, readerVars
<1>1. CASE Invoke(c)
  BY <1>1 DEF Invoke, Encode
<1>2. CASE Post(c)
  BY <1>2 DEF Post
<1>3. CASE Break(c)
  BY <1>3 DEF Break
<1>4. CASE Receive(c)
  BY <1>4 DEF Receive
<1>5. CASE Arrive(c)
  <2>1. UNCHANGED <<maxSize, kind, cpc, lost, ret, got>>
    BY <1>5, ArriveCases
  <2>2. CASE TurnedAway(c)
    BY <2>1, <2>2 DEF TurnedAway
  <2>3. ASSUME NEW code, RefusedWith(c, code) PROVE Same(d) /\ maxSize' = maxSize
    BY <2>1, <2>3 DEF RefusedWith
  <2>4. CASE Accepted(c)
    BY <2>1, <2>4 DEF Accepted, Decode
  <2> QED  BY <1>5, <2>2, <2>3, <2>4, ArriveCases
<1>6. CASE Hand(c)
  BY <1>6 DEF Hand, Meet
<1>7. CASE GiveUp(c)
  BY <1>7 DEF GiveUp, DecodeGivesUp
<1>8. CASE Return(c)
  BY <1>8 DEF Return, Respond
<1>9. CASE UseReader(c)
  BY <1>9 DEF UseReader, Respond, ReadEnds, CloseReader, callVars
<1>10. CASE Transfer(c)
  BY <1>10 DEF Transfer, PushArrives, PostBreaks, PushCtxEnds, PushGivesUp, PushDone, callVars
<1> QED  BY <1>1, <1>2, <1>3, <1>4, <1>5, <1>6, <1>7, <1>8, <1>9, <1>10 DEF Step

LEMMA OthersInv ==
  ASSUME HttpInv, NEW d \in Calls, Same(d), maxSize' = maxSize
  PROVE  CallInv(d)'
<1>1. Phase(d)' /\ Admitted(d)'
  BY DEF HttpInv, CallInv, Phase, Admitted, Same
<1>2. Replied(d)' /\ Body(d)'
  BY DEF HttpInv, CallInv, Replied, Body, Same
<1>3. Given(d)'
  BY DEF HttpInv, CallInv, Given, Same
<1> QED  BY <1>1, <1>2, <1>3 DEF CallInv

-----------------------------------------------------------------------------
(* The client                                                              *)

LEMMA InvokeStep ==
  ASSUME HttpInv, NEW c \in Calls, Invoke(c)
  PROVE  TypeOK' /\ CallInv(c)'
<1>1. PICK k \in Kinds :
        /\ kind' = [kind EXCEPT ![c] = k]
        /\ IF HasReader(Type[k]) THEN Encode(c) ELSE UNCHANGED readerVars
  BY DEF Invoke
<1>2. /\ cpc[c] = "idle" /\ cpc' = [cpc EXCEPT ![c] = "encoding"]
      /\ UNCHANGED <<maxSize, lost, spc, runs, ret, reply, got>>
  BY DEF Invoke
<1>3. UNCHANGED <<readers, pushCh, decCh, push, broken, pushCtx, dec, waitClosed, use>>
      /\ (post' = [post EXCEPT ![c] = "posting"] \/ UNCHANGED post)
  BY <1>1 DEF Encode, readerVars
<1>4. TypeOK'
  BY <1>1, <1>2, <1>3 DEF HttpInv, TypeOK, ReaderTypes
<1>5. /\ kind'[c] = k /\ cpc'[c] = "encoding" /\ spc[c] = "none" /\ runs[c] = 0
      /\ c \notin lost
  BY <1>1, <1>2 DEF HttpInv, TypeOK, CallInv, Phase
<1>6. /\ cpc'[c] = "encoding" /\ spc'[c] = "none" /\ runs'[c] = 0 /\ dec'[c] = dec[c]
      /\ ret'[c] = NoRet /\ c \notin lost' /\ dec[c] # "waiting"
  BY <1>2, <1>3, <1>5 DEF HttpInv, CallInv, Phase
<1>7. Phase(c)' /\ Admitted(c)'
  BY <1>5, <1>6 DEF Phase, Admitted
<1>8. Replied(c)' /\ Given(c)'
  BY <1>6 DEF Replied, Given
<1>9. Body(c)'
  BY <1>3 DEF HttpInv, CallInv, Body
<1> QED  BY <1>4, <1>7, <1>8, <1>9 DEF CallInv

(* A step that gives the program what its function field returns.          *)
LEMMA GivenStep ==
  ASSUME HttpInv, NEW c \in Calls, cpc[c] \in {"encoding", "posting"},
         cpc' = [cpc EXCEPT ![c] = "done"],
         UNCHANGED <<maxSize, kind, spc, runs, ret, reply, readerVars>>,
         lost' \in {lost, lost \cup {c}},
         c \in lost' \/ spc[c] \in {"none", "answered"},
         NEW v \in [val : Values, err : BOOLEAN], got' = [got EXCEPT ![c] = v],
         IF c \notin lost' /\ ret[c] # NoRet
           THEN v = Local(kind[c], ret[c])
           ELSE HasError(Type[kind[c]]) => v.err
  PROVE  TypeOK' /\ CallInv(c)'
<1>1. TypeOK'
  BY DEF HttpInv, TypeOK, ReaderTypes, readerVars
<1>2. cpc'[c] = "done" /\ got'[c] = v /\ kind[c] \in Kinds
  BY DEF HttpInv, TypeOK, CallInv, Phase
<1>3. UNCHANGED <<push, dec, waitClosed, use, broken>>
  BY DEF readerVars
<1>4. Phase(c)' /\ Admitted(c)'
  BY <1>2, <1>3 DEF HttpInv, CallInv, Phase, Admitted
<1>5. Replied(c)' /\ Body(c)'
  BY <1>3 DEF HttpInv, CallInv, Replied, Body
<1>6. Given(c)'
  BY <1>2 DEF Given
<1> QED  BY <1>1, <1>4, <1>5, <1>6 DEF CallInv

LEMMA ClientStep ==
  ASSUME HttpInv, NEW c \in Calls, Post(c) \/ Break(c) \/ Receive(c)
  PROVE  TypeOK' /\ CallInv(c)'
<1>1. kind[c] \in Kinds /\ CallInv(c) /\ TypeOK
  BY DEF HttpInv, CallInv, Phase, Post, Break, Receive
<1>2. /\ processError(Type[kind[c]]) \in [val : Values, err : BOOLEAN]
      /\ HasError(Type[kind[c]]) => processError(Type[kind[c]]).err
  BY <1>1, Errors
<1>3. CASE Post(c) /\ kind[c] \notin Unencodable
  <2>1. /\ cpc[c] = "encoding" /\ cpc' = [cpc EXCEPT ![c] = "posting"]
        /\ UNCHANGED <<maxSize, kind, lost, spc, runs, ret, reply, got, readerVars>>
    BY <1>3 DEF Post
  <2>2. TypeOK'
    BY <1>1, <2>1 DEF TypeOK, ReaderTypes, readerVars
  <2>3. cpc'[c] = "posting"
    BY <1>1, <2>1 DEF TypeOK
  <2>4. Phase(c)' /\ Admitted(c)' /\ Given(c)'
    BY <1>1, <2>1, <2>3 DEF CallInv, Phase, Admitted, Given, readerVars
  <2>5. Replied(c)' /\ Body(c)'
    BY <1>1, <2>1 DEF CallInv, Replied, Body, readerVars
  <2> QED  BY <2>2, <2>4, <2>5 DEF CallInv
<1>4. CASE Post(c) /\ kind[c] \in Unencodable
  <2>1. spc[c] = "none" /\ ret[c] = NoRet
    BY <1>1, <1>4 DEF Post, CallInv, Phase
  <2> QED  BY <1>2, <1>4, <2>1, GivenStep DEF Post
<1>5. CASE Break(c)
  <2>1. c \in lost'
    BY <1>5 DEF Break
  <2> QED  BY <1>2, <1>5, <2>1, GivenStep DEF Break
<1>6. CASE Receive(c)
  <2> DEFINE v == Understood(kind[c], reply[c])
  <2>1. reply[c] \in Replies
    BY <1>1 DEF TypeOK, Replies
  <2>2. v \in [val : Values, err : BOOLEAN]
    BY <1>1, <1>2, <2>1, Errors
  <2>3. /\ cpc[c] = "posting" /\ spc[c] = "answered" /\ lost' = lost
        /\ cpc' = [cpc EXCEPT ![c] = "done"] /\ got' = [got EXCEPT ![c] = v]
        /\ UNCHANGED <<maxSize, kind, spc, runs, ret, reply, readerVars>>
    BY <1>6 DEF Receive, Understood, Undecoded
  <2>4. ret[c] # NoRet => v = Local(kind[c], ret[c])
    <3>1. ret[c] # NoRet => ret[c] \in Rets
      BY <1>1 DEF TypeOK, Rets
    <3>2. ret[c] # NoRet =>
            reply[c] = Written(Answer(rpcHandler(MethodType[kind[c]]), Req[kind[c]], ret[c]))
      BY <1>1, <2>3 DEF CallInv, Replied
    <3> QED  BY <1>1, <3>1, <3>2, Understands
  <2>5. ret[c] = NoRet => (HasError(Type[kind[c]]) => v.err)
    <3>1. ret[c] = NoRet /\ reply[c] # NoAnswer => reply[c].code # "ok"
      BY <1>1, <2>3 DEF CallInv, Replied
    <3> QED  BY <1>1, <1>2, <2>1, <3>1, Errors
  <2>6. c \notin lost
    BY <1>1, <2>3 DEF CallInv, Phase
  <2> HIDE DEF v
  <2>7. IF c \notin lost' /\ ret[c] # NoRet
          THEN v = Local(kind[c], ret[c])
          ELSE HasError(Type[kind[c]]) => v.err
    BY <2>3, <2>4, <2>5, <2>6
  <2> QED  BY <2>2, <2>3, <2>7, GivenStep
<1> QED  BY <1>3, <1>4, <1>5, <1>6

-----------------------------------------------------------------------------
(* The server                                                              *)

LEMMA ArriveStep ==
  ASSUME HttpInv, NEW c \in Calls, Arrive(c)
  PROVE  TypeOK' /\ CallInv(c)'
<1>1. /\ Arrives(c) /\ UNCHANGED <<maxSize, kind, cpc, lost, ret, got>>
      /\ CallInv(c) /\ TypeOK
  BY ArriveCases DEF HttpInv
<1>2. /\ spc[c] = "none" /\ runs[c] = 0 /\ ret[c] = NoRet /\ kind[c] \in Kinds
      /\ cpc[c] = "posting" \/ (c \in lost /\ cpc[c] = "done")
      /\ dec[c] # "waiting"
  BY <1>1 DEF CallInv, Phase, Arrives
<1>3. Given(c)'
  BY <1>1 DEF CallInv, Given
<1>4. CASE TurnedAway(c)
  <2>1. NoAnswer \in Replies
    BY NoAnswerType
  <2>2. TypeOK'
    BY <1>1, <1>4, <2>1 DEF TurnedAway, TypeOK, Replies, ReaderTypes, readerVars
  <2>3. spc'[c] = "answered" /\ reply'[c] = NoAnswer
    BY <1>1, <1>4 DEF TurnedAway, TypeOK
  <2>4. Phase(c)' /\ Admitted(c)' /\ Body(c)'
    BY <1>1, <1>2, <1>4, <2>3 DEF TurnedAway, CallInv, Phase, Admitted, Body, readerVars
  <2>5. Replied(c)'
    BY <1>1, <1>2, <1>4, <2>3 DEF TurnedAway, Known, Replied
  <2> QED  BY <1>3, <2>2, <2>4, <2>5 DEF CallInv
<1>5. ASSUME NEW code \in {"notFound", "invalidParams", "parse"}, RefusedWith(c, code)
      PROVE  TypeOK' /\ CallInv(c)'
  <2> DEFINE a == rpcError(Req[kind[c]], code)
  <2>1. a \in Replies /\ a # NoAnswer /\ a.code = code
    BY <1>2, Errors DEF Codes
  <2>2. /\ spc' = [spc EXCEPT ![c] = "answered"] /\ reply' = [reply EXCEPT ![c] = a]
        /\ UNCHANGED <<runs, readerVars>>
    BY <1>5 DEF RefusedWith
  <2> HIDE DEF a
  <2>3. TypeOK'
    BY <1>1, <2>1, <2>2 DEF TypeOK, Replies, ReaderTypes, readerVars
  <2>4. spc'[c] = "answered" /\ reply'[c] = a
    BY <1>1, <2>2 DEF TypeOK
  <2>5. Phase(c)' /\ Admitted(c)' /\ Body(c)'
    BY <1>1, <1>2, <2>2, <2>4 DEF CallInv, Phase, Admitted, Body, readerVars
  <2>6. Replied(c)'
    BY <1>1, <1>2, <2>1, <2>4 DEF Replied
  <2> QED  BY <1>3, <2>3, <2>5, <2>6 DEF CallInv
<1>6. CASE Accepted(c)
  <2>1. /\ ~Rejected(Cred[kind[c]], Verify)
        /\ Refusal(Methods, Aliases, Req[kind[c]], FALSE) = "none"
    BY <1>6, Zenon DEF Accepted, Known
  <2>2. kind'[c] = kind[c]
    BY <1>1
  <2>3. CASE spc' = [spc EXCEPT ![c] = "decoding"] /\ Decode(c) /\ UNCHANGED <<runs, reply>>
    <3>1. TypeOK'
      BY <1>1, <2>3 DEF Decode, Insert, Entry, TypeOK, ReaderTypes, Sides
    <3>2. spc'[c] = "decoding" /\ dec'[c] = "waiting"
      BY <1>1, <2>3 DEF Decode, TypeOK, ReaderTypes
    <3>3. Phase(c)'
      BY <1>1, <1>2, <2>3, <3>2 DEF CallInv, Phase
    <3>4. ~(runs'[c] > 0)
      BY <1>2, <2>3
    <3>5. Admitted(c)'
      BY <2>1, <2>2, <3>4 DEF Admitted
    <3>6. Replied(c)'
      BY <3>2 DEF Replied
    <3>7. Body(c)'
      BY <1>1, <2>3, <3>2 DEF Decode, CallInv, Body
    <3> QED  BY <1>3, <3>1, <3>3, <3>5, <3>6, <3>7 DEF CallInv
  <2>4. CASE /\ spc' = [spc EXCEPT ![c] = "running"]
             /\ runs' = [runs EXCEPT ![c] = @ + RunOf(kind[c])]
             /\ UNCHANGED <<reply, readerVars>>
    <3>1. RunOf(kind[c]) \in {0, 1} /\ (RunOf(kind[c]) > 0 => Allowed(kind[c]))
      BY DEF RunOf
    <3>2. TypeOK'
      BY <1>1, <2>4, <3>1 DEF TypeOK, ReaderTypes, readerVars
    <3>3. spc'[c] = "running" /\ runs'[c] = RunOf(kind[c])
      BY <1>1, <1>2, <2>4, <3>1 DEF TypeOK
    <3>4. Phase(c)' /\ Body(c)'
      BY <1>1, <1>2, <2>4, <3>3 DEF CallInv, Phase, Body, readerVars
    <3>5. Admitted(c)' /\ Replied(c)'
      BY <2>1, <2>2, <3>1, <3>3 DEF Admitted, Replied
    <3> QED  BY <1>3, <3>2, <3>4, <3>5 DEF CallInv
  <2> QED  BY <1>6, <2>3, <2>4 DEF Accepted
<1> QED  BY <1>4, <1>5, <1>6, ArriveCases

LEMMA HandStep ==
  ASSUME HttpInv, NEW c \in Calls, Hand(c)
  PROVE  TypeOK' /\ CallInv(c)'
<1>1. /\ CallInv(c) /\ TypeOK
      /\ dec[c] = "waiting" /\ spc' = [spc EXCEPT ![c] = "running"]
      /\ push' = [push EXCEPT ![c] = "waiting"] /\ dec' = [dec EXCEPT ![c] = "got"]
      /\ runs' = [runs EXCEPT ![c] = @ + RunOf(kind[c])]
      /\ UNCHANGED <<maxSize, kind, cpc, lost, ret, reply, got>>
      /\ UNCHANGED <<readers, pushCh, decCh, post, broken, pushCtx, waitClosed, use>>
  BY DEF Hand, Meet, HttpInv
<1>2. spc[c] = "decoding" /\ runs[c] = 0 /\ ret[c] = NoRet
  BY <1>1 DEF CallInv, Phase
<1>3. RunOf(kind[c]) \in {0, 1} /\ (RunOf(kind[c]) > 0 => Allowed(kind[c]))
  BY DEF RunOf
<1>4. TypeOK'
  BY <1>1, <1>3 DEF TypeOK, ReaderTypes
<1>5. /\ spc'[c] = "running" /\ push'[c] = "waiting" /\ dec'[c] = "got"
      /\ runs'[c] = RunOf(kind[c]) /\ kind'[c] = kind[c]
  BY <1>1, <1>2, <1>3 DEF TypeOK, ReaderTypes
<1>6. Phase(c)'
  BY <1>1, <1>2, <1>5 DEF CallInv, Phase
<1>7. Admitted(c)' /\ Replied(c)'
  BY <1>1, <1>2, <1>3, <1>5 DEF CallInv, Admitted, Replied
<1>8. Given(c)' /\ Body(c)'
  BY <1>1, <1>5 DEF CallInv, Given, Body
<1> QED  BY <1>4, <1>6, <1>7, <1>8 DEF CallInv

LEMMA GiveUpStep ==
  ASSUME HttpInv, NEW c \in Calls, GiveUp(c)
  PROVE  TypeOK' /\ CallInv(c)'
<1> DEFINE a == rpcError(Req[kind[c]], "parse")
<1>1. /\ CallInv(c) /\ TypeOK /\ c \in lost
      /\ dec[c] = "waiting" /\ spc' = [spc EXCEPT ![c] = "answered"]
      /\ dec' = [dec EXCEPT ![c] = "failed"]
      /\ reply' = [reply EXCEPT ![c] = a]
      /\ UNCHANGED <<maxSize, kind, cpc, lost, runs, ret, got>>
      /\ UNCHANGED <<readers, pushCh, decCh, post, push, broken, pushCtx, waitClosed, use>>
  BY DEF GiveUp, DecodeGivesUp, HttpInv
<1>2. spc[c] = "decoding" /\ ret[c] = NoRet /\ cpc[c] = "done" /\ kind[c] \in Kinds
  BY <1>1 DEF CallInv, Phase
<1>3. a \in Replies /\ a # NoAnswer /\ a.code = "parse"
  BY <1>2, Errors DEF Codes
<1> HIDE DEF a
<1>4. TypeOK'
  BY <1>1, <1>3 DEF TypeOK, Replies, ReaderTypes
<1>5. spc'[c] = "answered" /\ dec'[c] = "failed" /\ reply'[c] = a
  BY <1>1 DEF TypeOK, ReaderTypes
<1>6. Phase(c)' /\ Admitted(c)'
  BY <1>1, <1>2, <1>5 DEF CallInv, Phase, Admitted
<1>7. Replied(c)'
  BY <1>1, <1>2, <1>3, <1>5 DEF Replied
<1>8. Given(c)' /\ Body(c)'
  BY <1>1, <1>5 DEF CallInv, Given, Body
<1> QED  BY <1>4, <1>6, <1>7, <1>8 DEF CallInv

(* The handler returns, or the proxy in its place.                         *)
LEMMA RespondStep ==
  ASSUME HttpInv, NEW c \in Calls, spc[c] = "running", NEW r \in Rets, Respond(c, r),
         UNCHANGED readerVars
  PROVE  TypeOK' /\ CallInv(c)'
<1> DEFINE a == Written(Answer(rpcHandler(MethodType[kind[c]]), Req[kind[c]], r))
<1>1. /\ CallInv(c) /\ TypeOK /\ kind[c] \in Kinds
      /\ Refusal(Methods, Aliases, Req[kind[c]], FALSE) = "none"
  BY DEF HttpInv, CallInv, Phase, Admitted
<1>2. Lookup(Methods, Aliases, Req[kind[c]].method) # NoMethod
  BY <1>1 DEF Refusal
<1>3. Methods[Lookup(Methods, Aliases, Req[kind[c]].method)] = rpcHandler(MethodType[kind[c]])
  BY <1>1, <1>2, HttpAssumption DEF Registered
<1>4. /\ spc' = [spc EXCEPT ![c] = "answered"] /\ ret' = [ret EXCEPT ![c] = r]
      /\ reply' = [reply EXCEPT ![c] = a]
      /\ UNCHANGED <<maxSize, kind, cpc, lost, runs, got>>
  BY <1>3 DEF Respond, Written
<1>5. a \in Replies /\ r # NoRet
  BY <1>1, Answers, RetTypes, NoAnswerType DEF Written
<1> HIDE DEF a
<1>6. TypeOK'
  BY <1>1, <1>4, <1>5 DEF TypeOK, Replies, ReaderTypes, readerVars, Rets
<1>7. spc'[c] = "answered" /\ ret'[c] = r /\ reply'[c] = a /\ kind'[c] = kind[c]
  BY <1>1, <1>4 DEF TypeOK
<1>8. Phase(c)' /\ Admitted(c)'
  BY <1>1, <1>4, <1>7 DEF CallInv, Phase, Admitted, readerVars
<1>9. Replied(c)'
  BY <1>5, <1>7 DEF Replied, a
<1>10. Given(c)'
  BY <1>1, <1>4 DEF CallInv, Phase, Given
<1>11. Body(c)'
  BY <1>1 DEF CallInv, Body, readerVars
<1> QED  BY <1>6, <1>8, <1>9, <1>10, <1>11 DEF CallInv

LEMMA ReturnStep ==
  ASSUME HttpInv, NEW c \in Calls, Return(c)
  PROVE  TypeOK' /\ CallInv(c)'
<1>1. spc[c] = "running" /\ UNCHANGED readerVars /\ kind[c] \in Kinds
  BY DEF Return, HttpInv, CallInv, Phase
<1>2. CASE Allowed(kind[c])
  <2>1. PICK r \in Returns : Respond(c, r)
    BY <1>2 DEF Return
  <2> QED  BY <1>1, <2>1, RespondStep DEF Rets
<1>3. CASE ~Allowed(kind[c])
  <2>1. Respond(c, NotAllowed(kind[c])) /\ NotAllowed(kind[c]) \in Rets
    BY <1>1, <1>3 DEF Return, Rets
  <2> QED  BY <1>1, <2>1, RespondStep
<1> QED  BY <1>2, <1>3

LEMMA UseReaderStep ==
  ASSUME HttpInv, NEW c \in Calls, UseReader(c)
  PROVE  TypeOK' /\ CallInv(c)'
<1>1. CASE ClosesTwice(c)
  BY <1>1, RespondStep DEF UseReader, Rets
<1>2. CASE ~ClosesTwice(c)
  <2>1. /\ CallInv(c) /\ TypeOK /\ dec[c] = "got" /\ waitClosed[c] = 0
        /\ \/ use' = [use EXCEPT ![c] = "end"]
           \/ use' = [use EXCEPT ![c] = "closed"]
           \/ use' = [use EXCEPT ![c] = "cut"] /\ (push[c] # "waiting" \/ c \in broken)
        /\ waitClosed' = [waitClosed EXCEPT ![c] = @ + 1]
        /\ UNCHANGED <<readers, pushCh, decCh, post, push, broken, pushCtx, dec>>
        /\ UNCHANGED callVars
    BY <1>2 DEF UseReader, ClosesTwice, ReadEnds, ReadError, CloseReader, HttpInv, TypeOK,
       ReaderTypes
  <2>2. TypeOK'
    BY <2>1 DEF TypeOK, ReaderTypes, callVars
  <2>3. /\ waitClosed'[c] = 1
        /\ use'[c] = "cut" => c \in broken
    BY <2>1 DEF TypeOK, ReaderTypes, CallInv, Body
  <2>4. Phase(c)' /\ Admitted(c)'
    BY <2>1 DEF CallInv, Phase, Admitted, callVars
  <2>5. Replied(c)' /\ Given(c)'
    BY <2>1 DEF CallInv, Replied, Given, callVars
  <2>6. Body(c)'
    BY <2>1, <2>3 DEF Body
  <2> QED  BY <2>2, <2>4, <2>5, <2>6 DEF CallInv
<1> QED  BY <1>1, <1>2

LEMMA TransferStep ==
  ASSUME HttpInv, NEW c \in Calls, Transfer(c)
  PROVE  TypeOK' /\ CallInv(c)'
<1>1. CallInv(c) /\ TypeOK /\ UNCHANGED callVars /\ UNCHANGED <<decCh, dec, waitClosed, use>>
  BY DEF HttpInv, Transfer, PushArrives, PostBreaks, PushCtxEnds, PushGivesUp, PushDone
<1>2. ReaderTypes'
  <2>1. CASE PushArrives(c)
    BY <1>1, <2>1 DEF TypeOK, ReaderTypes, Sides, PushArrives, Insert, Entry
  <2>2. CASE PostBreaks(c) \/ PushCtxEnds(c)
    BY <1>1, <2>2 DEF TypeOK, ReaderTypes, PostBreaks, PushCtxEnds
  <2>3. CASE PushGivesUp(c) \/ PushDone(c)
    BY <1>1, <2>3 DEF TypeOK, ReaderTypes, PushGivesUp, PushDone
  <2> QED  BY <2>1, <2>2, <2>3 DEF Transfer
<1>3. TypeOK'
  BY <1>1, <1>2 DEF TypeOK, callVars
<1>4. /\ c \in broken => c \in broken'
      /\ push[c] = "waiting" => push'[c] = "waiting" \/ c \in broken \/ waitClosed[c] > 0
  BY <1>1 DEF TypeOK, ReaderTypes, Transfer, PushArrives, PostBreaks, PushCtxEnds,
     PushGivesUp, PushDone
<1>5. Body(c)'
  BY <1>1, <1>4 DEF CallInv, Body
<1>6. Phase(c)' /\ Admitted(c)'
  BY <1>1 DEF CallInv, Phase, Admitted, callVars
<1>7. Replied(c)' /\ Given(c)'
  BY <1>1 DEF CallInv, Replied, Given, callVars
<1> QED  BY <1>3, <1>5, <1>6, <1>7 DEF CallInv

-----------------------------------------------------------------------------
(* The refinement of RpcCall: what a step is for the caller                *)

(* Nothing, of a step after which the caller sees of d what it saw.        *)
Unseen(d) ==
  /\ Status(d)' = Status(d) /\ runs'[d] = runs[d]
  /\ cpc'[d] = "idle" <=> cpc[d] = "idle"

LEMMA MapStutter ==
  ASSUME \A d \in Calls : Unseen(d)
  PROVE  UNCHANGED Call!vars
<1>1. [d \in Calls |-> Status(d)]' = [d \in Calls |-> Status(d)]
  BY DEF Unseen
<1>2. [d \in Calls |-> IF cpc[d] = "idle" THEN 0 ELSE 1]'
        = [d \in Calls |-> IF cpc[d] = "idle" THEN 0 ELSE 1]
  BY DEF Unseen
<1>3. [d \in Calls |-> [a \in 1 .. 1 |-> runs[d]]]'
        = [d \in Calls |-> [a \in 1 .. 1 |-> runs[d]]]
  BY DEF Unseen
<1> QED  BY <1>1, <1>2, <1>3 DEF Call!vars

LEMMA MapIssue ==
  ASSUME NEW c \in Calls, \A d \in Calls \ {c} : Unseen(d),
         cpc[c] = "idle", cpc'[c] = "encoding", runs'[c] = runs[c]
  PROVE  Call!Issue(c)
<1>1. Status(c) = "idle" /\ Status(c)' = "pending"
  BY DEF Status
<1>2. [d \in Calls |-> Status(d)]' = [[d \in Calls |-> Status(d)] EXCEPT ![c] = "pending"]
  BY <1>1 DEF Unseen
<1>3. [d \in Calls |-> IF cpc[d] = "idle" THEN 0 ELSE 1]'
        = [[d \in Calls |-> IF cpc[d] = "idle" THEN 0 ELSE 1] EXCEPT ![c] = 1]
  BY DEF Unseen
<1>4. [d \in Calls |-> [a \in 1 .. 1 |-> runs[d]]]'
        = [d \in Calls |-> [a \in 1 .. 1 |-> runs[d]]]
  BY DEF Unseen
<1> QED  BY <1>1, <1>2, <1>3, <1>4 DEF Call!Issue

LEMMA MapReturn ==
  ASSUME NEW c \in Calls, \A d \in Calls \ {c} : Unseen(d), runs'[c] = runs[c],
         cpc[c] \in {"encoding", "posting"}, cpc'[c] = "done"
  PROVE  \E o \in Call!Outcomes : Call!Return(c, o)
<1> DEFINE o == Status(c)'
<1>1. /\ Status(c) = "pending" /\ o \in {"reply", "closed"}
      /\ o = "reply" => runs[c] > 0
  BY DEF Status
<1> HIDE DEF o
<1>2. [d \in Calls |-> Status(d)]' = [[d \in Calls |-> Status(d)] EXCEPT ![c] = o]
  BY DEF Unseen, o
<1>3. [d \in Calls |-> IF cpc[d] = "idle" THEN 0 ELSE 1]'
        = [d \in Calls |-> IF cpc[d] = "idle" THEN 0 ELSE 1]
  BY DEF Unseen
<1>4. [d \in Calls |-> [a \in 1 .. 1 |-> runs[d]]]'
        = [d \in Calls |-> [a \in 1 .. 1 |-> runs[d]]]
  BY DEF Unseen
<1>5. o = "reply" => \E a \in 1 .. 1 : [d \in Calls |-> [b \in 1 .. 1 |-> runs[d]]][c][a] > 0
  BY <1>1
<1>6. Call!Return(c, o)
  BY <1>1, <1>2, <1>3, <1>4, <1>5 DEF Call!Return, Call!Attempts
<1> QED  BY <1>1, <1>6 DEF Call!Outcomes

LEMMA MapRun ==
  ASSUME NEW c \in Calls, \A d \in Calls \ {c} : Unseen(d),
         runs[c] = 0, runs'[c] = 1, cpc[c] # "idle", cpc'[c] = cpc[c],
         Status(c)' = Status(c)
  PROVE  Call!Run(c, 1)
<1>1. [d \in Calls |-> Status(d)]' = [d \in Calls |-> Status(d)]
  BY DEF Unseen
<1>2. [d \in Calls |-> IF cpc[d] = "idle" THEN 0 ELSE 1]'
        = [d \in Calls |-> IF cpc[d] = "idle" THEN 0 ELSE 1]
  BY DEF Unseen
<1>3. [d \in Calls |-> [a \in 1 .. 1 |-> runs[d]]]'
        = [[d \in Calls |-> [a \in 1 .. 1 |-> runs[d]]] EXCEPT ![c][1] = 1]
  BY DEF Unseen
<1>4. /\ 1 <= [d \in Calls |-> IF cpc[d] = "idle" THEN 0 ELSE 1][c]
      /\ [d \in Calls |-> [a \in 1 .. 1 |-> runs[d]]][c][1] = 0
  OBVIOUS
<1> QED  BY <1>1, <1>2, <1>3, <1>4 DEF Call!Run

LEMMA MapStep ==
  ASSUME HttpInv, [Next]_vars
  PROVE  [Call!Next]_(Call!vars)
<1>1. CASE UNCHANGED vars
  BY <1>1, MapStutter DEF vars, Unseen, Status
<1>2. ASSUME NEW c \in Calls, Step(c)
      PROVE  [Call!Next]_(Call!vars)
  <2>1. TypeOK /\ CallInv(c)
    BY DEF HttpInv
  <2>2. \A d \in Calls \ {c} : Unseen(d)
    BY <1>2, <2>1, OthersSame DEF Same, Unseen, Status
  <2>3. CASE Invoke(c)
    <3>1. Call!Issue(c)
      BY <2>1, <2>2, <2>3, MapIssue DEF Invoke, TypeOK
    <3> QED  BY <3>1 DEF Call!Next
  <2>4. CASE cpc[c] \in {"encoding", "posting"} /\ cpc'[c] = "done" /\ runs' = runs
    <3>1. \E o \in Call!Outcomes : Call!Return(c, o)
      BY <2>2, <2>4, MapReturn
    <3> QED  BY <3>1 DEF Call!Next
  <2>5. CASE /\ spc[c] \in {"none", "decoding"} /\ (Arrives(c) \/ dec[c] = "waiting")
             /\ runs' = [runs EXCEPT ![c] = @ + RunOf(kind[c])]
             /\ UNCHANGED <<cpc, lost, ret>>
    <3>1. runs[c] = 0 /\ ret[c] = NoRet /\ cpc[c] # "idle"
      BY <2>1, <2>5 DEF CallInv, Phase, Arrives
    <3>2. Status(c)' = Status(c)
      BY <2>5, <3>1 DEF Status
    <3>3. CASE RunOf(kind[c]) = 1
      <4>1. Call!Run(c, 1)
        BY <2>1, <2>2, <2>5, <3>1, <3>2, <3>3, MapRun DEF TypeOK
      <4> QED  BY <4>1 DEF Call!Next, Call!Attempts
    <3>4. CASE RunOf(kind[c]) = 0
      <4>1. Unseen(c)
        BY <2>1, <2>5, <3>1, <3>2, <3>4 DEF Unseen, TypeOK
      <4> QED  BY <2>2, <4>1, MapStutter
    <3> QED  BY <3>3, <3>4 DEF RunOf
  <2>6. CASE Unseen(c)
    BY <2>2, <2>6, MapStutter
  <2>7. CASE Post(c) \/ Break(c) \/ Receive(c)
    <3>1. CASE cpc' = [cpc EXCEPT ![c] = "done"]
      BY <2>1, <2>4, <2>7, <3>1 DEF Post, Break, Receive, TypeOK
    <3>2. CASE cpc' = [cpc EXCEPT ![c] = "posting"]
      <4>1. Unseen(c)
        BY <2>1, <2>7, <3>2 DEF Post, Break, Receive, TypeOK, Unseen, Status
      <4> QED  BY <2>6, <4>1
    <3> QED  BY <2>7, <3>1, <3>2 DEF Post, Break, Receive
  <2>8. CASE Arrive(c)
    <3>1. Arrives(c) /\ UNCHANGED <<cpc, lost, ret>>
      BY <2>8, ArriveCases
    <3>2. CASE UNCHANGED runs
      BY <2>6, <3>1, <3>2 DEF Unseen, Status
    <3>3. CASE runs' = [runs EXCEPT ![c] = @ + RunOf(kind[c])]
      BY <2>5, <3>1, <3>3 DEF Arrives
    <3> QED  BY <2>8, <3>2, <3>3, ArriveCases DEF TurnedAway, RefusedWith, Accepted
  <2>9. CASE Hand(c)
    BY <2>1, <2>5, <2>9 DEF Hand, Meet, CallInv, Phase
  <2>10. CASE Return(c) \/ UseReader(c)
    <3>1. /\ UNCHANGED <<cpc, lost, runs>> /\ (UNCHANGED ret \/ spc[c] = "running")
      BY <2>10 DEF Return, UseReader, Respond, callVars
    <3>2. spc[c] = "running" => cpc[c] # "done" \/ c \in lost
      BY <2>1 DEF CallInv, Phase
    <3> QED  BY <2>6, <3>1, <3>2 DEF Unseen, Status
  <2>11. CASE GiveUp(c) \/ Transfer(c)
    <3>1. UNCHANGED <<cpc, lost, runs, ret>>
      BY <2>11 DEF GiveUp, Transfer, callVars
    <3> QED  BY <2>6, <3>1 DEF Unseen, Status
  <2> QED  BY <1>2, <2>3, <2>7, <2>8, <2>9, <2>10, <2>11 DEF Step
<1> QED  BY <1>1, <1>2 DEF Next, Step

LEMMA MapInit == Init => Call!Init
BY DEF Init, Call!Init, Status, Call!Attempts

-----------------------------------------------------------------------------
(* The theorems                                                            *)

LEMMA HttpStep ==
  ASSUME HttpInv, [Next]_vars
  PROVE  HttpInv'
<1>1. CASE UNCHANGED vars
  <2>1. TypeOK'
    BY <1>1 DEF HttpInv, vars, readerVars, TypeOK, ReaderTypes
  <2>2. \A d \in Calls : Same(d) /\ maxSize' = maxSize
    BY <1>1 DEF vars, readerVars, Same
  <2> QED  BY <2>1, <2>2, OthersInv DEF HttpInv
<1>2. ASSUME NEW c \in Calls, Step(c)
      PROVE  HttpInv'
  <2>1. TypeOK' /\ CallInv(c)'
    BY <1>2, InvokeStep, ClientStep, ArriveStep, HandStep, GiveUpStep, ReturnStep,
       UseReaderStep, TransferStep DEF Step
  <2>2. ASSUME NEW d \in Calls \ {c} PROVE CallInv(d)'
    BY <1>2, <2>2, OthersSame, OthersInv DEF HttpInv
  <2> QED  BY <2>1, <2>2 DEF HttpInv
<1> QED  BY <1>1, <1>2 DEF Next, Step

LEMMA HttpAlways == Spec => []HttpInv
BY HttpInit, HttpStep, PTL DEF Spec

(* Every variable keeps its type; wait is closed at most once              *)
(* (httpio/reader.go:37-75).                                               *)
THEOREM HttpTypes == Spec => []TypeOK
<1>1. HttpInv => TypeOK
  BY DEF HttpInv
<1> QED  BY HttpAlways, <1>1, PTL

(* A call that got its response returns what the handler returned, result  *)
(* and error in their places, whatever the types of method and function    *)
(* field, and a result that has no JSON or does not fit is an error, like  *)
(* every other call (handler.go:113-156, 258-328, client.go:134-191,       *)
(* 434-464, 527-565).                                                      *)
THEOREM LikeLocal == Spec => []CallLikeLocal
<1>1. HttpInv => CallLikeLocal
  BY DEF HttpInv, CallInv, Given, CallLikeLocal
<1> QED  BY HttpAlways, <1>1, PTL

(* A method behind a PermissionedProxy runs only for a request that has    *)
(* its permission (auth/handler.go:19-48, auth/auth.go:19-79).             *)
THEOREM OnlyPermitted == Spec => []RunsPermitted
<1>1. HttpInv => RunsPermitted
  <2> SUFFICES ASSUME HttpInv, NEW c \in Calls, runs[c] > 0, Perm[kind[c]] # NoPerm
               PROVE  LET cred == Cred[kind[c]]
                      IN IF cred.header = "none" /\ ~cred.form
                           THEN Perm[kind[c]] \in DefaultPerms
                           ELSE /\ cred.header # "other" /\ Verify[cred.token] # Invalid
                                /\ Perm[kind[c]] \in Verify[cred.token]
    BY DEF RunsPermitted
  <2>1. Allowed(kind[c]) /\ ~Rejected(Cred[kind[c]], Verify)
    BY DEF HttpInv, CallInv, Admitted
  <2> QED  BY <2>1 DEF Allowed, Rejected, HasPerm, CallerPerms, HasToken
<1> QED  BY HttpAlways, <1>1, PTL

(* A request is turned away for its length only when it is longer than the *)
(* limit, unless limit + 1 wraps (handler.go:134-149).                     *)
THEOREM LimitKept == Spec => []WithinLimit
<1>1. HttpInv => WithinLimit
  <2> SUFFICES ASSUME HttpInv, NEW c \in Calls, spc[c] = "answered", reply[c] = NoAnswer,
                      ret[c] = NoRet, ~Rejected(Cred[kind[c]], Verify), maxSize < IntLimit - 1
               PROVE  Size[kind[c]] > maxSize
    BY DEF WithinLimit
  <2>1. kind[c] \in Kinds /\ Replied(c) /\ TypeOK
    BY DEF HttpInv, CallInv, Phase
  <2>3. ~Accepts(Size[kind[c]], maxSize, IntLimit)
    BY <2>1 DEF Replied
  <2>4. /\ Size[kind[c]] \in 0 .. IntLimit - 1 /\ maxSize \in 0 .. IntLimit - 1
        /\ IntLimit \in Nat
    BY <2>1, HttpAssumption DEF TypeOK
  <2> QED  BY <2>3, <2>4, WithinIsAccepted
<1> QED  BY HttpAlways, <1>1, PTL

(* The handler of the POST does not return while the method may still read *)
(* the body, unless the connection broke (httpio/reader.go:56-69, 96-113). *)
THEOREM BodyIsHeld == Spec => []BodyHeld
<1>1. HttpInv => BodyHeld
  BY DEF HttpInv, CallInv, Body, BodyHeld
<1> QED  BY HttpAlways, <1>1, PTL

(* Over HTTP a call runs at most once, never again for a retry, and        *)
(* returns a reply only of its own run: what RpcCall promises, step by     *)
(* step (client.go:134-191, 527-560).                                      *)
THEOREM HttpImplementsRpcCall == Spec => RefinesRpcCall
<1>1. Init => Call!Init
  BY MapInit
<1>2. HttpInv /\ [Next]_vars => [Call!Next]_(Call!vars)
  BY MapStep
<1> QED  BY <1>1, <1>2, HttpAlways, PTL DEF Spec, RefinesRpcCall, Call!Spec

(* The handler of a call was invoked at most once (client.go:527-560).     *)
RunsOnce == \A c \in Calls : runs[c] <= 1

(* What the refinement comes to: over HTTP a method runs at most once for  *)
(* a call, retry tag or not, however the exchange fails (client.go:        *)
(* 134-191, 527-560).                                                      *)
THEOREM HttpRunsAtMostOnce == Spec => []RunsOnce
<1>1. 1 \in Nat
  OBVIOUS
<1>2. Call!Spec => [](Call!AtMostOnce /\ Call!ReplyMeansRun)
  BY <1>1, Call!CallsRunAtMostOnce
<1>3. Call!AtMostOnce => RunsOnce
  BY DEF Call!AtMostOnce, Call!Attempts, RunsOnce
<1> QED  BY <1>2, <1>3, HttpImplementsRpcCall, PTL DEF RefinesRpcCall

=============================================================================
