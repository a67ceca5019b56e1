---------------------------- MODULE WsClientProofs ----------------------------
(***************************************************************************)
(* Theorems about WsClient, for every number of calls, attempts and        *)
(* connections and every capacity of the channels.                         *)
(***************************************************************************)
EXTENDS WsClient, SequenceTheorems, TLAPS

(* The steps of the client, one name for each.                             *)
LEMMA NextCases ==
  ASSUME [Next]_vars
  PROVE  \/ \E c \in Calls : \/ Call(c) \/ CallExiting(c) \/ CallCtxDone(c)
                             \/ CancelExiting(c) \/ Receive(c) \/ Retry(c)
         \/ \E g \in Gens, c \in Calls : \/ WTakeCall(g, c) \/ WTakeCancel(g, c)
                                         \/ RRead(g, c)
         \/ \E g \in Gens : \/ WTop(g) \/ WRegister(g) \/ WAddress(g) \/ WPut(g)
                            \/ WTakeWrite(g) \/ WWrite(g) \/ WWriteErr(g)
                            \/ WTakeFrame(g) \/ WLookup(g) \/ WDeliver(g) \/ WDelete(g)
                            \/ WExit(g) \/ WStop(g)
         \/ \E g \in Gens : \/ RLeave(g) \/ RTop(g) \/ RBegin(g) \/ RAddress(g) \/ RPush(g)
                            \/ RReadErr(g) \/ REnd(g)
                            \/ \E e \in Calls \X Attempts : RDrain(g, e)
                            \/ \E how \in {"lost", "closed"} : ConnEnds(g, how)
         \/ DialCheck \/ DialFail \/ DialOk
         \/ NewInflight \/ NewWriteChan \/ NewGeneration
         \/ CloseStop \/ CloseFlag \/ CloseReturn \/ CtxCancel
         \/ UNCHANGED vars
  BY DEF Next, CallerStep, WStep, WLeaves, RStep, DialStep, CloseStep, Environment

(* Who writes what.                                                        *)
LEMMA Writers ==
  ASSUME [Next]_vars
  PROVE  /\ \/ UNCHANGED callerVars
            \/ \E c \in Calls : \/ Call(c) \/ CallExiting(c) \/ CallCtxDone(c)
                                \/ CancelExiting(c) \/ Receive(c) \/ Retry(c)
                                \/ \E g \in Gens : WTakeCall(g, c) \/ WTakeCancel(g, c)
         /\ \/ UNCHANGED ready
            \/ \E c \in Calls : Receive(c)
            \/ \E g \in Gens : WDeliver(g) \/ \E e \in Calls \X Attempts : RDrain(g, e)
         /\ \/ UNCHANGED writeQ
            \/ \E g \in Gens : WPut(g) \/ WTakeWrite(g)
         /\ \/ UNCHANGED frameQ
            \/ \E g \in Gens : RPush(g) \/ WTakeFrame(g)
         /\ \/ UNCHANGED <<gen, exitCh, dialer, exiting>>
            \/ \E g \in Gens : WWriteErr(g) \/ WStop(g) \/ RReadErr(g)
            \/ DialCheck \/ DialFail \/ DialOk
            \/ NewInflight \/ NewWriteChan \/ NewGeneration
         /\ \/ UNCHANGED wVars
            \/ \E g \in Gens : \/ \E c \in Calls : WTakeCall(g, c) \/ WTakeCancel(g, c)
                               \/ WTop(g) \/ WRegister(g) \/ WAddress(g) \/ WPut(g)
                               \/ WTakeWrite(g) \/ WWrite(g) \/ WWriteErr(g)
                               \/ WTakeFrame(g) \/ WLookup(g) \/ WDeliver(g) \/ WDelete(g)
                               \/ WExit(g) \/ WStop(g)
            \/ NewGeneration
         /\ \/ UNCHANGED rVars
            \/ \E g \in Gens : \/ \E c \in Calls : RRead(g, c)
                               \/ RLeave(g) \/ RTop(g) \/ RBegin(g) \/ RAddress(g)
                               \/ RPush(g) \/ RReadErr(g) \/ REnd(g)
            \/ NewGeneration
         /\ \/ UNCHANGED serving
            \/ \E g \in Gens : WWrite(g) \/ RLeave(g) \/ \E c \in Calls : RRead(g, c)
         /\ UNCHANGED runs \/ \E g \in Gens : WWrite(g)
<1>1. ASSUME NEW c \in Calls,
             \/ Call(c) \/ CallExiting(c) \/ CallCtxDone(c)
             \/ CancelExiting(c) \/ Receive(c) \/ Retry(c)
      PROVE  UNCHANGED <<writeQ, frameQ, wVars, rVars, serving, runs, gen, exitCh, dialer,
                         exiting>>
  BY <1>1 DEF Call, CallExiting, CallCtxDone, CancelExiting, Receive, Retry, fieldVars,
              exitVars, peerVars
<1>2. ASSUME NEW c \in Calls,
             Call(c) \/ CallExiting(c) \/ CallCtxDone(c) \/ CancelExiting(c) \/ Retry(c)
      PROVE  UNCHANGED ready
  BY <1>2 DEF Call, CallExiting, CallCtxDone, CancelExiting, Retry
<1>3. ASSUME NEW g \in Gens, NEW c \in Calls, WTakeCall(g, c) \/ WTakeCancel(g, c)
      PROVE  UNCHANGED <<ready, writeQ, frameQ, rVars, serving, runs, gen, exitCh, dialer,
                         exiting>>
  BY <1>3 DEF WTakeCall, WTakeCancel, fieldVars, exitVars, peerVars
<1>4. ASSUME NEW g \in Gens,
             \/ WTop(g) \/ WRegister(g) \/ WAddress(g) \/ WPut(g) \/ WTakeWrite(g)
             \/ WWrite(g) \/ WTakeFrame(g) \/ WLookup(g) \/ WDeliver(g) \/ WDelete(g)
             \/ WExit(g)
      PROVE  /\ UNCHANGED <<callerVars, rVars, gen, exitCh, dialer, exiting>>
             /\ UNCHANGED ready \/ WDeliver(g)
             /\ UNCHANGED writeQ \/ WPut(g) \/ WTakeWrite(g)
             /\ UNCHANGED frameQ \/ WTakeFrame(g)
             /\ UNCHANGED <<serving, runs>> \/ WWrite(g)
  BY <1>4 DEF WTop, WRegister, WAddress, WPut, WTakeWrite, WWrite, WTakeFrame, WLookup,
              WDeliver, WDelete, WExit, fieldVars, exitVars, peerVars
<1>5. ASSUME NEW g \in Gens, WWriteErr(g) \/ WStop(g)
      PROVE  UNCHANGED <<callerVars, ready, writeQ, frameQ, rVars, serving, runs>>
  BY <1>5 DEF WWriteErr, WStop, peerVars
<1>6. ASSUME NEW g \in Gens,
             \/ RLeave(g) \/ RTop(g) \/ RBegin(g) \/ RAddress(g) \/ RPush(g) \/ REnd(g)
             \/ \E c \in Calls : RRead(g, c)
      PROVE  /\ UNCHANGED <<callerVars, ready, writeQ, wVars, runs, gen, exitCh, dialer,
                            exiting>>
             /\ UNCHANGED frameQ \/ RPush(g)
             /\ UNCHANGED serving \/ RLeave(g) \/ \E c \in Calls : RRead(g, c)
  BY <1>6 DEF RLeave, RTop, RBegin, RAddress, RPush, REnd, RRead, fieldVars, exitVars, peerVars
<1>7. ASSUME NEW g \in Gens, RReadErr(g)
      PROVE  UNCHANGED <<callerVars, ready, writeQ, frameQ, wVars, serving, runs>>
  BY <1>7 DEF RReadErr, peerVars
<1>8. ASSUME NEW g \in Gens,
             \/ \E e \in Calls \X Attempts : RDrain(g, e)
             \/ \E how \in {"lost", "closed"} : ConnEnds(g, how)
      PROVE  /\ UNCHANGED <<callerVars, writeQ, frameQ, wVars, rVars, serving, runs, gen,
                            exitCh, dialer, exiting>>
             /\ UNCHANGED ready \/ \E e \in Calls \X Attempts : RDrain(g, e)
  BY <1>8 DEF RDrain, ConnEnds, fieldVars, exitVars, peerVars
<1>9. DialCheck \/ DialFail \/ DialOk \/ NewInflight \/ NewWriteChan =>
        UNCHANGED <<callerVars, ready, writeQ, frameQ, wVars, rVars, serving, runs>>
  BY DEF DialCheck, DialFail, DialOk, NewInflight, NewWriteChan, peerVars
<1>10. NewGeneration => UNCHANGED <<callerVars, ready, writeQ, frameQ, serving, runs>>
  BY DEF NewGeneration, peerVars
<1>11. CloseStop \/ CloseFlag \/ CloseReturn \/ CtxCancel \/ UNCHANGED vars =>
         UNCHANGED <<callerVars, ready, writeQ, frameQ, wVars, rVars, serving, runs, gen,
                     exitCh, dialer, exiting>>
  BY DEF CloseStop, CloseFlag, CloseReturn, CtxCancel, vars, callerVars, fieldVars, wVars,
         rVars, exitVars, peerVars
<1> QED
  BY NextCases, <1>1, <1>2, <1>3, <1>4, <1>5, <1>6, <1>7, <1>8, <1>9, <1>10, <1>11

-----------------------------------------------------------------------------
(* Types                                                                   *)

(* What a step leaves alone keeps its type.                                *)
LEMMA Frames ==
  ASSUME TypeOK
  PROVE  /\ UNCHANGED callerVars => CallerTypes'
         /\ UNCHANGED ready => ReadyTypes'
         /\ UNCHANGED fieldVars => FieldTypes'
         /\ UNCHANGED writeQ => WriteTypes'
         /\ UNCHANGED frameQ => FrameTypes'
         /\ UNCHANGED exitVars => ExitTypes'
         /\ gen' = gen /\ dialer' \in {dialer, "check"} => DialTypes'
         /\ UNCHANGED wVars => WTypes'
         /\ UNCHANGED rVars => RTypes'
         /\ UNCHANGED drainVars => DrainTypes'
         /\ UNCHANGED closeVars => CloseTypes'
         /\ UNCHANGED peerVars => PeerTypes'
<1> USE DEF TypeOK
<1>1. UNCHANGED callerVars => CallerTypes'  BY DEF callerVars, CallerTypes
<1>2. UNCHANGED ready => ReadyTypes'        BY DEF ReadyTypes
<1>3. UNCHANGED fieldVars => FieldTypes'    BY DEF fieldVars, FieldTypes
<1>4. UNCHANGED writeQ => WriteTypes'       BY DEF WriteTypes
<1>5. UNCHANGED frameQ => FrameTypes'       BY DEF FrameTypes
<1>6. UNCHANGED exitVars => ExitTypes'      BY DEF exitVars, ExitTypes
<1>7. UNCHANGED wVars => WTypes'            BY DEF wVars, WTypes
<1>8. UNCHANGED rVars => RTypes'            BY DEF rVars, RTypes
<1>9. UNCHANGED drainVars => DrainTypes'    BY DEF drainVars, DrainTypes
<1>10. UNCHANGED closeVars => CloseTypes'   BY DEF closeVars, CloseTypes
<1>11. UNCHANGED peerVars => PeerTypes'     BY DEF peerVars, PeerTypes
<1>12. gen' = gen /\ dialer' \in {dialer, "check"} => DialTypes'
  BY DEF DialTypes, ConnField, Replacing, FieldTypes
<1> QED
  BY <1>1, <1>2, <1>3, <1>4, <1>5, <1>6, <1>7, <1>8, <1>9, <1>10, <1>11, <1>12

(* The generations the fields name.                                        *)
LEMMA FieldGens ==
  ASSUME TypeOK
  PROVE  gen \in Gens /\ ConnField \in Gens /\ WriteField \in Gens
  BY DEF TypeOK, FieldTypes, DialTypes, ConnField, WriteField, Replacing

LEMMA TypeCallers ==
  ASSUME TypeOK, ClientAssumption, NEW c \in Calls,
         \/ Call(c) \/ CallExiting(c) \/ CallCtxDone(c)
         \/ CancelExiting(c) \/ Receive(c) \/ Retry(c)
  PROVE  TypeOK'
<1>1. CallerTypes'
  <2> USE DEF TypeOK, ClientAssumption, CallerTypes, Attempts
  <2>1. CASE Call(c)            BY <2>1 DEF Call
  <2>2. CASE CallExiting(c)     BY <2>2 DEF CallExiting
  <2>3. CASE CallCtxDone(c)     BY <2>3 DEF CallCtxDone
  <2>4. CASE CancelExiting(c)   BY <2>4 DEF CancelExiting
  <2>5. CASE Receive(c)
    <3>1. attempt[c] \in 1 .. MaxAttempts
      BY <2>5 DEF Receive
    <3>2. ready[c][attempt[c]] \in {"empty", "reply", "closed"}
      BY <3>1 DEF ReadyTypes
    <3>3. /\ cpc' = [cpc EXCEPT ![c] = "sleeping"] \/ cpc' = [cpc EXCEPT ![c] = "done"]
          /\ outcome' = outcome \/ outcome' = [outcome EXCEPT ![c] = ready[c][attempt[c]]]
          /\ ready[c][attempt[c]] # "empty"
          /\ UNCHANGED <<attempt, ctxSent>>
      BY <2>5 DEF Receive
    <3>4. cpc' \in [Calls -> {"idle", "sending", "waiting", "cancelling", "sleeping", "done"}]
      BY <3>3
    <3>5. outcome' \in [Calls -> {"none", "reply", "closed", "exiting"}]
      BY <3>2, <3>3
    <3>6. \A d \in Calls : cpc'[d] # "idle" => attempt[d] \in 1 .. MaxAttempts
      BY <3>1, <3>3
    <3> QED BY <3>3, <3>4, <3>5, <3>6
  <2>6. CASE Retry(c)           BY <2>6 DEF Retry
  <2> QED BY <2>1, <2>2, <2>3, <2>4, <2>5, <2>6
<1>2. ReadyTypes'
  <2>1. CASE UNCHANGED ready
    BY <2>1, Frames
  <2>2. CASE ready' = [ready EXCEPT ![c][attempt[c]] = "empty"]
    BY <2>2 DEF TypeOK, ReadyTypes
  <2> QED
    BY <2>1, <2>2 DEF Call, CallExiting, CallCtxDone, CancelExiting, Receive, Retry
<1>3. DialTypes'
  BY Frames DEF Call, CallExiting, CallCtxDone, CancelExiting, Receive, Retry, fieldVars,
                exitVars
<1> QED
  BY <1>1, <1>2, <1>3, Frames DEF TypeOK, Call, CallExiting, CallCtxDone, CancelExiting,
                                  Receive, Retry

(* Receiving from one of the channels keeps their types and capacities.    *)
LEMMA PopKeepsType ==
  ASSUME NEW S, NEW q \in [Gens -> Seq(S)], NEW cap \in Nat,
         \A h \in Gens : Len(q[h]) <= cap,
         NEW g \in Gens, q[g] # <<>>
  PROVE  /\ [q EXCEPT ![g] = Tail(@)] \in [Gens -> Seq(S)]
         /\ \A h \in Gens : Len([q EXCEPT ![g] = Tail(@)][h]) <= cap
         /\ Head(q[g]) \in S
<1>1. /\ Head(q[g]) \in S
      /\ Tail(q[g]) \in Seq(S)
      /\ Len(Tail(q[g])) = Len(q[g]) - 1
      /\ Len(q[g]) \in Nat
  BY HeadTailProperties
<1> QED BY <1>1

LEMMA ExitFunTypes ==
  ASSUME TypeOK, NEW g \in Gens, NEW retry \in BOOLEAN, ExitFun(g, retry),
         bretry' \in [Gens -> BOOLEAN], UNCHANGED gen
  PROVE  ExitTypes' /\ DialTypes'
<1>1. exitCh' \in [Gens -> BOOLEAN]
  BY DEF TypeOK, ExitTypes, ExitFun
<1>2. /\ dialer' \in {dialer, "check"}
      /\ exiting' \in Nat
  BY DEF TypeOK, ExitTypes, ExitFun
<1>3. dialer' \in {"off", "check", "dialing"} \cup Replacing
  BY <1>2 DEF TypeOK, ExitTypes
<1> QED BY <1>1, <1>2, <1>3, Frames DEF ExitTypes

LEMMA StartDrainTypes ==
  ASSUME TypeOK, ClientAssumption, NEW g \in Gens, StartDrain(g),
         UNCHANGED <<rhold, rconn, rchan, runs>>
  PROVE  RTypes' /\ DrainTypes' /\ PeerTypes'
<1>1. RTypes'
  BY DEF TypeOK, RTypes, StartDrain
<1>2. DrainTypes'
  <2>1. {<<c, inflight[c]>> : c \in {d \in Calls : inflight[d] # 0}}
          \in SUBSET (Calls \X Attempts)
    BY DEF TypeOK, FieldTypes, Attempts, ClientAssumption
  <2> QED BY <2>1 DEF TypeOK, DrainTypes, StartDrain
<1>3. PeerTypes'
  BY DEF TypeOK, PeerTypes, StartDrain
<1> QED BY <1>1, <1>2, <1>3

(* W takes a case of its select, or returns.                               *)
LEMMA SelectedTypes ==
  ASSUME TypeOK, NEW g \in Gens, NEW pc \in {"register", "address", "write", "lookup"},
         NEW m, IF pc = "lookup" THEN m \in Responses ELSE m \in Msgs, Selected(g, pc, m)
  PROVE  WTypes'
<1>1. /\ wpc' = [wpc EXCEPT ![g] = pc] /\ whold' = [whold EXCEPT ![g] = m]
      /\ wchan' = [wchan EXCEPT ![g] = g] /\ wframe' = [wframe EXCEPT ![g] = g]
  BY DEF Selected
<1>2. m \in Msgs \cup Responses \cup {NoMsg}
  OBVIOUS
<1>3. /\ wpc' \in [Gens -> {"none", "top", "select", "register", "address", "put",
                            "write", "lookup", "deliver", "delete", "exit"}]
      /\ whold' \in [Gens -> Msgs \cup Responses \cup {NoMsg}]
      /\ wchan' \in [Gens -> Gens] /\ wframe' \in [Gens -> Gens]
  BY <1>1, <1>2 DEF TypeOK, WTypes
<1>4. ASSUME NEW h \in Gens
      PROVE  /\ wpc'[h] \in {"register", "address", "put", "write", "deliver", "delete"} =>
                  whold'[h] \in Msgs
             /\ wpc'[h] = "lookup" => whold'[h] \in Responses
  <2>1. CASE h = g
    BY <1>1, <2>1 DEF TypeOK, WTypes
  <2>2. CASE h # g
    BY <1>1, <2>2 DEF TypeOK, WTypes
  <2> QED  BY <2>1, <2>2
<1> QED  BY <1>3, <1>4 DEF WTypes

LEMMA ReturnsTypes ==
  ASSUME TypeOK, NEW g \in Gens, WReturns(g)
  PROVE  WTypes'
  BY DEF TypeOK, WTypes, WReturns

LEMMA TypeW ==
  ASSUME TypeOK, ClientAssumption, NEW g \in Gens,
         \/ WTop(g) \/ WRegister(g) \/ WAddress(g) \/ WPut(g) \/ WTakeWrite(g) \/ WWrite(g)
         \/ WWriteErr(g) \/ WTakeFrame(g) \/ WLookup(g) \/ WDeliver(g) \/ WDelete(g)
         \/ WExit(g) \/ WStop(g)
  PROVE  TypeOK'
<1> USE DEF TypeOK
<1>1. CASE WTop(g)
  <2>1. WTypes'      BY <1>1, FieldGens DEF WTop, WTypes
  <2> QED BY <1>1, <2>1, Frames DEF WTop, exitVars, fieldVars
<1>2. CASE WRegister(g)
  <2>1. PICK c \in Calls, a \in Attempts : c = whold[g].call /\ a = whold[g].att
    BY <1>2 DEF WRegister, WTypes, Msgs
  <2>2. FieldTypes'
    BY <1>2, <2>1 DEF WRegister, FieldTypes, Attempts, ClientAssumption
  <2>3. ASSUME NEW todo \in SUBSET (Calls \X Attempts), NEW produced
        PROVE  RangeAfterInsert(todo, c, a, produced) \in SUBSET (Calls \X Attempts)
    BY DEF RangeAfterInsert
  <2>4. DrainTypes'
    <3>1. PICK producing \in SUBSET iter :
            rtodo' = [h \in Gens |->
                       IF h \in iter THEN RangeAfterInsert(rtodo[h], c, a, h \in producing)
                                     ELSE rtodo[h]]
      BY <1>2, <2>1 DEF WRegister
    <3>2. rtodo' \in [Gens -> SUBSET (Calls \X Attempts)]
      BY <2>3, <3>1 DEF DrainTypes
    <3> QED BY <1>2, <3>2 DEF WRegister, DrainTypes
  <2>5. WTypes'      BY <1>2 DEF WRegister, WTypes
  <2> QED BY <1>2, <2>2, <2>4, <2>5, Frames DEF WRegister, exitVars
<1>3. CASE WAddress(g)
  <2>1. WTypes'      BY <1>3, FieldGens DEF WAddress, WTypes
  <2> QED BY <1>3, <2>1, Frames DEF WAddress, exitVars, fieldVars
<1>4. CASE WPut(g)
  <2>1. WriteTypes'  BY <1>4 DEF WPut, WriteTypes, WTypes, ClientAssumption
  <2>2. WTypes'      BY <1>4 DEF WPut, WTypes
  <2> QED BY <1>4, <2>1, <2>2, Frames DEF WPut, exitVars, fieldVars
<1>5. CASE WTakeWrite(g)
  <2>1. PICK k \in Gens : k = wchan[g]
    BY DEF WTypes
  <2>2. writeQ[k] # <<>> /\ writeQ' = [writeQ EXCEPT ![k] = Tail(@)]
    BY <1>5, <2>1 DEF WTakeWrite
  <2>3. /\ Head(writeQ[k]) \in Msgs
        /\ WriteTypes'
    BY <2>2, PopKeepsType DEF WriteTypes, ClientAssumption
  <2>4. WTypes'
    BY <1>5, <2>1, <2>3, SelectedTypes DEF WTakeWrite
  <2> QED BY <1>5, <2>3, <2>4, Frames DEF WTakeWrite, exitVars, fieldVars
<1>6. CASE WWrite(g)
  <2>1. PICK c \in Calls, a \in Attempts : c = whold[g].call /\ a = whold[g].att
    BY <1>6 DEF WWrite, WTypes, Msgs
  <2>2. WTypes'      BY <1>6 DEF WWrite, WTypes
  <2>3. PeerTypes'
    <3>1. CASE UNCHANGED <<serving, runs>>
      BY <1>6, <3>1 DEF WWrite, PeerTypes
    <3>2. CASE /\ serving' = [serving EXCEPT ![ConnField] = @ \cup {<<c, a>>}]
               /\ runs' = [runs EXCEPT ![c][a] = @ + 1]
      <4>1. PICK k \in Gens : k = ConnField
        BY FieldGens
      <4>2. serving' \in [Gens -> SUBSET (Calls \X Attempts)]
        BY <3>2, <4>1 DEF PeerTypes
      <4>3. runs' \in [Calls -> [Attempts -> Nat]]
        BY <3>2 DEF PeerTypes
      <4> QED BY <1>6, <4>2, <4>3 DEF WWrite, PeerTypes
    <3> QED BY <1>6, <2>1, <3>1, <3>2 DEF WWrite
  <2> QED BY <1>6, <2>2, <2>3, Frames DEF WWrite, exitVars, fieldVars
<1>7. CASE WWriteErr(g)
  <2>1. ExitTypes' /\ DialTypes'
    BY <1>7, ExitFunTypes DEF WWriteErr, ExitTypes, fieldVars
  <2> QED BY <1>7, <2>1, ReturnsTypes, Frames DEF WWriteErr
<1>8. CASE WTakeFrame(g)
  <2>1. PICK k \in Gens : k = wframe[g]
    BY DEF WTypes
  <2>2. frameQ[k] # <<>> /\ frameQ' = [frameQ EXCEPT ![k] = Tail(@)]
    BY <1>8, <2>1 DEF WTakeFrame
  <2>3. /\ Head(frameQ[k]) \in Calls
        /\ FrameTypes'
    BY <2>2, PopKeepsType DEF FrameTypes, ClientAssumption
  <2>4. [kind |-> "response", call |-> Head(frameQ[k]), att |-> 0] \in Responses
    BY <2>3 DEF Responses
  <2>5. WTypes'
    BY <1>8, <2>1, <2>4, SelectedTypes DEF WTakeFrame
  <2> QED BY <1>8, <2>3, <2>5, Frames DEF WTakeFrame, exitVars, fieldVars
<1>9. CASE WLookup(g)
  <2>1. PICK c \in Calls : c = whold[g].call
    BY <1>9 DEF WLookup, WTypes, Responses
  <2>2. CASE inflight[c] = 0 /\ wpc' = [wpc EXCEPT ![g] = "top"]
             /\ whold' = [whold EXCEPT ![g] = NoMsg]
    <3>1. WTypes'  BY <1>9, <2>2 DEF WLookup, WTypes
    <3> QED BY <1>9, <3>1, Frames DEF WLookup, exitVars, fieldVars
  <2>3. CASE /\ inflight[c] # 0
             /\ wpc' = [wpc EXCEPT ![g] = "deliver"]
             /\ whold' = [whold EXCEPT ![g] =
                  [kind |-> "call", call |-> c, att |-> inflight[c]]]
    <3>1. inflight[c] \in Attempts
      BY <2>3 DEF FieldTypes, Attempts, ClientAssumption
    <3>2. [kind |-> "call", call |-> c, att |-> inflight[c]] \in Msgs
      BY <3>1 DEF Msgs
    <3>3. WTypes'  BY <1>9, <2>3, <3>2 DEF WLookup, WTypes
    <3> QED BY <1>9, <3>3, Frames DEF WLookup, exitVars, fieldVars
  <2> QED BY <1>9, <2>1, <2>2, <2>3 DEF WLookup
<1>10. CASE WDeliver(g)
  <2>1. whold[g] \in Msgs  BY <1>10 DEF WDeliver, WTypes
  <2>2. ReadyTypes'        BY <1>10, <2>1 DEF WDeliver, ReadyTypes, Msgs
  <2>3. WTypes'            BY <1>10, <2>1 DEF WDeliver, WTypes
  <2> QED BY <1>10, <2>2, <2>3, Frames DEF WDeliver, exitVars, fieldVars
<1>11. CASE WDelete(g)
  <2>1. 0 \in 0 .. MaxAttempts  BY DEF ClientAssumption
  <2>2. FieldTypes'  BY <1>11, <2>1 DEF WDelete, FieldTypes
  <2>3. DrainTypes'  BY <1>11 DEF WDelete, DrainTypes
  <2>4. WTypes'      BY <1>11 DEF WDelete, WTypes
  <2> QED BY <1>11, <2>2, <2>3, <2>4, Frames DEF WDelete, exitVars
<1>12. CASE WExit(g)
  BY <1>12, ReturnsTypes, Frames DEF WExit, exitVars, fieldVars
<1>13. CASE WStop(g)
  <2>1. PeerTypes'   BY <1>13, FieldGens DEF WStop, PeerTypes
  <2>2. ExitTypes' /\ DialTypes'
    BY <1>13, ExitFunTypes DEF WStop, ExitTypes, fieldVars
  <2> QED BY <1>13, <2>1, <2>2, ReturnsTypes, Frames DEF WStop
<1> QED
  BY <1>1, <1>2, <1>3, <1>4, <1>5, <1>6, <1>7, <1>8, <1>9, <1>10, <1>11, <1>12, <1>13

LEMMA TypeRequests ==
  ASSUME TypeOK, ClientAssumption, NEW g \in Gens, NEW c \in Calls,
         WTakeCall(g, c) \/ WTakeCancel(g, c)
  PROVE  TypeOK'
<1> USE DEF TypeOK
<1>1. attempt[c] \in Attempts
  BY DEF WTakeCall, WTakeCancel, CallerTypes
<1>2. CallerTypes'
  BY DEF WTakeCall, WTakeCancel, CallerTypes
<1>3. \A kind \in {"call", "cancel"} :
        [kind |-> kind, call |-> c, att |-> attempt[c]] \in Msgs
  BY <1>1 DEF Msgs
<1>4. WTypes'
  BY <1>3, SelectedTypes DEF WTakeCall, WTakeCancel
<1> QED BY <1>2, <1>4, Frames DEF WTakeCall, WTakeCancel, exitVars, fieldVars

LEMMA TypeR ==
  ASSUME TypeOK, ClientAssumption, NEW g \in Gens,
         \/ RLeave(g) \/ RTop(g) \/ RBegin(g) \/ RAddress(g) \/ RPush(g) \/ RReadErr(g)
         \/ REnd(g)
         \/ \E e \in Calls \X Attempts : RDrain(g, e)
         \/ \E c \in Calls : RRead(g, c)
  PROVE  TypeOK'
<1> USE DEF TypeOK
<1>1. CASE RLeave(g)
  BY <1>1, StartDrainTypes, Frames DEF RLeave, exitVars, fieldVars
<1>2. CASE RTop(g)
  <2>1. RTypes'  BY <1>2 DEF RTop, RTypes
  <2> QED BY <1>2, <2>1, Frames DEF RTop, exitVars, fieldVars
<1>3. CASE RPush(g)
  <2>1. rhold[g] \in Calls  BY <1>3 DEF RPush, RTypes
  <2>2. FrameTypes'         BY <1>3, <2>1 DEF RPush, RTypes, FrameTypes, ClientAssumption
  <2>3. RTypes'             BY <1>3 DEF RPush, RTypes
  <2> QED BY <1>3, <2>2, <2>3, Frames DEF RPush, exitVars, fieldVars
<1>4. CASE RReadErr(g)
  <2>1. bretry' \in [Gens -> BOOLEAN] /\ bretry'[g] \in BOOLEAN
    BY <1>4 DEF RReadErr, ExitTypes
  <2>2. ExitTypes' /\ DialTypes'
    BY <1>4, <2>1, ExitFunTypes DEF RReadErr, fieldVars
  <2>3. RTypes'  BY <1>4 DEF RReadErr, RTypes
  <2> QED BY <1>4, <2>2, <2>3, Frames DEF RReadErr
<1>5. CASE REnd(g)
  <2>1. 0 \in 0 .. MaxAttempts  BY DEF ClientAssumption
  <2>2. FieldTypes'  BY <1>5, <2>1 DEF REnd, FieldTypes
  <2>3. DrainTypes'  BY <1>5 DEF REnd, DrainTypes
  <2>4. RTypes'      BY <1>5 DEF REnd, RTypes
  <2> QED BY <1>5, <2>2, <2>3, <2>4, Frames DEF REnd, exitVars
<1>6. ASSUME NEW e \in Calls \X Attempts, RDrain(g, e)
      PROVE  TypeOK'
  <2>1. DrainTypes'  BY <1>6 DEF RDrain, DrainTypes
  <2>2. ReadyTypes'  BY <1>6 DEF RDrain, ReadyTypes
  <2> QED BY <1>6, <2>1, <2>2, Frames DEF RDrain, exitVars, fieldVars
<1>7. ASSUME NEW c \in Calls, RRead(g, c)
      PROVE  TypeOK'
  <2>1. RTypes'      BY <1>7 DEF RRead, RTypes
  <2>2. PeerTypes'   BY <1>7 DEF RRead, PeerTypes, RTypes
  <2> QED BY <1>7, <2>1, <2>2, Frames DEF RRead, exitVars, fieldVars
<1>8. CASE RBegin(g)
  <2>1. RTypes'  BY <1>8, FieldGens DEF RBegin, RTypes
  <2> QED BY <1>8, <2>1, Frames DEF RBegin, exitVars, fieldVars
<1>9. CASE RAddress(g)
  <2>1. RTypes'  BY <1>9, FieldGens DEF RAddress, RTypes
  <2> QED BY <1>9, <2>1, Frames DEF RAddress, exitVars, fieldVars
<1> QED BY <1>1, <1>2, <1>3, <1>4, <1>5, <1>6, <1>7, <1>8, <1>9

LEMMA TypeDialer ==
  ASSUME TypeOK, ClientAssumption,
         \/ DialCheck \/ DialFail \/ DialOk
         \/ NewInflight \/ NewWriteChan \/ NewGeneration
  PROVE  TypeOK'
<1> USE DEF TypeOK
<1>1. gen \in Gens /\ gen \in Int
  BY DEF FieldTypes, Gens
<1>2. CASE DialCheck
  <2>1. ExitTypes' /\ DialTypes'
    BY <1>1, <1>2 DEF DialCheck, ExitTypes, DialTypes, ConnField, Replacing, fieldVars
  <2> QED BY <1>2, <2>1, Frames DEF DialCheck
<1>3. CASE DialFail
  <2>1. ExitTypes' /\ DialTypes'
    BY <1>1, <1>3 DEF DialFail, ExitTypes, DialTypes, ConnField, Replacing, fieldVars
  <2> QED BY <1>3, <2>1, Frames DEF DialFail
<1>4. CASE DialOk
  <2>1. gen + 1 \in Gens
    BY <1>1, <1>4 DEF DialOk, Gens, ClientAssumption
  <2>2. ExitTypes' /\ DialTypes'
    BY <1>4, <2>1 DEF DialOk, ExitTypes, DialTypes, ConnField, Replacing, fieldVars
  <2>3. PeerTypes'  BY <1>4 DEF DialOk, PeerTypes
  <2> QED BY <1>4, <2>2, <2>3, Frames DEF DialOk
<1>5. CASE NewInflight
  <2>1. 0 \in 0 .. MaxAttempts  BY DEF ClientAssumption
  <2>2. FieldTypes'  BY <1>5, <2>1 DEF NewInflight, FieldTypes
  <2>3. DrainTypes'  BY <1>5 DEF NewInflight, DrainTypes
  <2>4. ExitTypes' /\ DialTypes'
    BY <1>5 DEF NewInflight, ExitTypes, DialTypes, ConnField, Replacing
  <2> QED BY <1>5, <2>2, <2>3, <2>4, Frames DEF NewInflight
<1>6. CASE NewWriteChan
  <2>1. ExitTypes' /\ DialTypes'
    BY <1>6 DEF NewWriteChan, ExitTypes, DialTypes, ConnField, Replacing, fieldVars
  <2> QED BY <1>6, <2>1, Frames DEF NewWriteChan
<1>7. CASE NewGeneration
  <2>1. gen' = gen + 1 /\ gen + 1 \in Gens /\ dialer' = "off"
    BY <1>7 DEF NewGeneration, DialTypes, ConnField, Replacing
  <2>2. FieldTypes'  BY <1>7, <2>1 DEF NewGeneration, FieldTypes
  <2>3. ExitTypes' /\ DialTypes'
    BY <1>7, <2>1 DEF NewGeneration, ExitTypes, DialTypes, ConnField, Replacing
  <2>4. WTypes'      BY <1>7 DEF NewGeneration, WTypes
  <2>5. RTypes'      BY <1>7 DEF NewGeneration, RTypes
  <2> QED BY <1>7, <2>2, <2>3, <2>4, <2>5, Frames DEF NewGeneration
<1> QED BY <1>2, <1>3, <1>4, <1>5, <1>6, <1>7

LEMMA TypeOthers ==
  ASSUME TypeOK, ClientAssumption,
         \/ CloseStop \/ CloseFlag \/ CloseReturn \/ CtxCancel
         \/ \E g \in Gens : \E how \in {"lost", "closed"} : ConnEnds(g, how)
         \/ UNCHANGED vars
  PROVE  TypeOK'
<1> USE DEF TypeOK
<1>1. CASE CloseStop \/ CloseFlag \/ CloseReturn \/ CtxCancel
  <2>1. CloseTypes'
    BY <1>1 DEF CloseStop, CloseFlag, CloseReturn, CtxCancel, CloseTypes
  <2>2. DialTypes'
    BY <1>1, Frames DEF CloseStop, CloseFlag, CloseReturn, CtxCancel, exitVars, fieldVars
  <2> QED BY <1>1, <2>1, <2>2, Frames DEF CloseStop, CloseFlag, CloseReturn, CtxCancel
<1>2. ASSUME NEW g \in Gens, NEW how \in {"lost", "closed"}, ConnEnds(g, how)
      PROVE  TypeOK'
  <2>1. PeerTypes'  BY <1>2 DEF ConnEnds, PeerTypes
  <2> QED BY <1>2, <2>1, Frames DEF ConnEnds, exitVars, fieldVars
<1>3. CASE UNCHANGED vars
  BY <1>3, Frames DEF vars, callerVars, fieldVars, exitVars, wVars, rVars, drainVars,
                      closeVars, peerVars
<1> QED BY <1>1, <1>2, <1>3

LEMMA TypeInit ==
  ASSUME Init, ClientAssumption
  PROVE  TypeOK
<1> USE DEF Init, Gens, Attempts, ClientAssumption
<1>1. CallerTypes /\ ReadyTypes   BY DEF CallerTypes, ReadyTypes
<1>2. FieldTypes /\ DialTypes     BY DEF FieldTypes, DialTypes, ConnField, Replacing
<1>3. WriteTypes /\ FrameTypes    BY DEF WriteTypes, FrameTypes
<1>4. ExitTypes /\ CloseTypes     BY DEF ExitTypes, CloseTypes
<1>5. WTypes                      BY DEF WTypes
<1>6. RTypes                      BY DEF RTypes
<1>7. DrainTypes /\ PeerTypes     BY DEF DrainTypes, PeerTypes
<1> QED BY <1>1, <1>2, <1>3, <1>4, <1>5, <1>6, <1>7 DEF TypeOK

LEMMA TypeStep ==
  ASSUME TypeOK, ClientAssumption, [Next]_vars
  PROVE  TypeOK'
  BY NextCases, TypeCallers, TypeW, TypeRequests, TypeR, TypeDialer, TypeOthers

(* Every variable keeps its type, and no channel ever holds more than its  *)
(* capacity (websocket.go:424-434, client.go:406-412).                     *)
THEOREM TypeCorrect == Spec => []TypeOK
<1>1. Init => TypeOK
  BY TypeInit, ClientAssumption
<1>2. TypeOK /\ [Next]_vars => TypeOK'
  BY TypeStep, ClientAssumption
<1> QED BY <1>1, <1>2, PTL DEF Spec

-----------------------------------------------------------------------------
(* One owner, exiting closed once                                          *)

(* Nothing of a generation moves before NewGeneration starts it.           *)
Unborn ==
  \A g \in Gens : g > gen => ~exitCh[g] /\ wpc[g] = "none" /\ rpc[g] = "none"

OwnerInv == TypeOK /\ OneOwner /\ Unborn

(* Only the current generation's exitfun has an effect, and only once.     *)
LEMMA ExitFunOwner ==
  ASSUME OwnerInv, NEW g \in Gens, g <= gen, NEW retry \in BOOLEAN, ExitFun(g, retry),
         UNCHANGED gen
  PROVE  OneOwner' /\ \A h \in Gens : h > gen => ~exitCh'[h]
<1>1. gen \in Gens /\ exitCh \in [Gens -> BOOLEAN] /\ gen \in Int /\ g \in Int
  BY DEF OwnerInv, TypeOK, FieldTypes, ExitTypes, Gens
<1>2. \A h \in Gens : h > gen => ~exitCh'[h]
  BY <1>1 DEF OwnerInv, Unborn, ExitFun, Gens
<1>3. \A h \in 1 .. gen - 1 : exitCh'[h]
  BY <1>1 DEF OwnerInv, OneOwner, ExitFun, Gens
<1>4. CASE exitCh[g]
  <2>1. exitCh' = exitCh /\ UNCHANGED <<dialer, exiting>>
    BY <1>1, <1>4 DEF ExitFun
  <2> QED BY <1>2, <2>1 DEF OwnerInv, OneOwner
<1>5. CASE ~exitCh[g]
  <2>1. g = gen
    BY <1>1, <1>5 DEF OwnerInv, OneOwner, Gens
  <2>2. dialer = "off" /\ exiting = 0
    BY <1>5, <2>1 DEF OwnerInv, OneOwner
  <2>3. exitCh'[gen]
    BY <1>1, <2>1 DEF ExitFun
  <2>4. \/ dialer' = "check" /\ exiting' = 0
        \/ dialer' = "off" /\ exiting' = 1
    BY <1>5, <2>2 DEF ExitFun
  <2> QED BY <1>2, <1>3, <2>3, <2>4 DEF OneOwner
<1> QED BY <1>4, <1>5

(* No goroutine of a generation starts but with NewGeneration.             *)
LEMMA NoneStarts ==
  ASSUME TypeOK, [Next]_vars, ~NewGeneration, NEW g \in Gens
  PROVE  /\ wpc[g] = "none" => wpc'[g] = "none"
         /\ rpc[g] = "none" => rpc'[g] = "none"
<1>1. wpc[g] = "none" => wpc'[g] = "none"
  <2>1. CASE UNCHANGED wVars
    BY <2>1 DEF wVars
  <2>2. ASSUME NEW h \in Gens,
               \/ \E c \in Calls : WTakeCall(h, c) \/ WTakeCancel(h, c)
               \/ WTop(h) \/ WRegister(h) \/ WAddress(h) \/ WPut(h)
               \/ WTakeWrite(h) \/ WWrite(h) \/ WWriteErr(h)
               \/ WTakeFrame(h) \/ WLookup(h) \/ WDeliver(h) \/ WDelete(h)
               \/ WExit(h) \/ WStop(h)
        PROVE  wpc[h] # "none" /\ (h # g => wpc'[g] = wpc[g])
    BY <2>2 DEF WTakeCall, WTakeCancel, WTop, WRegister, WAddress, WPut, WTakeWrite, WWrite,
                WWriteErr, WTakeFrame, WLookup, WDeliver, WDelete, WExit, WStop, Selected,
                WReturns, TypeOK, WTypes
  <2> QED  BY <2>1, <2>2, Writers
<1>2. rpc[g] = "none" => rpc'[g] = "none"
  <2>1. CASE UNCHANGED rVars
    BY <2>1 DEF rVars
  <2>2. ASSUME NEW h \in Gens,
               \/ \E c \in Calls : RRead(h, c)
               \/ RLeave(h) \/ RTop(h) \/ RBegin(h) \/ RAddress(h)
               \/ RPush(h) \/ RReadErr(h) \/ REnd(h)
        PROVE  rpc[h] # "none" /\ (h # g => rpc'[g] = rpc[g])
    BY <2>2 DEF RRead, RLeave, RTop, RBegin, RAddress, RPush, RReadErr, REnd, StartDrain,
                TypeOK, RTypes
  <2> QED  BY <2>1, <2>2, Writers
<1> QED  BY <1>1, <1>2

LEMMA OwnerStep ==
  ASSUME OwnerInv, ClientAssumption, [Next]_vars
  PROVE  OwnerInv'
<1>1. TypeOK'
  BY TypeStep DEF OwnerInv
<1>2. gen \in Gens /\ gen \in Int /\ \A g \in Gens : g \in Int
  BY DEF OwnerInv, TypeOK, FieldTypes, Gens
<1>3. ~NewGeneration => \A g \in Gens : /\ wpc[g] = "none" => wpc'[g] = "none"
                                        /\ rpc[g] = "none" => rpc'[g] = "none"
  BY NoneStarts DEF OwnerInv
<1> USE DEF OwnerInv
<1>4. CASE UNCHANGED <<gen, exitCh, dialer, exiting>>
  <2>1. ~NewGeneration
    BY <1>2, <1>4 DEF NewGeneration
  <2> QED  BY <1>1, <1>3, <1>4, <2>1 DEF OneOwner, Unborn
<1>5. ASSUME NEW g \in Gens, WWriteErr(g) \/ WStop(g) \/ RReadErr(g)
      PROVE  OwnerInv'
  <2>1. \E retry \in BOOLEAN : ExitFun(g, retry)
    <3>1. CASE WWriteErr(g) \/ WStop(g)
      BY <3>1 DEF WWriteErr, WStop, TypeOK, ExitTypes
    <3>2. CASE RReadErr(g)
      BY <3>2 DEF RReadErr, TypeOK, ExitTypes
    <3> QED  BY <1>5, <3>1, <3>2
  <2>2. wpc[g] # "none" \/ rpc[g] # "none"
    BY <1>5 DEF WWriteErr, WStop, RReadErr
  <2>3. g <= gen
    BY <1>2, <2>2 DEF Unborn
  <2>4. UNCHANGED gen
    BY <1>5 DEF WWriteErr, WStop, RReadErr, fieldVars
  <2>5. ~NewGeneration
    BY <1>2, <2>4 DEF NewGeneration
  <2> QED BY <1>1, <1>3, <2>1, <2>3, <2>4, <2>5, ExitFunOwner DEF Unborn
<1>6. CASE DialCheck \/ DialFail \/ DialOk \/ NewInflight \/ NewWriteChan
  <2>1. UNCHANGED <<gen, exitCh>>
    BY <1>6 DEF DialCheck, DialFail, DialOk, NewInflight, NewWriteChan, fieldVars
  <2>2. dialer # "off"
    BY <1>6 DEF DialCheck, DialFail, DialOk, NewInflight, NewWriteChan
  <2>3. exitCh[gen] /\ exiting = 0
    BY <2>2 DEF OneOwner
  <2>4. \/ dialer' # "off" /\ exiting' = 0
        \/ dialer' = "off" /\ exiting' = 1
    BY <1>6, <2>3 DEF DialCheck, DialFail, DialOk, NewInflight, NewWriteChan
  <2>5. ~NewGeneration
    BY <1>2, <2>1 DEF NewGeneration
  <2> QED  BY <1>1, <1>3, <2>1, <2>3, <2>4, <2>5 DEF OneOwner, Unborn
<1>7. CASE NewGeneration
  <2>1. /\ gen' = gen + 1 /\ dialer' = "off" /\ dialer = "writeChan"
        /\ UNCHANGED <<exitCh, exiting>>
        /\ wpc' = [wpc EXCEPT ![gen + 1] = "top"]
        /\ rpc' = [rpc EXCEPT ![gen + 1] = "top"]
    BY <1>7 DEF NewGeneration
  <2>2. gen + 1 \in Gens /\ exitCh[gen] /\ exiting = 0
    BY <1>2, <2>1 DEF OneOwner, TypeOK, DialTypes, ConnField, Replacing
  <2>3. ~exitCh[gen + 1]
    BY <1>2, <2>2 DEF Unborn
  <2>4. \A g \in 1 .. gen' - 1 : exitCh'[g]
    BY <1>2, <2>1, <2>2 DEF OneOwner, Gens
  <2>5. Unborn'
    <3> SUFFICES ASSUME NEW g \in Gens, g > gen'
                 PROVE  ~exitCh'[g] /\ wpc'[g] = "none" /\ rpc'[g] = "none"
      BY DEF Unborn
    <3>1. g > gen /\ g # gen + 1
      BY <1>2, <2>1
    <3>2. ~exitCh[g] /\ wpc[g] = "none" /\ rpc[g] = "none"
      BY <3>1 DEF Unborn
    <3>3. wpc'[g] = wpc[g] /\ rpc'[g] = rpc[g]
      BY <2>1, <2>2, <3>1 DEF TypeOK, WTypes, RTypes
    <3> QED BY <2>1, <3>2, <3>3
  <2>6. ~exitCh'[gen'] /\ dialer' = "off" /\ exiting' = 0
    BY <2>1, <2>2, <2>3
  <2>7. OneOwner'
    BY <2>4, <2>6 DEF OneOwner
  <2> QED BY <1>1, <2>5, <2>7
<1> QED
  BY Writers, <1>4, <1>5, <1>6, <1>7

LEMMA OwnerInit ==
  ASSUME Init, ClientAssumption
  PROVE  OwnerInv
<1>1. TypeOK
  BY TypeInit
<1> QED
  BY <1>1 DEF Init, OwnerInv, OneOwner, Unborn, Gens, ClientAssumption

LEMMA OwnerAlways == Spec => []OwnerInv
<1>1. Init => OwnerInv
  BY OwnerInit, ClientAssumption
<1>2. OwnerInv /\ [Next]_vars => OwnerInv'
  BY OwnerStep, ClientAssumption
<1> QED BY <1>1, <1>2, PTL DEF Spec

(* Whatever W, R and the redialer of all generations do, one of them at    *)
(* most is in charge of the future of the client (websocket.go:436-456).   *)
THEOREM OwnerIsUnique == Spec => []OneOwner
<1>1. OwnerInv => OneOwner
  BY DEF OwnerInv
<1> QED BY <1>1, OwnerAlways, PTL

(* exiting is never closed twice, which would panic (websocket.go:451,     *)
(* 454): the generations share it, each with a once of its own.            *)
THEOREM ExitingOnce == Spec => []ExitingClosedOnce
<1>1. OwnerInv => ExitingClosedOnce
  BY DEF OwnerInv, OneOwner, ExitingClosedOnce
<1> QED BY <1>1, OwnerAlways, PTL

(* No connection is made once exiting is closed (websocket.go:440-451).    *)
THEOREM ExitingIsFinal == Spec => NoConnectionAfterExiting
<1>1. OwnerInv /\ [Next]_vars => [exiting > 0 => ConnField' = ConnField]_vars
  <2> SUFFICES ASSUME OwnerInv, [Next]_vars, exiting > 0
               PROVE  ConnField' = ConnField
    OBVIOUS
  <2>1. /\ dialer = "off" /\ exitCh[gen]
        /\ gen \in Gens /\ gen \in Int /\ \A g \in Gens : g \in Int
        /\ exitCh \in [Gens -> BOOLEAN]
    BY DEF OwnerInv, OneOwner, TypeOK, FieldTypes, ExitTypes, Gens
  <2>2. ASSUME NEW g \in Gens, ExitFun(g, TRUE) \/ ExitFun(g, FALSE),
               wpc[g] # "none" \/ rpc[g] # "none"
        PROVE  UNCHANGED dialer
    <3>1. g <= gen
      BY <2>1, <2>2 DEF OwnerInv, Unborn
    <3>2. exitCh[g]
      BY <2>1, <3>1 DEF OwnerInv, OneOwner, Gens
    <3> QED  BY <2>2, <3>2 DEF ExitFun
  <2>3. ASSUME NEW g \in Gens, WWriteErr(g) \/ WStop(g) \/ RReadErr(g)
        PROVE  UNCHANGED <<gen, dialer>>
    <3>1. ExitFun(g, TRUE) \/ ExitFun(g, FALSE)
      <4>1. CASE WWriteErr(g)
        BY <4>1 DEF WWriteErr, OwnerInv, TypeOK, ExitTypes
      <4>2. CASE RReadErr(g)
        BY <4>2 DEF RReadErr, OwnerInv, TypeOK, ExitTypes
      <4> QED  BY <2>3, <4>1, <4>2 DEF WStop
    <3> QED  BY <2>2, <2>3, <3>1 DEF WWriteErr, WStop, RReadErr, fieldVars
  <2>4. ~(\/ DialCheck \/ DialFail \/ DialOk \/ NewInflight \/ NewWriteChan \/ NewGeneration)
    BY <2>1 DEF DialCheck, DialFail, DialOk, NewInflight, NewWriteChan, NewGeneration
  <2> QED
    BY Writers, <2>3, <2>4 DEF ConnField
<1> QED BY <1>1, OwnerAlways, PTL DEF Spec, NoConnectionAfterExiting

-----------------------------------------------------------------------------
(* WsClient implements RpcCall: whatever happens to connections and to    *)
(* the goroutines of old ones, the remote runs an attempt at most once and *)
(* a reply means that it ran.                                              *)

HasRun(c) == \E a \in Attempts : runs[c][a] > 0

(* An answer on its way comes from a run of its call.                      *)
AnswersHaveRun ==
  /\ \A g \in Gens, c \in Calls, a \in Attempts : <<c, a>> \in serving[g] => HasRun(c)
  /\ \A g \in Gens : rpc[g] \in {"got", "push"} => HasRun(rhold[g])
  /\ \A g \in Gens, i \in 1 .. FrameCap : i <= Len(frameQ[g]) => HasRun(frameQ[g][i])
  /\ \A g \in Gens : wpc[g] \in {"lookup", "deliver"} => HasRun(whold[g].call)
  /\ \A c \in Calls, a \in Attempts : ready[c][a] = "reply" => HasRun(c)

Callers ==
  /\ \A c \in Calls : cpc[c] = "idle" => attempt[c] = 0
  /\ \A c \in Calls : cpc[c] = "sleeping" => c \in RetryCalls
  /\ \A c \in Calls : cpc[c] = "done" => outcome[c] # "none"

RefInv == TypeOK /\ OnePlace /\ AnswersHaveRun /\ Callers

-----------------------------------------------------------------------------
(* The requests that wait to be written                                    *)

LEMMA QueuedBound ==
  ASSUME TypeOK, ClientAssumption, NEW g \in Gens, NEW i, NEW m, Queued(g, i, m)
  PROVE  i \in 1 .. WriteCap /\ i \in Nat
  BY DEF Queued, TypeOK, WriteTypes, ClientAssumption

(* What OnePlace says of one message.                                      *)
InOnePlace(m) ==
  /\ \A g, h \in Gens, i, j \in 1 .. WriteCap :
       Queued(g, i, m) /\ Queued(h, j, m) => g = h /\ i = j
  /\ \A g, h \in Gens, i \in 1 .. WriteCap : ~(Queued(g, i, m) /\ Held(h, m))
  /\ \A g, h \in Gens : Held(g, m) /\ Held(h, m) => g = h
  /\ \A g \in Gens : Held(g, m) \/ (\E i \in 1 .. WriteCap : Queued(g, i, m)) =>
       ~Untaken(m.call, m.att) /\ runs[m.call][m.att] = 0
  /\ Untaken(m.call, m.att) => runs[m.call][m.att] = 0

LEMMA RequestFields == \A m \in Requests : m.call \in Calls /\ m.att \in Attempts
  BY DEF Requests, Msgs

(* A step that moves no request and hands over none.                       *)
LEMMA OnePlaceFrame ==
  ASSUME OnePlace, UNCHANGED <<writeQ, runs>>,
         \A g \in Gens, m \in Requests : Held(g, m)' => Held(g, m),
         \A c \in Calls, a \in Attempts : Untaken(c, a)' => Untaken(c, a)
  PROVE  OnePlace'
<1>1. \A g \in Gens : \A i, m : Queued(g, i, m)' <=> Queued(g, i, m)
  BY DEF Queued
<1> QED
  BY <1>1, RequestFields DEF OnePlace

(* W takes a request from its caller: no place holds it yet.               *)
LEMMA OnePlaceTake ==
  ASSUME RefInv, ClientAssumption, NEW g \in Gens, NEW c \in Calls, WTakeCall(g, c)
  PROVE  OnePlace'
<1> DEFINE m0 == [kind |-> "call", call |-> c, att |-> attempt[c]]
<1>1. m0 \in Requests /\ attempt[c] \in Attempts
  BY DEF WTakeCall, RefInv, TypeOK, CallerTypes, Requests, Msgs
<1>2. Untaken(c, attempt[c])
  BY DEF WTakeCall, Untaken
<1>3. /\ \A h \in Gens : ~Held(h, m0)
      /\ \A h \in Gens : \A i : ~Queued(h, i, m0)
      /\ runs[c][attempt[c]] = 0
  BY <1>1, <1>2, QueuedBound DEF RefInv, OnePlace
<1>4. \A h \in Gens : \A i, m : Queued(h, i, m)' <=> Queued(h, i, m)
  BY DEF Queued, WTakeCall
<1>5. \A h \in Gens, m \in Requests : Held(h, m)' => Held(h, m) \/ (h = g /\ m = m0)
  BY DEF Held, WTakeCall, Selected, RefInv, TypeOK, WTypes
<1>6. \A d \in Calls, a \in Attempts :
        Untaken(d, a)' => Untaken(d, a) /\ ~(d = c /\ a = attempt[c])
  BY <1>1 DEF Untaken, WTakeCall, RefInv, TypeOK, CallerTypes, Attempts, ClientAssumption
<1>7. UNCHANGED runs
  BY DEF WTakeCall, peerVars
<1> HIDE DEF m0
<1>8. m0.call = c /\ m0.att = attempt[c]
  BY DEF m0
<1> SUFFICES ASSUME NEW m \in Requests
             PROVE  InOnePlace(m)'
  BY DEF OnePlace, InOnePlace
<1>9. CASE m = m0
  BY <1>3, <1>4, <1>5, <1>6, <1>7, <1>8, <1>9, RequestFields DEF InOnePlace
<1>10. CASE m # m0
  BY <1>4, <1>5, <1>6, <1>7, <1>10, RequestFields DEF RefInv, OnePlace, InOnePlace
<1> QED BY <1>9, <1>10

(* W sends what it holds to the channel: the request changes its place.    *)
LEMMA OnePlacePut ==
  ASSUME RefInv, ClientAssumption, NEW g \in Gens, WPut(g)
  PROVE  OnePlace'
<1> DEFINE k == wchan[g]
           n == Len(writeQ[k]) + 1
<1>1. /\ k \in Gens /\ whold[g] \in Msgs /\ writeQ[k] \in Seq(Msgs) /\ n \in Nat
      /\ n \in 1 .. WriteCap
  BY DEF WPut, RefInv, TypeOK, WTypes, WriteTypes, ClientAssumption
<1>2. writeQ' = [writeQ EXCEPT ![k] = Append(@, whold[g])]
  BY DEF WPut
<1>3. \A h \in Gens : \A i, m : Queued(h, i, m)' =>
        Queued(h, i, m) \/ (h = k /\ i = n /\ m = whold[g])
  BY <1>1, <1>2 DEF Queued, RefInv, TypeOK, WriteTypes
<1>4. \A h \in Gens, m \in Requests : Held(h, m)' => Held(h, m) /\ h # g
  BY DEF Held, WPut, RefInv, TypeOK, WTypes
<1>5. \A i, m : Queued(k, i, m) => i # n
  BY <1>1 DEF Queued
<1>6. Held(g, whold[g])
  BY DEF Held, WPut
<1>7. /\ \A d, a : Untaken(d, a)' <=> Untaken(d, a)
      /\ UNCHANGED runs
  BY DEF Untaken, WPut, callerVars, peerVars
<1> HIDE DEF k, n
<1> SUFFICES ASSUME NEW m \in Requests
             PROVE  InOnePlace(m)'
  BY DEF OnePlace, InOnePlace
<1>9. CASE m = whold[g]
  <2>1. \A h \in Gens : h # g => ~Held(h, m)
    BY <1>6, <1>9 DEF RefInv, OnePlace
  <2>2. \A h \in Gens, i \in 1 .. WriteCap : ~Queued(h, i, m)
    BY <1>6, <1>9 DEF RefInv, OnePlace
  <2>3. ~Untaken(m.call, m.att) /\ runs[m.call][m.att] = 0
    BY <1>6, <1>9 DEF RefInv, OnePlace
  <2> QED BY <1>3, <1>4, <1>7, <2>1, <2>2, <2>3, RequestFields DEF InOnePlace
<1>10. CASE m # whold[g]
  BY <1>3, <1>4, <1>7, <1>10, RequestFields DEF RefInv, OnePlace, InOnePlace
<1> QED BY <1>9, <1>10

(* Receiving from a writeChan moves the others up by one.                  *)
LEMMA QueuedAfterTail ==
  ASSUME TypeOK, NEW k \in Gens, writeQ[k] # <<>>,
         writeQ' = [writeQ EXCEPT ![k] = Tail(@)]
  PROVE  /\ \A i, m : Queued(k, i, m)' => i \in Nat /\ Queued(k, i + 1, m)
         /\ \A h \in Gens : h # k => \A i, m : Queued(h, i, m)' <=> Queued(h, i, m)
         /\ Queued(k, 1, Head(writeQ[k]))
         /\ \A i, m : Queued(k, i, m)' => i + 1 # 1
<1>1. writeQ[k] \in Seq(Msgs)
  BY DEF TypeOK, WriteTypes
<1>2. writeQ'[k] = Tail(writeQ[k])
  BY DEF TypeOK, WriteTypes
<1>3. /\ Len(Tail(writeQ[k])) = Len(writeQ[k]) - 1
      /\ \A i \in 1 .. Len(writeQ[k]) - 1 : Tail(writeQ[k])[i] = writeQ[k][i + 1]
      /\ Len(writeQ[k]) \in Nat \ {0}
      /\ Head(writeQ[k]) = writeQ[k][1]
  BY <1>1
<1>4. \A i, m : Queued(k, i, m)' => i \in Nat /\ Queued(k, i + 1, m) /\ i + 1 # 1
  <2> SUFFICES ASSUME NEW i, NEW m, Queued(k, i, m)'
               PROVE  i \in Nat /\ Queued(k, i + 1, m) /\ i + 1 # 1
    OBVIOUS
  <2>1. i \in 1 .. Len(writeQ[k]) - 1 /\ Tail(writeQ[k])[i] = m
    BY <1>2, <1>3 DEF Queued
  <2>2. i \in Nat /\ i + 1 \in 1 .. Len(writeQ[k]) /\ i + 1 # 1
    BY <1>3, <2>1
  <2> QED BY <1>3, <2>1, <2>2 DEF Queued
<1>5. \A h \in Gens : h # k => \A i, m : Queued(h, i, m)' <=> Queued(h, i, m)
  BY DEF Queued, TypeOK, WriteTypes
<1>6. Queued(k, 1, Head(writeQ[k]))
  BY <1>3 DEF Queued
<1> QED BY <1>4, <1>5, <1>6

(* W receives a message: it is in W's hands now.                           *)
LEMMA OnePlaceTakeWrite ==
  ASSUME RefInv, ClientAssumption, NEW g \in Gens, WTakeWrite(g)
  PROVE  OnePlace'
<1> PICK k \in Gens : k = wchan[g]
  BY DEF RefInv, TypeOK, WTypes
<1> DEFINE top == Head(writeQ[k])
<1>1. /\ writeQ[k] # <<>> /\ writeQ' = [writeQ EXCEPT ![k] = Tail(@)]
      /\ UNCHANGED runs /\ Selected(g, "write", top)
  BY DEF WTakeWrite, peerVars
<1>2. /\ \A i, m : Queued(k, i, m)' => i \in Nat /\ Queued(k, i + 1, m) /\ i + 1 # 1
      /\ \A h \in Gens : h # k => \A i, m : Queued(h, i, m)' <=> Queued(h, i, m)
      /\ Queued(k, 1, top)
  <2>1. TypeOK
    BY DEF RefInv
  <2> QED BY <1>1, <2>1, QueuedAfterTail
<1> HIDE DEF top
<1>3. \A h \in Gens, m \in Requests : Held(h, m)' => Held(h, m) \/ (h = g /\ m = top)
  BY <1>1 DEF Held, Selected, RefInv, TypeOK, WTypes
<1>4. \A d, a : Untaken(d, a)' <=> Untaken(d, a)
  BY DEF Untaken, WTakeWrite, callerVars
<1>5. 1 \in 1 .. WriteCap
  BY DEF ClientAssumption
<1> SUFFICES ASSUME NEW m \in Requests
             PROVE  InOnePlace(m)'
  BY DEF OnePlace, InOnePlace
<1>6. \A h \in Gens : \A i \in 1 .. WriteCap : Queued(h, i, m)' =>
        \E j \in 1 .. WriteCap : /\ Queued(h, j, m)
                                 /\ j = (IF h = k THEN i + 1 ELSE i)
                                 /\ h = k => j # 1
  <2> SUFFICES ASSUME NEW h \in Gens, NEW i \in 1 .. WriteCap, Queued(h, i, m)'
               PROVE  \E j \in 1 .. WriteCap : /\ Queued(h, j, m)
                                               /\ j = (IF h = k THEN i + 1 ELSE i)
                                               /\ h = k => j # 1
    OBVIOUS
  <2>1. CASE h = k
    <3>1. Queued(h, i + 1, m) /\ i + 1 # 1
      BY <1>2, <2>1
    <3>2. i + 1 \in 1 .. WriteCap
      BY <3>1, QueuedBound DEF RefInv
    <3> QED BY <2>1, <3>1, <3>2
  <2>2. CASE h # k
    BY <1>2, <2>2
  <2> QED BY <2>1, <2>2
<1>7. CASE m = top
  <2>1. \A h \in Gens, i \in 1 .. WriteCap : Queued(h, i, m) => h = k /\ i = 1
    BY <1>2, <1>5, <1>7 DEF RefInv, OnePlace
  <2>2. \A h \in Gens, i \in 1 .. WriteCap : ~Queued(h, i, m)'
    BY <1>6, <2>1
  <2>3. \A h \in Gens : ~Held(h, m)
    BY <1>2, <1>5, <1>7 DEF RefInv, OnePlace
  <2>4. ~Untaken(m.call, m.att) /\ runs[m.call][m.att] = 0
    BY <1>2, <1>5, <1>7 DEF RefInv, OnePlace
  <2> QED BY <1>1, <1>3, <1>4, <2>2, <2>3, <2>4 DEF InOnePlace
<1>8. CASE m # top
  <2>1. \A f, h \in Gens, i, j \in 1 .. WriteCap :
          Queued(f, i, m) /\ Queued(h, j, m) => f = h /\ i = j
    BY DEF RefInv, OnePlace
  <2>2. \A f, h \in Gens, i, j \in 1 .. WriteCap :
          Queued(f, i, m)' /\ Queued(h, j, m)' => f = h /\ i = j
    BY <1>6, <2>1
  <2>3. \A f, h \in Gens, i \in 1 .. WriteCap : ~(Queued(f, i, m)' /\ Held(h, m)')
    BY <1>3, <1>6, <1>8 DEF RefInv, OnePlace
  <2>4. /\ \A f, h \in Gens : Held(f, m)' /\ Held(h, m)' => f = h
        /\ \A h \in Gens :
             Held(h, m)' \/ (\E i \in 1 .. WriteCap : Queued(h, i, m)') =>
               ~Untaken(m.call, m.att) /\ runs[m.call][m.att] = 0
        /\ Untaken(m.call, m.att) => runs[m.call][m.att] = 0
    BY <1>3, <1>6, <1>8 DEF RefInv, OnePlace
  <2> QED BY <1>1, <1>4, <2>2, <2>3, <2>4 DEF InOnePlace
<1> QED BY <1>7, <1>8

(* W writes what it holds: the request leaves its place, and runs only     *)
(* then.                                                                   *)
LEMMA OnePlaceWrite ==
  ASSUME RefInv, ClientAssumption, NEW g \in Gens, WWrite(g)
  PROVE  OnePlace'
<1>1. whold[g] \in Msgs /\ Held(g, whold[g])
  BY DEF WWrite, Held, RefInv, TypeOK, WTypes
<1>2. \A h \in Gens, m \in Requests : Held(h, m)' => Held(h, m) /\ h # g
  BY DEF Held, WWrite, RefInv, TypeOK, WTypes
<1>3. \A h \in Gens : \A i, m : Queued(h, i, m)' <=> Queued(h, i, m)
  BY DEF Queued, WWrite
<1>4. \A d, a : Untaken(d, a)' <=> Untaken(d, a)
  BY DEF Untaken, WWrite, callerVars
<1>5. \A m \in Requests : m # whold[g] => runs'[m.call][m.att] = runs[m.call][m.att]
  <2> SUFFICES ASSUME NEW m \in Requests, m # whold[g]
               PROVE  runs'[m.call][m.att] = runs[m.call][m.att]
    OBVIOUS
  <2>1. CASE UNCHANGED runs
    BY <2>1
  <2>2. CASE /\ whold[g].kind = "call"
             /\ runs' = [runs EXCEPT ![whold[g].call][whold[g].att] = @ + 1]
    <3>1. m.call # whold[g].call \/ m.att # whold[g].att
      BY <1>1, <2>2 DEF Requests, Msgs
    <3>2. m.call \in Calls /\ whold[g].call \in Calls /\ m.att \in Attempts
      BY <1>1, RequestFields DEF Msgs
    <3> QED BY <2>2, <3>1, <3>2 DEF RefInv, TypeOK, PeerTypes
  <2> QED BY <2>1, <2>2 DEF WWrite
<1> SUFFICES ASSUME NEW m \in Requests
             PROVE  InOnePlace(m)'
  BY DEF OnePlace, InOnePlace
<1>6. CASE m = whold[g]
  <2>1. /\ \A h \in Gens : ~Held(h, m)'
        /\ \A h \in Gens, i \in 1 .. WriteCap : ~Queued(h, i, m)'
        /\ ~Untaken(m.call, m.att)
    BY <1>1, <1>2, <1>3, <1>6 DEF RefInv, OnePlace
  <2> QED BY <1>4, <2>1 DEF InOnePlace
<1>7. CASE m # whold[g]
  BY <1>2, <1>3, <1>4, <1>5, <1>7 DEF RefInv, OnePlace, InOnePlace
<1> QED BY <1>6, <1>7

LEMMA OnePlaceStep ==
  ASSUME RefInv, ClientAssumption, [Next]_vars
  PROVE  OnePlace'
<1>1. ASSUME NEW g \in Gens,
             \/ WPut(g) \/ WTakeWrite(g) \/ WWrite(g)
             \/ \E c \in Calls : WTakeCall(g, c)
      PROVE  OnePlace'
  BY <1>1, OnePlaceTake, OnePlacePut, OnePlaceTakeWrite, OnePlaceWrite
<1> SUFFICES ASSUME \A g \in Gens : /\ ~WPut(g) /\ ~WTakeWrite(g) /\ ~WWrite(g)
                                    /\ \A c \in Calls : ~WTakeCall(g, c)
             PROVE  OnePlace'
  BY <1>1
<1>2. UNCHANGED <<writeQ, runs>>
  BY Writers
<1>3. \A g \in Gens, m \in Requests : Held(g, m)' => Held(g, m)
  <2>1. CASE UNCHANGED wVars
    BY <2>1 DEF Held, wVars
  <2>2. CASE NewGeneration
    BY <2>2 DEF Held, NewGeneration, RefInv, TypeOK, WTypes
  <2>3. ASSUME NEW h \in Gens, NEW c \in Calls, WTakeCancel(h, c)
        PROVE  \A g \in Gens, m \in Requests : Held(g, m)' => Held(g, m)
    BY <2>3 DEF Held, WTakeCancel, Selected, Requests, RefInv, TypeOK, WTypes
  <2>4. ASSUME NEW h \in Gens, WTakeFrame(h) \/ WWriteErr(h) \/ WExit(h) \/ WStop(h)
        PROVE  \A g \in Gens, m \in Requests : Held(g, m)' => Held(g, m)
    BY <2>4 DEF Held, WTakeFrame, WWriteErr, WExit, WStop, Selected, WReturns, RefInv, TypeOK,
                WTypes
  <2>5. ASSUME NEW h \in Gens,
               \/ WTop(h) \/ WRegister(h) \/ WAddress(h) \/ WLookup(h) \/ WDeliver(h)
               \/ WDelete(h)
        PROVE  \A g \in Gens, m \in Requests : Held(g, m)' => Held(g, m)
    BY <2>5 DEF Held, WTop, WRegister, WAddress, WLookup, WDeliver, WDelete, RefInv, TypeOK,
                WTypes
  <2> QED  BY Writers, <2>1, <2>2, <2>3, <2>4, <2>5
<1>4. \A c \in Calls, a \in Attempts : Untaken(c, a)' => Untaken(c, a)
  <2>1. CASE UNCHANGED callerVars
    BY <2>1 DEF Untaken, callerVars
  <2>2. ASSUME NEW c \in Calls,
               \/ Call(c) \/ CallExiting(c) \/ CallCtxDone(c)
               \/ CancelExiting(c) \/ Receive(c) \/ Retry(c)
        PROVE  \A d \in Calls, a \in Attempts : Untaken(d, a)' => Untaken(d, a)
    BY <2>2 DEF Untaken, Call, CallExiting, CallCtxDone, CancelExiting, Receive, Retry,
                RefInv, Callers, TypeOK, CallerTypes, Attempts, ClientAssumption
  <2>3. ASSUME NEW g \in Gens, NEW c \in Calls, WTakeCancel(g, c)
        PROVE  \A d \in Calls, a \in Attempts : Untaken(d, a)' => Untaken(d, a)
    BY <2>3 DEF Untaken, WTakeCancel, RefInv, TypeOK, CallerTypes
  <2> QED  BY Writers, <2>1, <2>2, <2>3
<1> QED  BY <1>2, <1>3, <1>4, OnePlaceFrame DEF RefInv

-----------------------------------------------------------------------------
(* Answers on their way                                                    *)

(* runs only grows.                                                        *)
LEMMA RunsGrow ==
  ASSUME TypeOK, [Next]_vars, NEW c \in Calls, HasRun(c)
  PROVE  HasRun(c)'
<1>1. CASE UNCHANGED runs
  BY <1>1 DEF HasRun
<1>2. ASSUME NEW g \in Gens, WWrite(g)
      PROVE  HasRun(c)'
  <2>1. ASSUME NEW d, NEW a, runs' = [runs EXCEPT ![d][a] = @ + 1]
        PROVE  HasRun(c)'
    <3> PICK b \in Attempts : runs[c][b] > 0
      BY DEF HasRun
    <3>1. runs[c][b] \in Nat /\ runs'[c][b] \in {runs[c][b], runs[c][b] + 1}
      BY <2>1 DEF TypeOK, PeerTypes
    <3> QED BY <3>1 DEF HasRun
  <2>2. \/ UNCHANGED runs
        \/ runs' = [runs EXCEPT ![whold[g].call][whold[g].att] = @ + 1]
    BY <1>2 DEF WWrite
  <2> QED BY <1>1, <2>1, <2>2
<1> QED BY Writers, <1>1, <1>2

(* The remote answers what it ran.                                         *)
LEMMA ServingStep ==
  ASSUME RefInv, ClientAssumption, [Next]_vars,
         NEW g \in Gens, NEW c \in Calls, NEW a \in Attempts, <<c, a>> \in serving'[g]
  PROVE  HasRun(c)'
<1>1. HasRun(c) => HasRun(c)'
  BY RunsGrow DEF RefInv
<1>2. CASE <<c, a>> \in serving[g]
  BY <1>1, <1>2 DEF RefInv, AnswersHaveRun
<1>3. CASE UNCHANGED serving
  BY <1>2, <1>3
<1>4. ASSUME NEW h \in Gens, serving' = [serving EXCEPT ![h] = {}]
      PROVE  HasRun(c)'
  BY <1>2, <1>4 DEF RefInv, TypeOK, PeerTypes
<1>5. ASSUME NEW h \in Gens, NEW e, serving' = [serving EXCEPT ![h] = @ \ {e}]
      PROVE  HasRun(c)'
  BY <1>2, <1>5 DEF RefInv, TypeOK, PeerTypes
<1>6. ASSUME NEW h \in Gens, WWrite(h)
      PROVE  HasRun(c)'
  <2>1. PICK d \in Calls, b \in Attempts : d = whold[h].call /\ b = whold[h].att
    BY <1>6 DEF WWrite, RefInv, TypeOK, WTypes, Msgs
  <2>2. CASE UNCHANGED serving
    BY <1>3, <2>2
  <2>3. CASE /\ serving' = [serving EXCEPT ![ConnField] = @ \cup {<<d, b>>}]
             /\ runs' = [runs EXCEPT ![d][b] = @ + 1]
    <3>1. <<c, a>> \in serving[g] \/ (c = d /\ a = b)
      BY <2>3 DEF RefInv, TypeOK, PeerTypes
    <3>2. CASE c = d /\ a = b
      <4>1. runs[c][a] \in Nat
        BY DEF RefInv, TypeOK, PeerTypes
      <4>2. runs'[c][a] = runs[c][a] + 1
        BY <2>3, <3>2 DEF RefInv, TypeOK, PeerTypes
      <4> QED BY <4>1, <4>2 DEF HasRun
    <3> QED BY <1>2, <3>1, <3>2
  <2> QED BY <1>6, <2>1, <2>2, <2>3 DEF WWrite
<1>7. ASSUME NEW h \in Gens,
             RLeave(h) \/ \E d \in Calls : RRead(h, d)
      PROVE  HasRun(c)'
  <2>1. rconn[h] \in Gens
    BY DEF RefInv, TypeOK, RTypes
  <2> QED  BY <1>4, <1>5, <1>7, <2>1 DEF RLeave, RRead, StartDrain
<1> QED BY Writers, <1>3, <1>6, <1>7

(* R reads what the remote answered, and hands it on.                      *)
LEMMA PushStep ==
  ASSUME RefInv, ClientAssumption, [Next]_vars, NEW g \in Gens, rpc'[g] \in {"got", "push"}
  PROVE  HasRun(rhold[g])'
<1>1. ASSUME NEW c \in Calls, HasRun(c)
      PROVE  HasRun(c)'
  BY <1>1, RunsGrow DEF RefInv
<1>2. CASE rpc[g] \in {"got", "push"} /\ rhold'[g] = rhold[g]
  <2>1. rhold[g] \in Calls /\ HasRun(rhold[g])
    BY <1>2 DEF RefInv, TypeOK, RTypes, AnswersHaveRun
  <2>2. HasRun(rhold[g])' <=> \E a \in Attempts : runs'[rhold[g]][a] > 0
    BY <1>2 DEF HasRun
  <2> QED BY <1>1, <2>1, <2>2 DEF HasRun
<1>3. CASE UNCHANGED rVars
  BY <1>2, <1>3 DEF rVars
<1>4. ASSUME NEW c \in Calls, NEW h \in Gens, RRead(h, c)
      PROVE  HasRun(rhold[g])'
  <2>1. PICK a \in Attempts : <<c, a>> \in serving[rconn[h]]
    BY <1>4 DEF RRead
  <2>2. HasRun(c)'
    BY <1>1, <2>1 DEF RefInv, AnswersHaveRun, TypeOK, RTypes
  <2>3. CASE g = h
    BY <1>4, <2>2, <2>3 DEF RRead, RefInv, TypeOK, RTypes, HasRun
  <2>4. CASE g # h
    BY <1>2, <1>4, <2>4 DEF RRead, RefInv, TypeOK, RTypes
  <2> QED BY <2>3, <2>4
<1>5. ASSUME NEW h \in Gens,
             \/ RLeave(h) \/ RTop(h) \/ RBegin(h) \/ RAddress(h) \/ RPush(h) \/ RReadErr(h)
             \/ REnd(h)
      PROVE  HasRun(rhold[g])'
  BY <1>2, <1>5 DEF RLeave, RTop, RBegin, RAddress, RPush, RReadErr, REnd, StartDrain, RefInv,
                    TypeOK, RTypes
<1>6. CASE NewGeneration
  BY <1>2, <1>6 DEF NewGeneration, RefInv, TypeOK, RTypes
<1> QED BY Writers, <1>3, <1>4, <1>5, <1>6

(* The first of a frameChan, which a W takes, and the others, which move   *)
(* up by one.                                                              *)
LEMMA FramesAfterTail ==
  ASSUME TypeOK, ClientAssumption, NEW k \in Gens, frameQ[k] # <<>>,
         frameQ' = [frameQ EXCEPT ![k] = Tail(@)]
  PROVE  /\ 1 \in 1 .. FrameCap /\ 1 <= Len(frameQ[k])
         /\ Head(frameQ[k]) = frameQ[k][1] /\ Head(frameQ[k]) \in Calls
         /\ \A i \in 1 .. Len(frameQ'[k]) :
              /\ i + 1 \in 1 .. FrameCap /\ i + 1 <= Len(frameQ[k]) /\ i + 1 # 1
              /\ frameQ'[k][i] = frameQ[k][i + 1]
         /\ \A h \in Gens : h # k => frameQ'[h] = frameQ[h]
<1>1. frameQ[k] \in Seq(Calls) /\ Len(frameQ[k]) <= FrameCap /\ Len(frameQ[k]) \in Nat \ {0}
  BY DEF TypeOK, FrameTypes
<1>2. frameQ'[k] = Tail(frameQ[k]) /\ \A h \in Gens : h # k => frameQ'[h] = frameQ[h]
  BY DEF TypeOK, FrameTypes
<1>3. /\ Len(Tail(frameQ[k])) = Len(frameQ[k]) - 1
      /\ \A j \in 1 .. Len(frameQ[k]) - 1 : Tail(frameQ[k])[j] = frameQ[k][j + 1]
      /\ Head(frameQ[k]) = frameQ[k][1] /\ Head(frameQ[k]) \in Calls
  BY <1>1
<1>4. 1 \in 1 .. FrameCap /\ 1 <= Len(frameQ[k])
  BY <1>1 DEF ClientAssumption
<1>5. ASSUME NEW i \in 1 .. Len(frameQ'[k])
      PROVE  /\ i + 1 \in 1 .. FrameCap /\ i + 1 <= Len(frameQ[k]) /\ i + 1 # 1
             /\ frameQ'[k][i] = frameQ[k][i + 1]
  <2>1. i \in 1 .. Len(frameQ[k]) - 1
    BY <1>2, <1>3
  <2>2. frameQ'[k][i] = frameQ[k][i + 1]
    BY <1>2, <1>3, <2>1
  <2>3. i + 1 \in 1 .. FrameCap /\ i + 1 <= Len(frameQ[k]) /\ i + 1 # 1
    BY <1>1, <2>1 DEF ClientAssumption
  <2> QED  BY <2>2, <2>3
<1> QED  BY <1>2, <1>3, <1>4, <1>5

(* frameChan holds what R handed on, in order.                             *)
LEMMA FramesStep ==
  ASSUME RefInv, ClientAssumption, [Next]_vars, NEW g \in Gens,
         NEW i \in 1 .. FrameCap, i <= Len(frameQ'[g])
  PROVE  HasRun(frameQ[g][i])'
<1>1. ASSUME NEW c \in Calls, HasRun(c)
      PROVE  HasRun(c)'
  BY <1>1, RunsGrow DEF RefInv
<1>2. ASSUME NEW j \in 1 .. FrameCap, j <= Len(frameQ[g]), frameQ'[g][i] = frameQ[g][j]
      PROVE  HasRun(frameQ[g][i])'
  <2>1. frameQ[g][j] \in Calls
    BY <1>2 DEF RefInv, TypeOK, FrameTypes, ClientAssumption
  <2>2. HasRun(frameQ[g][j])
    BY <1>2 DEF RefInv, AnswersHaveRun
  <2> QED BY <1>1, <1>2, <2>1, <2>2 DEF HasRun
<1>3. CASE UNCHANGED frameQ
  BY <1>2, <1>3
<1>4. ASSUME NEW h \in Gens, RPush(h)
      PROVE  HasRun(frameQ[g][i])'
  <2>1. PICK k \in Gens : k = rchan[h]
    BY DEF RefInv, TypeOK, RTypes
  <2>2. rhold[h] \in Calls /\ HasRun(rhold[h])
    BY <1>4 DEF RPush, RefInv, TypeOK, RTypes, AnswersHaveRun
  <2>3. frameQ' = [frameQ EXCEPT ![k] = Append(@, rhold[h])] /\ frameQ[k] \in Seq(Calls)
    BY <1>4, <2>1 DEF RPush, RefInv, TypeOK, FrameTypes
  <2>4. CASE g = k /\ i = Len(frameQ[k]) + 1
    <3>1. frameQ'[g][i] = rhold[h]
      BY <2>3, <2>4 DEF RefInv, TypeOK, FrameTypes
    <3> QED BY <1>1, <2>2, <3>1 DEF HasRun
  <2>5. CASE ~(g = k /\ i = Len(frameQ[k]) + 1)
    <3>1. i <= Len(frameQ[g]) /\ frameQ'[g][i] = frameQ[g][i]
      BY <2>3, <2>5 DEF RefInv, TypeOK, FrameTypes
    <3> QED BY <1>2, <3>1
  <2> QED BY <2>4, <2>5
<1>5. ASSUME NEW h \in Gens, WTakeFrame(h)
      PROVE  HasRun(frameQ[g][i])'
  <2>1. PICK k \in Gens : k = wframe[h]
    BY DEF RefInv, TypeOK, WTypes
  <2>2. frameQ[k] # <<>> /\ frameQ' = [frameQ EXCEPT ![k] = Tail(@)]
    BY <1>5, <2>1 DEF WTakeFrame
  <2>3. CASE g = k
    <3>1. i \in 1 .. Len(frameQ'[k])
      BY <2>3 DEF ClientAssumption
    <3>2. \A j \in 1 .. Len(frameQ'[k]) :
            /\ j + 1 \in 1 .. FrameCap /\ j + 1 <= Len(frameQ[k])
            /\ frameQ'[k][j] = frameQ[k][j + 1]
      BY <2>2, FramesAfterTail DEF RefInv
    <3> QED BY <1>2, <2>3, <3>1, <3>2
  <2>4. CASE g # k
    <3>1. frameQ'[g] = frameQ[g]
      BY <2>2, <2>4, FramesAfterTail DEF RefInv
    <3> QED BY <1>2, <3>1
  <2> QED BY <2>3, <2>4
<1> QED BY Writers, <1>3, <1>4, <1>5

(* W delivers what it took from frameChan.                                 *)
LEMMA DeliverStep ==
  ASSUME RefInv, ClientAssumption, [Next]_vars, NEW g \in Gens,
         wpc'[g] \in {"lookup", "deliver"}
  PROVE  HasRun(whold[g].call)'
<1>1. ASSUME NEW c \in Calls, HasRun(c), whold'[g].call = c
      PROVE  HasRun(whold[g].call)'
  BY <1>1, RunsGrow DEF RefInv, HasRun
<1>2. CASE wpc[g] \in {"lookup", "deliver"} /\ whold'[g].call = whold[g].call
  <2>1. whold[g].call \in Calls /\ HasRun(whold[g].call)
    BY <1>2 DEF RefInv, TypeOK, WTypes, AnswersHaveRun, Msgs, Responses
  <2> QED BY <1>1, <1>2, <2>1
<1>3. CASE UNCHANGED wVars
  BY <1>2, <1>3 DEF wVars
<1>4. ASSUME NEW h \in Gens, WTakeFrame(h)
      PROVE  HasRun(whold[g].call)'
  <2>1. PICK k \in Gens : k = wframe[h]
    BY DEF RefInv, TypeOK, WTypes
  <2>2. frameQ[k] # <<>> /\ frameQ' = [frameQ EXCEPT ![k] = Tail(@)]
    BY <1>4, <2>1 DEF WTakeFrame
  <2>3. /\ 1 \in 1 .. FrameCap /\ 1 <= Len(frameQ[k])
        /\ Head(frameQ[k]) = frameQ[k][1] /\ Head(frameQ[k]) \in Calls
    BY <2>2, FramesAfterTail DEF RefInv
  <2>4. HasRun(Head(frameQ[k]))
    BY <2>3 DEF RefInv, AnswersHaveRun
  <2>5. CASE g = h
    <3>1. whold'[g].call = Head(frameQ[k])
      BY <1>4, <2>1, <2>5 DEF WTakeFrame, Selected, RefInv, TypeOK, WTypes
    <3> QED BY <1>1, <2>3, <2>4, <3>1
  <2>6. CASE g # h
    BY <1>2, <1>4, <2>6 DEF WTakeFrame, Selected, RefInv, TypeOK, WTypes
  <2> QED BY <2>5, <2>6
<1>5. ASSUME NEW h \in Gens, WLookup(h)
      PROVE  HasRun(whold[g].call)'
  BY <1>2, <1>5 DEF WLookup, RefInv, TypeOK, WTypes
<1>6. ASSUME NEW h \in Gens,
             \/ \E d \in Calls : WTakeCall(h, d) \/ WTakeCancel(h, d)
             \/ WTakeWrite(h) \/ WWriteErr(h) \/ WExit(h) \/ WStop(h)
      PROVE  HasRun(whold[g].call)'
  <2>1. /\ wpc'[h] \notin {"lookup", "deliver"}
        /\ h # g => wpc'[g] = wpc[g] /\ whold'[g] = whold[g]
    <3>1. ASSUME NEW d \in Calls, WTakeCall(h, d) \/ WTakeCancel(h, d)
          PROVE  /\ wpc'[h] \notin {"lookup", "deliver"}
                 /\ h # g => wpc'[g] = wpc[g] /\ whold'[g] = whold[g]
      BY <3>1 DEF WTakeCall, WTakeCancel, Selected, RefInv, TypeOK, WTypes
    <3>2. WTakeWrite(h) \/ WWriteErr(h) \/ WExit(h) \/ WStop(h) =>
            /\ wpc'[h] \notin {"lookup", "deliver"}
            /\ h # g => wpc'[g] = wpc[g] /\ whold'[g] = whold[g]
      BY DEF WTakeWrite, WWriteErr, WExit, WStop, Selected, WReturns, RefInv, TypeOK, WTypes
    <3> QED  BY <1>6, <3>1, <3>2
  <2> QED  BY <1>2, <2>1
<1>7. ASSUME NEW h \in Gens,
             \/ WTop(h) \/ WRegister(h) \/ WAddress(h) \/ WPut(h) \/ WWrite(h)
             \/ WDeliver(h) \/ WDelete(h)
      PROVE  HasRun(whold[g].call)'
  <2>1. /\ wpc'[h] \notin {"lookup", "deliver"}
        /\ h # g => wpc'[g] = wpc[g] /\ whold'[g] = whold[g]
    BY <1>7 DEF WTop, WRegister, WAddress, WPut, WWrite, WDeliver, WDelete, RefInv, TypeOK,
                WTypes
  <2> QED  BY <1>2, <2>1
<1>8. CASE NewGeneration
  BY <1>2, <1>8 DEF NewGeneration, RefInv, TypeOK, WTypes
<1> QED BY Writers, <1>3, <1>4, <1>5, <1>6, <1>7, <1>8

(* A reply in a ready channel was put there by W.                          *)
LEMMA ReadyStep ==
  ASSUME RefInv, ClientAssumption, [Next]_vars,
         NEW c \in Calls, NEW a \in Attempts, ready'[c][a] = "reply"
  PROVE  HasRun(c)'
<1>1. HasRun(c) => HasRun(c)'
  BY RunsGrow DEF RefInv
<1>2. CASE ready[c][a] = "reply"
  BY <1>1, <1>2 DEF RefInv, AnswersHaveRun
<1>3. ASSUME NEW d, NEW b, NEW v \in {"empty", "closed"},
             ready' = [ready EXCEPT ![d][b] = v]
      PROVE  HasRun(c)'
  BY <1>2, <1>3 DEF RefInv, TypeOK, ReadyTypes
<1>4. ASSUME NEW h \in Gens, WDeliver(h)
      PROVE  HasRun(c)'
  <2>1. /\ whold[h] \in Msgs /\ HasRun(whold[h].call)
        /\ ready' = [ready EXCEPT ![whold[h].call][whold[h].att] = "reply"]
    BY <1>4 DEF WDeliver, RefInv, TypeOK, WTypes, AnswersHaveRun
  <2>2. CASE c = whold[h].call
    BY <1>1, <2>1, <2>2
  <2>3. CASE c # whold[h].call
    BY <1>2, <2>1, <2>3 DEF RefInv, TypeOK, ReadyTypes
  <2> QED BY <2>2, <2>3
<1>5. ASSUME NEW d \in Calls, Receive(d)
      PROVE  HasRun(c)'
  <2>1. ready' = [ready EXCEPT ![d][attempt[d]] = "empty"]
    BY <1>5 DEF Receive
  <2> QED BY <1>3, <2>1
<1>6. ASSUME NEW h \in Gens, NEW e \in Calls \X Attempts, RDrain(h, e)
      PROVE  HasRun(c)'
  <2>1. ready' = [ready EXCEPT ![e[1]][e[2]] = "closed"]
    BY <1>6 DEF RDrain
  <2> QED BY <1>3, <2>1
<1>7. UNCHANGED ready => HasRun(c)'
  BY <1>2
<1> QED BY Writers, <1>4, <1>5, <1>6, <1>7


LEMMA CallersStep ==
  ASSUME RefInv, ClientAssumption, [Next]_vars
  PROVE  Callers'
<1> USE DEF RefInv, TypeOK, CallerTypes, Callers
<1>1. CASE UNCHANGED <<cpc, attempt, outcome>>
  BY <1>1
<1>2. ASSUME NEW c \in Calls,
             \/ Call(c) \/ CallExiting(c) \/ CallCtxDone(c)
             \/ CancelExiting(c) \/ Retry(c)
      PROVE  Callers'
  BY <1>2 DEF Call, CallExiting, CallCtxDone, CancelExiting, Retry
<1>3. ASSUME NEW c \in Calls, Receive(c)
      PROVE  Callers'
  <2> DEFINE answer == ready[c][attempt[c]]
  <2>1. /\ UNCHANGED attempt
        /\ \/ /\ c \in RetryCalls /\ cpc' = [cpc EXCEPT ![c] = "sleeping"]
              /\ UNCHANGED outcome
           \/ /\ cpc' = [cpc EXCEPT ![c] = "done"]
              /\ outcome' = [outcome EXCEPT ![c] = answer]
    BY <1>3 DEF Receive, ShouldRetry
  <2>2. answer # "none"
    BY <1>3 DEF Receive, ReadyTypes
  <2> HIDE DEF answer
  <2> QED BY <2>1, <2>2
<1>4. ASSUME NEW g \in Gens, NEW c \in Calls, WTakeCall(g, c) \/ WTakeCancel(g, c)
      PROVE  Callers'
  <2>1. cpc' = [cpc EXCEPT ![c] = "waiting"] /\ UNCHANGED <<attempt, outcome>>
    BY <1>4 DEF WTakeCall, WTakeCancel
  <2> QED BY <2>1
<1> QED BY Writers, <1>1, <1>2, <1>3, <1>4 DEF callerVars

LEMMA RefInvInit ==
  ASSUME Init, ClientAssumption
  PROVE  RefInv
<1>1. TypeOK
  BY TypeInit
<1>2. OnePlace
  BY DEF Init, OnePlace, Queued, Held, Requests, Msgs, ClientAssumption
<1>3. AnswersHaveRun
  BY DEF Init, AnswersHaveRun, ClientAssumption
<1>4. Callers
  BY DEF Init, Callers
<1> QED BY <1>1, <1>2, <1>3, <1>4 DEF RefInv

LEMMA RefInvStep ==
  ASSUME RefInv, ClientAssumption, [Next]_vars
  PROVE  RefInv'
<1>1. TypeOK'
  BY TypeStep DEF RefInv
<1>2. OnePlace'
  BY OnePlaceStep
<1>3. AnswersHaveRun'
  BY ServingStep, PushStep, FramesStep, DeliverStep, ReadyStep DEF AnswersHaveRun
<1>4. Callers'
  BY CallersStep
<1> QED BY <1>1, <1>2, <1>3, <1>4 DEF RefInv

LEMMA RefInvAlways == Spec => []RefInv
<1>1. Init => RefInv
  BY RefInvInit, ClientAssumption
<1>2. RefInv /\ [Next]_vars => RefInv'
  BY RefInvStep, ClientAssumption
<1> QED BY <1>1, <1>2, PTL DEF Spec

(* Until it is written a request is in one place, and it is run only after *)
(* it left it (websocket.go:493-505).                                      *)
THEOREM RequestsInOnePlace == Spec => []OnePlace
<1>1. RefInv => OnePlace
  BY DEF RefInv
<1> QED BY <1>1, RefInvAlways, PTL

-----------------------------------------------------------------------------
(* The refinement                                                          *)

LEMMA RefineInit ==
  ASSUME Init
  PROVE  Promise!Init
  BY DEF Init, Promise!Init, Status, Promise!Attempts, Attempts

(* A step that changes nothing a program could see.                        *)
LEMMA RefineStutter ==
  ASSUME UNCHANGED <<attempt, outcome, runs>>,
         \A c \in Calls : Status(c)' = Status(c)
  PROVE  UNCHANGED Promise!vars
  BY DEF Promise!vars

(* A step of one caller.                                                   *)
LEMMA RefineCaller ==
  ASSUME RefInv, ClientAssumption, NEW c \in Calls,
         \/ Call(c) \/ CallExiting(c) \/ CallCtxDone(c)
         \/ CancelExiting(c) \/ Receive(c) \/ Retry(c)
  PROVE  [Promise!Next]_(Promise!vars)
<1> USE DEF RefInv, TypeOK, CallerTypes
<1>1. UNCHANGED runs
  BY DEF Call, CallExiting, CallCtxDone, CancelExiting, Receive, Retry, peerVars
<1>2. CASE CallCtxDone(c) \/ CancelExiting(c)
  <2>1. \A d \in Calls : Status(d)' = Status(d)
    BY <1>2 DEF CallCtxDone, CancelExiting, Status
  <2> QED BY <1>1, <1>2, <2>1, RefineStutter DEF CallCtxDone, CancelExiting
<1>3. CASE Call(c)
  <2>1. [d \in Calls |-> Status(d)]' = [[d \in Calls |-> Status(d)] EXCEPT ![c] = "pending"]
    BY <1>3 DEF Call, Status
  <2>2. Status(c) = "idle" /\ attempt' = [attempt EXCEPT ![c] = 1]
    BY <1>3 DEF Call, Status
  <2> QED BY <1>1, <2>1, <2>2 DEF Promise!Next, Promise!Issue
<1>4. CASE Retry(c)
  <2>1. \A d \in Calls : Status(d)' = Status(d)
    BY <1>4 DEF Retry, Status
  <2>2. /\ Status(c) = "pending" /\ c \in RetryCalls /\ attempt[c] < MaxAttempts
        /\ attempt' = [attempt EXCEPT ![c] = @ + 1]
    BY <1>4 DEF Retry, Status, Callers
  <2> QED BY <1>1, <2>1, <2>2 DEF Promise!Next, Promise!Reissue
<1>5. CASE CallExiting(c)
  <2>1. [d \in Calls |-> Status(d)]' = [[d \in Calls |-> Status(d)] EXCEPT ![c] = "exiting"]
    BY <1>5 DEF CallExiting, Status
  <2>2. Status(c) = "pending" /\ UNCHANGED attempt
    BY <1>5 DEF CallExiting, Status
  <2>3. Promise!Return(c, "exiting")
    BY <1>1, <2>1, <2>2 DEF Promise!Return
  <2> QED BY <2>3 DEF Promise!Next, Promise!Outcomes
<1>6. CASE Receive(c)
  <2> DEFINE o == ready[c][attempt[c]]
  <2>1. attempt[c] \in Attempts /\ o \in {"reply", "closed"}
    BY <1>6 DEF Receive, ReadyTypes
  <2>2. Status(c) = "pending" /\ UNCHANGED attempt
    BY <1>6 DEF Receive, Status
  <2>3. CASE UNCHANGED outcome /\ cpc' = [cpc EXCEPT ![c] = "sleeping"]
    <3>1. \A d \in Calls : Status(d)' = Status(d)
      BY <1>6, <2>3 DEF Receive, Status
    <3> QED BY <1>1, <2>2, <2>3, <3>1, RefineStutter
  <2>4. CASE /\ cpc' = [cpc EXCEPT ![c] = "done"]
             /\ outcome' = [outcome EXCEPT ![c] = o]
    <3> HIDE DEF o
    <3>1. [d \in Calls |-> Status(d)]' = [[d \in Calls |-> Status(d)] EXCEPT ![c] = o]
      BY <2>4 DEF Status
    <3>2. o = "reply" => \E a \in Attempts : runs[c][a] > 0
      BY <2>1 DEF o, AnswersHaveRun, HasRun
    <3>3. Promise!Return(c, o)
      BY <1>1, <2>2, <3>1, <3>2 DEF Promise!Return, Promise!Attempts, Attempts
    <3> QED BY <2>1, <3>3 DEF Promise!Next, Promise!Outcomes
  <2> QED BY <1>6, <2>3, <2>4 DEF Receive
<1> QED BY <1>2, <1>3, <1>4, <1>5, <1>6

(* The remote runs the request W writes.                                   *)
LEMMA RefineWrite ==
  ASSUME RefInv, ClientAssumption, NEW g \in Gens, WWrite(g)
  PROVE  [Promise!Next]_(Promise!vars)
<1>1. UNCHANGED <<attempt, outcome, cpc>>
  BY DEF WWrite, callerVars
<1>2. \A d \in Calls : Status(d)' = Status(d)
  BY <1>1 DEF Status
<1>3. CASE UNCHANGED runs
  BY <1>1, <1>2, <1>3, RefineStutter
<1>4. PICK m \in Msgs : m = whold[g]
  BY DEF WWrite, RefInv, TypeOK, WTypes
<1>5. CASE m.kind = "call" /\ runs' = [runs EXCEPT ![m.call][m.att] = @ + 1]
  <2>1. m \in Requests /\ Held(g, m)
    BY <1>4, <1>5 DEF Requests, Held, WWrite
  <2>2. ~Untaken(m.call, m.att) /\ runs[m.call][m.att] = 0
    BY <2>1 DEF RefInv, OnePlace
  <2>3. /\ m.call \in Calls /\ m.att \in Attempts
        /\ attempt[m.call] \in Nat /\ m.att \in Nat
    BY <1>4 DEF Msgs, RefInv, TypeOK, CallerTypes, Attempts
  <2>4. m.att <= attempt[m.call]
    BY <2>2, <2>3 DEF Untaken
  <2>5. runs' = [runs EXCEPT ![m.call][m.att] = 1]
    BY <1>5, <2>2, <2>3 DEF RefInv, TypeOK, PeerTypes
  <2>6. Promise!Run(m.call, m.att)
    BY <1>1, <1>2, <2>2, <2>4, <2>5 DEF Promise!Run
  <2> QED BY <2>3, <2>6 DEF Promise!Next, Promise!Attempts, Attempts
<1> QED BY <1>3, <1>4, <1>5 DEF WWrite

LEMMA RefineStep ==
  ASSUME RefInv, ClientAssumption, [Next]_vars
  PROVE  [Promise!Next]_(Promise!vars)
<1>1. CASE UNCHANGED <<attempt, outcome, runs, cpc>>
  <2>1. \A d \in Calls : Status(d)' = Status(d)
    BY <1>1 DEF Status
  <2> QED BY <1>1, <2>1, RefineStutter
<1>2. ASSUME NEW g \in Gens, NEW c \in Calls, WTakeCall(g, c) \/ WTakeCancel(g, c)
      PROVE  [Promise!Next]_(Promise!vars)
  <2>1. UNCHANGED <<attempt, outcome, runs>>
    BY <1>2 DEF WTakeCall, WTakeCancel, peerVars
  <2>2. \A d \in Calls : Status(d)' = Status(d)
    BY <1>2 DEF WTakeCall, WTakeCancel, Status, RefInv, TypeOK, CallerTypes
  <2> QED BY <2>1, <2>2, RefineStutter
<1> QED  BY Writers, RefineCaller, RefineWrite, <1>1, <1>2 DEF callerVars

(* Whatever connections and goroutines do, the program that calls sees     *)
(* RpcCall: an attempt runs at most once, only retried methods are issued  *)
(* again, a reply comes from a run (client.go:463-563, websocket.go).      *)
THEOREM ImplementsRpcCall == Spec => RefinesRpcCall
<1>1. Init => Promise!Init
  BY RefineInit
<1>2. RefInv /\ [Next]_vars => [Promise!Next]_(Promise!vars)
  BY RefineStep, ClientAssumption
<1> QED
  BY <1>1, <1>2, RefInvAlways, PTL DEF Spec, RefinesRpcCall, Promise!Spec

(* What that comes to: over a websocket, whatever is lost, delayed or      *)
(* repeated by a reconnection, the remote runs a method at most once for   *)
(* each attempt, one without the retry tag at most once in all, and a      *)
(* program that got a reply had its method run (client.go:527-562,         *)
(* websocket.go:394-414, 473-507).                                         *)
THEOREM ClientRunsAtMostOnce == Spec => [](Promise!AtMostOnce /\ Promise!ReplyMeansRun)
<1>1. MaxAttempts \in Nat
  BY ClientAssumption
<1>2. Promise!Spec => [](Promise!AtMostOnce /\ Promise!ReplyMeansRun)
  BY <1>1, Promise!CallsRunAtMostOnce
<1> QED  BY <1>2, ImplementsRpcCall, PTL DEF RefinesRpcCall

====
