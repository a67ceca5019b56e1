------------------------------ MODULE WsServer ------------------------------
(***************************************************************************)
(* A connection of the websocket server (jsonrpc/server.go handleWS,       *)
(* websocket.go, handler.go): the two goroutines of handleWsConn, the      *)
(* goroutine of every handler, the table handling through which a client   *)
(* cancels a call, and the goroutine that registers output channels.       *)
(*                                                                         *)
(* W and R are named as in WsClient.  The server never redials and never   *)
(* pings, has no requests of its own and no stop channel, so W only takes  *)
(* frames and writes responses and pongs, and exitfun closes exitCh and    *)
(* exiting together.                                                       *)
(*                                                                         *)
(* Abstracted: the values of a channel (module OutChans); what a response  *)
(* says (module HttpCall checks it, over Dispatch as here); the lock of    *)
(* handling, which guards sections of one step except where closeInFlight  *)
(* leaves it.  External: net/http cancels the context of a request when    *)
(* its ServeHTTP has returned.                                             *)
(***************************************************************************)
EXTENDS Dispatch, FiniteSets

CONSTANTS
  Calls,          \* frames with a method that the client sends, each with its own id
  Req,            \* Req[c]: the request of c, as in Dispatch
  Methods,        \* the method table of the RPCServer
  Aliases,        \* its aliases
  UntilCtx,       \* calls whose handler returns only when its context is done
  Returns,        \* what a handler may return: a set of [panics, val, err]
  WriteCap,       \* capacity of writeChan (100 in the code)
  FrameCap,       \* capacity of frameChan (100 in the code)
  PongCap,        \* capacity of keepAliveChan (100 in the code)
  MaxWire,        \* bound on the frames between the client and R
  MaxPings,       \* bound on the pings between the client and W
  MaxCalls,       \* bound on how many of Calls the client sends
  CtxCancellable, \* can the context of the HTTP request end by itself?
  NoCall          \* no call

ASSUME ServerAssumption ==
  /\ UntilCtx \subseteq Calls
  /\ WriteCap \in Nat \ {0}
  /\ FrameCap \in Nat \ {0}
  /\ PongCap \in Nat \ {0}
  /\ MaxWire \in Nat \ {0}
  /\ MaxCalls \in Nat
  /\ MaxPings \in Nat
  /\ CtxCancellable \in BOOLEAN
  /\ NoCall \notin Calls
  /\ DOMAIN Req = Calls
  /\ \A ret \in Returns : ret.panics \in BOOLEAN /\ ret.err \in BOOLEAN

VARIABLES
  sentCall,     \* calls the client has sent
  sentCancel,   \* calls it has sent xrpc.cancel for
  wire,         \* frames on their way to R
  answered,     \* answered[c]: responses to c that reached the client
  conn,         \* is the connection up?
  ctxDone,      \* is the context given to handleWsConn done?
  frameQ,       \* content of frameChan
  writeQ,       \* content of writeChan: the calls responded to, NoCall for no text
  pongs,        \* how many pongs keepAliveChan holds
  exitCh,       \* is exitCh closed (and exiting with it)?
  wpc,          \* where W is
  rpc,          \* where R is
  rhold,        \* the frame R holds
  handling,     \* the calls in the table handling
  cancelled,    \* calls whose own context was cancelled
  hpc,          \* hpc[c]: where the goroutine of c is in handle()
  garbled,      \* calls whose handler returned a value that json.Marshal refuses
  registering   \* the call whose channel handleOutChans is announcing, or NoCall

clientVars == <<sentCall, sentCancel, answered>>
handlerVars == <<handling, cancelled, hpc, garbled, registering>>
vars == <<sentCall, sentCancel, wire, answered, conn, ctxDone, frameQ, writeQ, pongs,
          exitCh, wpc, rpc, rhold, handling, cancelled, hpc, garbled, registering>>

Ping == [kind |-> "ping", call |-> NoCall]
Frames == [kind : {"call", "cancel"}, call : Calls] \cup {Ping}
NoFrame == [kind |-> "none", call |-> NoCall]

Refused == [c \in Calls |-> Refusal(Methods, Aliases, Req[c], TRUE)]
Keeps == [c \in Calls |-> KeepCtx(Methods, Aliases, Req[c])]
Handler == [c \in {d \in Calls : Refused[d] = "none"} |->
              Methods[Lookup(Methods, Aliases, Req[c].method)]]

(* Is the context a handler was given done?                                *)
ContextDone(c) == c \in cancelled \/ ctxDone

(* The goroutine of c exists and has not called done yet.                  *)
Running == {c \in Calls : hpc[c] \notin {"none", "gone"}}

TypeOK ==
  /\ sentCall \subseteq Calls /\ sentCancel \subseteq sentCall
  /\ wire \in Seq(Frames) /\ frameQ \in Seq(Frames) /\ Len(frameQ) <= FrameCap
  /\ answered \in [Calls -> Nat]
  /\ writeQ \in Seq(Calls \cup {NoCall}) /\ Len(writeQ) <= WriteCap
  /\ pongs \in 0 .. PongCap
  /\ conn \in {"up", "down"} /\ ctxDone \in BOOLEAN /\ exitCh \in BOOLEAN
  /\ wpc \in {"select", "pong", "gone"}
  /\ rpc \in {"loop", "read", "push", "close", "replace", "gone"}
  /\ rhold \in Frames \cup {NoFrame}
  /\ handling \subseteq Calls /\ cancelled \subseteq Calls
  /\ hpc \in [Calls -> {"none", "running", "registering", "writing", "finishing", "gone"}]
  /\ garbled \subseteq Calls
  /\ registering \in Calls \cup {NoCall}

Init ==
  /\ sentCall = {} /\ sentCancel = {} /\ wire = <<>> /\ answered = [c \in Calls |-> 0]
  /\ conn = "up" /\ ctxDone = FALSE
  /\ frameQ = <<>> /\ writeQ = <<>> /\ pongs = 0 /\ exitCh = FALSE
  /\ wpc = "select" /\ rpc = "loop" /\ rhold = NoFrame
  /\ handling = {} /\ cancelled = {}
  /\ hpc = [c \in Calls |-> "none"]
  /\ garbled = {} /\ registering = NoCall

-----------------------------------------------------------------------------
(* The client and the connection.                                          *)

SendCall(c) ==
  /\ conn = "up" /\ Len(wire) < MaxWire
  /\ c \notin sentCall /\ Cardinality(sentCall) < MaxCalls
  /\ sentCall' = sentCall \cup {c}
  /\ wire' = Append(wire, [kind |-> "call", call |-> c])
  /\ UNCHANGED <<sentCancel, answered, conn, ctxDone, frameQ, writeQ, pongs, exitCh, wpc, rpc, rhold, handlerVars>>

(* doRequest and handleCtxAsync cancel a call they have sent before, not   *)
(* knowing whether its response is on the way.                             *)
SendCancel(c) ==
  /\ conn = "up" /\ Len(wire) < MaxWire
  /\ c \in sentCall \ sentCancel
  /\ Req[c].hasID
  /\ sentCancel' = sentCancel \cup {c}
  /\ wire' = Append(wire, [kind |-> "cancel", call |-> c])
  /\ UNCHANGED <<sentCall, answered, conn, ctxDone, frameQ, writeQ, pongs, exitCh, wpc, rpc, rhold, handlerVars>>

PingsIn(q) == Cardinality({i \in DOMAIN q : q[i] = Ping})
PingsUnderWay == PingsIn(wire) + PingsIn(frameQ) + (IF rhold = Ping THEN 1 ELSE 0)

(* The client's ping timer fires, whether or not earlier pings were        *)
(* answered.                                                               *)
SendPing ==
  /\ conn = "up" /\ Len(wire) < MaxWire
  /\ PingsUnderWay < MaxPings
  /\ wire' = Append(wire, Ping)
  /\ UNCHANGED <<clientVars, conn, ctxDone, frameQ, writeQ, pongs, exitCh, wpc, rpc, rhold, handlerVars>>

(* The client closes the connection, or it breaks.                         *)
ConnEnds ==
  /\ conn = "up"
  /\ conn' = "down"
  /\ UNCHANGED <<clientVars, wire, ctxDone, frameQ, writeQ, pongs, exitCh, wpc, rpc, rhold, handlerVars>>

CtxEnds ==
  /\ CtxCancellable /\ ~ctxDone
  /\ ctxDone' = TRUE
  /\ UNCHANGED <<clientVars, wire, conn, frameQ, writeQ, pongs, exitCh, wpc, rpc, rhold, handlerVars>>

-----------------------------------------------------------------------------
(* R, the body of handleWsConn.                                            *)

(* The select before every read.                                           *)
RLoop ==
  /\ rpc = "loop"
  /\ IF ctxDone \/ exitCh
       THEN rpc' = "close" /\ conn' = "down"
       ELSE rpc' = "read" /\ UNCHANGED conn
  /\ UNCHANGED <<clientVars, wire, ctxDone, frameQ, writeQ, pongs, exitCh, wpc, rhold, handlerVars>>

RRead ==
  /\ rpc = "read"
  /\ wire # <<>>
  /\ rhold' = Head(wire)
  /\ wire' = Tail(wire)
  /\ rpc' = "push"
  /\ UNCHANGED <<clientVars, conn, ctxDone, frameQ, writeQ, pongs, exitCh, wpc, handlerVars>>

RPush_NoLimit ==         \* Mutant: a frame is appended to a full queue.
  /\ rpc = "push"
  /\ frameQ' = Append(frameQ, rhold)
  /\ rhold' = NoFrame
  /\ rpc' = "loop"
  /\ UNCHANGED <<clientVars, wire, conn, ctxDone, writeQ, pongs, exitCh, wpc, handlerVars>>

(* frameChan <- frame, with no other case in the select.                   *)
RPush ==
  /\ rpc = "push"
  /\ Len(frameQ) < FrameCap
  /\ frameQ' = Append(frameQ, rhold)
  /\ rhold' = NoFrame
  /\ rpc' = "loop"
  /\ UNCHANGED <<clientVars, wire, conn, ctxDone, writeQ, pongs, exitCh, wpc, handlerVars>>

RReadErr_Continue ==     \* Mutant: a read error is logged and the next frame awaited.
  /\ rpc = "read"
  /\ conn = "down"
  /\ rpc' = "loop"
  /\ UNCHANGED <<clientVars, wire, conn, ctxDone, frameQ, writeQ, pongs, exitCh, wpc, rhold, handlerVars>>

RReadErr ==
  /\ rpc = "read"
  /\ conn = "down"
  /\ exitCh' = TRUE
  /\ rpc' = "close"
  /\ UNCHANGED <<clientVars, wire, conn, ctxDone, frameQ, writeQ, pongs, wpc, rhold, handlerVars>>

(* closeInFlight: cancels every entry under the lock ...                   *)
RCloseInFlight ==
  /\ rpc = "close"
  /\ cancelled' = cancelled \cup handling
  /\ rpc' = "replace"
  /\ UNCHANGED <<clientVars, wire, conn, ctxDone, frameQ, writeQ, pongs, exitCh, wpc, rhold,
                 handling, hpc, garbled, registering>>

(* ... and replaces the table without it.  handleWsConn, handleWS and      *)
(* ServeHTTP return, so net/http cancels the context of the request.       *)
RReplace ==
  /\ rpc = "replace"
  /\ handling' = {}
  /\ rpc' = "gone"
  /\ ctxDone' = TRUE
  /\ UNCHANGED <<clientVars, wire, conn, frameQ, writeQ, pongs, exitCh, wpc, rhold,
                 cancelled, hpc, garbled, registering>>

-----------------------------------------------------------------------------
(* W: frames and writes.                                                   *)

(* The first thing the goroutine of c does that others see: an answer, the *)
(* handler, or (a notification that is refused) nothing.                   *)
FirstStep(c) ==
  CASE Refused[c] = "none" -> "running"
    [] Refused[c] # "none" /\ rpcError(Req[c], Refused[c]) = NoAnswer -> "finishing"
    [] OTHER -> "writing"

(* handleCall: the entry is in the table before the goroutine starts.      *)
handleCall(c) ==
  /\ handling' = IF Req[c].hasID THEN handling \cup {c} ELSE handling
  /\ hpc' = [hpc EXCEPT ![c] = FirstStep(c)]
  /\ UNCHANGED <<cancelled, garbled, registering>>

(* cancelCtx: an id that is not in the table is ignored.                   *)
cancelCtx_All(c) ==      \* Mutant: cancels whatever is being handled.
  /\ cancelled' = cancelled \cup handling
  /\ UNCHANGED <<handling, hpc, garbled, registering>>

cancelCtx_None(c) ==     \* Mutant: the entry is looked up and not called.
  UNCHANGED handlerVars

cancelCtx(c) ==
  /\ cancelled' = cancelled \cup ({c} \cap handling)
  /\ UNCHANGED <<handling, hpc, garbled, registering>>

(* xrpc.ping: W sends itself a pong to write.  Nobody else receives from   *)
(* keepAliveChan: when it is full, W waits forever.                        *)
answerPing ==
  \/ /\ pongs < PongCap
     /\ pongs' = pongs + 1
     /\ UNCHANGED wpc
  \/ /\ pongs = PongCap
     /\ wpc' = "pong"
     /\ UNCHANGED pongs

WFrame ==
  /\ wpc = "select"
  /\ frameQ # <<>>
  /\ LET f == Head(frameQ) IN
       \/ f.kind = "call" /\ handleCall(f.call) /\ UNCHANGED <<pongs, wpc>>
       \/ f.kind = "cancel" /\ cancelCtx(f.call) /\ UNCHANGED <<pongs, wpc>>
       \/ f = Ping /\ answerPing /\ UNCHANGED handlerVars
  /\ frameQ' = Tail(frameQ)
  /\ UNCHANGED <<clientVars, wire, conn, ctxDone, writeQ, exitCh, rpc, rhold>>

WWrite ==
  /\ wpc = "select"
  /\ writeQ # <<>>
  /\ writeQ' = Tail(writeQ)
  /\ IF conn = "up"
       THEN answered' = [c \in Calls |-> answered[c] + IF c = Head(writeQ) THEN 1 ELSE 0]
            /\ UNCHANGED <<exitCh, wpc>>
       ELSE exitCh' = TRUE /\ wpc' = "gone" /\ UNCHANGED answered
  /\ UNCHANGED <<sentCall, sentCancel, wire, conn, ctxDone, frameQ, pongs, rpc, rhold, handlerVars>>

(* A pong is written; what the client does with it is not this module's.   *)
WPong ==
  /\ wpc = "select"
  /\ pongs > 0
  /\ pongs' = pongs - 1
  /\ IF conn = "up" THEN UNCHANGED <<exitCh, wpc>> ELSE exitCh' = TRUE /\ wpc' = "gone"
  /\ UNCHANGED <<clientVars, wire, conn, ctxDone, frameQ, writeQ, rpc, rhold, handlerVars>>

WLeave ==
  /\ wpc = "select"
  /\ ctxDone \/ exitCh
  /\ wpc' = "gone"
  /\ UNCHANGED <<clientVars, wire, conn, ctxDone, frameQ, writeQ, pongs, exitCh, rpc, rhold, handlerVars>>

-----------------------------------------------------------------------------
(* The goroutine of a handler (RPCServer.handle) and handleOutChans.       *)

(* doCall returns; a panic is a return as well.                            *)
HReturn(c) ==
  /\ hpc[c] = "running"
  /\ c \in UntilCtx => ContextDone(c)
  /\ \E ret \in Returns :
       /\ ret.err => Handler[c].errOut # 0
       /\ \/ /\ SendsChannel(Handler[c], Req[c], ret)
             /\ hpc' = [hpc EXCEPT ![c] = "registering"]
             /\ UNCHANGED garbled
          \/ /\ ~SendsChannel(Handler[c], Req[c], ret)
             /\ LET answer == Answer(Handler[c], Req[c], ret)
                IN /\ hpc' = [hpc EXCEPT ![c] = IF answer = NoAnswer THEN "finishing"
                                                                    ELSE "writing"]
                   /\ garbled' = garbled \cup {d \in {c} : ~Marshals(answer)}
  /\ UNCHANGED <<clientVars, wire, conn, ctxDone, frameQ, writeQ, pongs, exitCh, wpc, rpc, rhold,
                 handling, cancelled, registering>>

(* handleChanOut: handleOutChans takes the channel, or exiting is closed.  *)
HRegister_Both(c) ==     \* Mutant: the handler responds although the channel goroutine does.
  /\ hpc[c] = "registering"
  /\ registering = NoCall
  /\ registering' = c
  /\ hpc' = [hpc EXCEPT ![c] = "writing"]
  /\ UNCHANGED <<clientVars, wire, conn, ctxDone, frameQ, writeQ, pongs, exitCh, wpc, rpc, rhold,
                 handling, cancelled, garbled>>

HRegister(c) ==
  /\ hpc[c] = "registering"
  /\ \/ /\ registering = NoCall
        /\ registering' = c
        /\ hpc' = [hpc EXCEPT ![c] = "finishing"]
     \/ /\ exitCh
        /\ hpc' = [hpc EXCEPT ![c] = "writing"]
        /\ UNCHANGED registering
  /\ UNCHANGED <<clientVars, wire, conn, ctxDone, frameQ, writeQ, pongs, exitCh, wpc, rpc, rhold,
                 handling, cancelled, garbled>>

Announce_Silent ==       \* Mutant: the registration of a channel is not answered.
  /\ registering # NoCall
  /\ registering' = NoCall
  /\ UNCHANGED <<clientVars, wire, conn, ctxDone, frameQ, writeQ, pongs, exitCh, wpc, rpc, rhold,
                 handling, cancelled, hpc, garbled>>

(* handleOutChans answers with the id of the channel.                      *)
Announce ==
  /\ registering # NoCall
  /\ Len(writeQ) < WriteCap
  /\ writeQ' = Append(writeQ, registering)
  /\ registering' = NoCall
  /\ UNCHANGED <<clientVars, wire, conn, ctxDone, frameQ, pongs, exitCh, wpc, rpc, rhold,
                 handling, cancelled, hpc, garbled>>

(* nextWriter: c.writeChan <- msg, with no other case in the select.  What *)
(* json.Marshal refuses is sent as a message without text.                 *)
HWrite(c) ==
  /\ hpc[c] = "writing"
  /\ Len(writeQ) < WriteCap
  /\ writeQ' = Append(writeQ, IF c \in garbled THEN NoCall ELSE c)
  /\ hpc' = [hpc EXCEPT ![c] = "finishing"]
  /\ UNCHANGED <<clientVars, wire, conn, ctxDone, frameQ, pongs, exitCh, wpc, rpc, rhold,
                 handling, cancelled, garbled, registering>>

(* done(keepCtx).                                                          *)
HDone_Keep(c) ==         \* Mutant: the entry of a finished call stays.
  /\ hpc[c] = "finishing"
  /\ hpc' = [hpc EXCEPT ![c] = "gone"]
  /\ cancelled' = IF Keeps[c] THEN cancelled ELSE cancelled \cup {c}
  /\ UNCHANGED <<clientVars, wire, conn, ctxDone, frameQ, writeQ, pongs, exitCh, wpc, rpc, rhold,
                 handling, garbled, registering>>

HDone(c) ==
  /\ hpc[c] = "finishing"
  /\ hpc' = [hpc EXCEPT ![c] = "gone"]
  /\ IF Keeps[c]
       THEN UNCHANGED <<cancelled, handling>>
       ELSE cancelled' = cancelled \cup {c} /\ handling' = handling \ {c}
  /\ UNCHANGED <<clientVars, wire, conn, ctxDone, frameQ, writeQ, pongs, exitCh, wpc, rpc, rhold, garbled,
                 registering>>

-----------------------------------------------------------------------------
R == RLoop \/ RRead \/ RPush \/ RReadErr \/ RCloseInFlight \/ RReplace
W == WFrame \/ WWrite \/ WPong \/ WLeave
H(c) == HReturn(c) \/ HRegister(c) \/ HWrite(c) \/ HDone(c)

Next ==
  \/ \E c \in Calls : SendCall(c) \/ SendCancel(c) \/ H(c)
  \/ SendPing \/ ConnEnds \/ CtxEnds
  \/ R \/ W \/ Announce

Spec == Init /\ [][Next]_vars

(* Every goroutine that can go on does, and a select that keeps offering a *)
(* ready case takes it at some time.  Nothing is assumed of the client,    *)
(* and of a handler only that it returns (once its context is done, for    *)
(* those that wait for it).                                                *)
Fairness ==
  /\ WF_vars(R)
  /\ WF_vars(WFrame) /\ WF_vars(WWrite) /\ WF_vars(WPong) /\ WF_vars(WLeave)
  /\ WF_vars(Announce)
  /\ \A c \in Calls : WF_vars(H(c))

FairSpec == Spec /\ Fairness

-----------------------------------------------------------------------------
(* R has started closeInFlight's sweep of the table.                       *)
Swept == rpc \in {"replace", "gone"}

(* The context of a handler ends before the handler has, or, when the      *)
(* method returns a channel, at all, only because this client asked to     *)
(* cancel this very call or because the connection is being closed         *)
(* (websocket.go:228-246, 363-369, 404-413, handler.go:220).               *)
OnlyNamedCancelled ==
  \A c \in cancelled :
    \/ c \in sentCancel
    \/ Swept
    \/ hpc[c] = "gone" /\ ~Keeps[c]

(* As long as the connection is served, the table holds exactly the calls  *)
(* a cancel could still be about: those whose handler has not returned,    *)
(* and those that returned, or could have returned, a channel, the ones    *)
(* that failed included (websocket.go:356-369, handler.go:219-220).        *)
HandlingAgrees ==
  ~Swept => handling = {c \in Calls : /\ Req[c].hasID
                                      /\ hpc[c] # "none"
                                      /\ hpc[c] = "gone" => Keeps[c]}

(* Responses that name c, made so far and not lost.                        *)
AnswersTo(c) ==
  answered[c] + Cardinality({i \in DOMAIN writeQ : writeQ[i] = c})
    + (IF registering = c THEN 1 ELSE 0)

(* A request with an id gets one response, from whichever goroutine, and a *)
(* notification gets none, whether it was refused, failed, panicked or     *)
(* returned a value or a channel (handler.go:192-328, server.go:91-110).   *)
(* A value that json.Marshal refuses takes the response with it            *)
(* (websocket.go:341).                                                     *)
OneAnswer ==
  \A c \in Calls :
    IF Req[c].hasID /\ hpc[c] \in {"finishing", "gone"} /\ c \notin garbled
      THEN AnswersTo(c) <= 1 /\ (wpc # "gone" => AnswersTo(c) = 1)
      ELSE AnswersTo(c) = 0

(* The calls that are not notifications.                                   *)
WithID == {c \in Calls : Req[c].hasID}

(* W waits for itself: it has a pong to send and keepAliveChan is full.    *)
WaitsForItself == wpc = "pong"

(* A cancel that the client sends reaches the context of its call, also    *)
(* when it travels right behind the call, unless the connection ends first *)
(* or W waits for itself (websocket.go:226-246, 315-380).                  *)
CancelReaches ==
  \A c \in WithID :
    c \in sentCancel ~> (c \in cancelled \/ conn = "down" \/ ctxDone \/ WaitsForItself)

(* A request whose handler returns is answered while the connection lasts, *)
(* whatever the other requests and the pings of the client do, with two    *)
(* exceptions that the code has: W takes a ping while keepAliveChan is     *)
(* full, or the value cannot be marshalled (websocket.go:341, 374-380,     *)
(* 467-520).                                                               *)
CallAnswered ==
  \A c \in WithID :
    (c \in sentCall /\ (c \in UntilCtx => c \in sentCancel))
      ~> (answered[c] > 0 \/ conn = "down" \/ ctxDone \/ WaitsForItself \/ c \in garbled)

(* R cannot hand over its frame: frameChan is full, and W has left or      *)
(* waits for itself.                                                       *)
ReaderStuck == rpc = "push" /\ wpc \in {"pong", "gone"} /\ Len(frameQ) = FrameCap

(* When the connection ends, so does the context of every handler and of   *)
(* every channel it serves; the one thing that can prevent it is a full    *)
(* frameChan that W no longer empties (websocket.go:380, 404-414, 547;     *)
(* rpc_test.go:745-804 waits for it).                                      *)
ContextsEnd ==
  conn = "down" ~> (ReaderStuck \/ \A c \in Calls : hpc[c] # "none" => ContextDone(c))

=============================================================================
