------------------------------- MODULE OutChans -------------------------------
(***************************************************************************)
(* Methods whose result is a channel, over one websocket connection        *)
(* (jsonrpc/websocket.go and client.go).  On the server one goroutine      *)
(* (handleOutChans) receives from the channels of all handlers and writes  *)
(* their values into the connection; on the client W hands each value to   *)
(* a goroutine of its stream (makeOutChan), which keeps it until the       *)
(* program receives it.  When the connection ends R closes what is left.   *)
(*                                                                         *)
(* W and R are the goroutines of WsClient, here only with what they do to  *)
(* streams.  A value is the pair of its stream and its position.           *)
(*                                                                         *)
(* Abstracted: the handler function runs at once when the call arrives,    *)
(* and then its goroutine sends on the channel and closes it as it likes   *)
(* (so the cancellation that travels to the server needs no step of its    *)
(* own); a message is on the wire no longer than R needs to read it.       *)
(***************************************************************************)
EXTENDS Naturals, Sequences, FiniteSets

CONSTANTS
  Streams,    \* calls of methods whose result is a channel
  Readers,    \* those whose program keeps receiving
  CtxStreams, \* those whose context may be done
  MaxValues,  \* MaxValues[s]: bound on the values of the handler of s
  Lossy,      \* may the connection end?
  WriteCap,   \* capacity of the server's writeChan (100 in the code)
  FrameCap,   \* capacity of the client's frameChan (100 in the code)
  InCap,      \* capacity of incoming (32 in the code)
  None        \* no stream

ASSUME OutChansAssumption ==
  /\ IsFiniteSet(Streams)
  /\ Readers \subseteq Streams
  /\ CtxStreams \subseteq Streams
  /\ MaxValues \in [Streams -> Nat]
  /\ Lossy \in BOOLEAN
  /\ WriteCap \in Nat \ {0}
  /\ FrameCap \in Nat \ {0}
  /\ InCap \in Nat \ {0}
  /\ None \notin Streams

Ids == 1 .. Cardinality(Streams)
Values == UNION {{s} \X (1 .. MaxValues[s]) : s \in Streams}

(* What the server sends: the response with the id given to the channel,   *)
(* a value for that id, and the end of that id.                            *)
Response(s, id) == [kind |-> "response", id |-> id, req |-> s]
Value(id, v) == [kind |-> "value", id |-> id, data |-> v]
Closing(id) == [kind |-> "close", id |-> id]
NoMsg == [kind |-> "none"]

Msgs == [kind : {"response"}, id : Ids, req : Streams]
          \cup [kind : {"value"}, id : Ids, data : Values]
          \cup [kind : {"close"}, id : Ids]

VARIABLES
  \* server
  hpc,       \* hpc[s]: the handler goroutine of s (handle, handleChanOut)
  chid,      \* chid[s]: id given to the channel of s, 0 before
  chanCtr,   \* ids given so far
  taken,     \* taken[s]: how many values were received from the handler's channel
  srcClosed, \* did the handler close its channel?
  fpc,       \* handleOutChans
  fhold,     \* the message it sends to writeChan
  cases,     \* the channels it selects from, without the two internal ones
  caseToID,  \* the ids it knows them by
  writeQ,    \* content of the server's writeChan
  srvExit,   \* is exiting closed on the server?
  \* client
  conn,      \* is the connection up?
  cpc,       \* cpc[s]: what the program that called has
  inflight,  \* the calls registered as in flight
  handlers,  \* chanHandlers: the stream an id belongs to, or None
  frames,    \* content of frameChan
  rpc, rhold,          \* R and the frame it read
  rtodo, rid, rfor,    \* ids its range must produce, the current one, its stream
  wpc, whold, wfor,    \* W, the frame it handles, and the stream it looked up
  incoming,  \* incoming[s]: content of the channel W hands values to
  inClosed,  \* is incoming[s] closed?
  inNil,     \* did the stream's goroutine see that and set it to nil?
  buf,       \* buf[s]: values the goroutine keeps
  pump,      \* pump[s]: the goroutine itself
  got,       \* got[s]: what the program received
  ctxDone,   \* is the context of s done?
  crashed    \* did the client panic?

srcVars == <<hpc, chid, chanCtr, taken, srcClosed>>
fwdVars == <<fpc, fhold, cases, caseToID>>
serverVars == <<srcVars, fwdVars, srvExit>>
rVars == <<rpc, rhold, rtodo, rid, rfor>>
wVars == <<wpc, whold, wfor>>
pumpVars == <<incoming, inClosed, inNil, buf, pump, got>>
callVars == <<cpc, inflight>>
farVars == <<serverVars, writeQ, conn>>                  \* all but the client
loopVars == <<callVars, handlers, frames, rVars, wVars>> \* R and W
progVars == <<pumpVars, ctxDone, crashed>>
clientVars == <<loopVars, progVars>>
netVars == <<writeQ, srvExit, conn, clientVars>>         \* all but handlers and forwarder

vars == <<hpc, chid, chanCtr, taken, srcClosed, fpc, fhold, cases, caseToID, writeQ,
          srvExit, conn, cpc, inflight, handlers, frames, rpc, rhold, rtodo, rid, rfor,
          wpc, whold, wfor, incoming, inClosed, inNil, buf, pump, got, ctxDone, crashed>>

SrcTypes ==
  /\ hpc \in [Streams -> {"idle", "ran", "registering", "registered", "failed"}]
  /\ chid \in [Streams -> 0 .. Cardinality(Streams)]
  /\ chanCtr \in 0 .. Cardinality(Streams)
  /\ taken \in [Streams -> Nat] /\ \A s \in Streams : taken[s] <= MaxValues[s]
  /\ srcClosed \in [Streams -> BOOLEAN]

FwdTypes ==
  /\ fpc \in {"off", "select", "put", "gone"}
  /\ fhold \in (IF fpc = "put" THEN Msgs ELSE {NoMsg})
  /\ cases \in Seq(Streams)
  /\ caseToID \in Seq(Ids)

NetTypes ==
  /\ writeQ \in Seq(Msgs) /\ Len(writeQ) <= WriteCap
  /\ srvExit \in BOOLEAN
  /\ conn \in {"up", "down"}

CallTypes ==
  /\ cpc \in [Streams -> {"idle", "waiting", "has", "error"}]
  /\ inflight \in SUBSET Streams

QueueTypes ==
  /\ handlers \in [Ids -> Streams \cup {None}]
  /\ frames \in Seq(Msgs) /\ Len(frames) <= FrameCap

RTypes ==
  /\ rpc \in {"read", "push", "chans", "look", "close", "answer", "exit"}
  /\ rhold \in (IF rpc = "push" THEN Msgs ELSE {NoMsg})
  /\ rtodo \in SUBSET Ids
  /\ rid \in (IF rpc = "look" THEN Ids ELSE {0})
  /\ rfor \in Streams \cup {None}

WTypes ==
  /\ wpc \in {"select", "ready", "value", "close", "exit"}
  /\ IF wpc \in {"select", "exit"}
       THEN whold = NoMsg /\ wfor = None
       ELSE /\ whold \in Msgs /\ wfor \in Streams
            /\ wpc \in {"value", "close"} => whold.kind = wpc

PumpTypes ==
  /\ incoming \in [Streams -> Seq(Values)]
  /\ \A s \in Streams : Len(incoming[s]) <= InCap
  /\ inClosed \in [Streams -> BOOLEAN]
  /\ inNil \in [Streams -> BOOLEAN]
  /\ buf \in [Streams -> Seq(Values)]
  /\ pump \in [Streams -> {"none", "run", "gone"}]
  /\ got \in [Streams -> Seq(Values)]

TypeOK ==
  /\ SrcTypes /\ FwdTypes /\ NetTypes
  /\ CallTypes /\ QueueTypes /\ RTypes /\ WTypes
  /\ PumpTypes
  /\ ctxDone \in [Streams -> BOOLEAN]
  /\ crashed \in BOOLEAN

Init ==
  /\ hpc = [s \in Streams |-> "idle"]
  /\ chid = [s \in Streams |-> 0]
  /\ chanCtr = 0
  /\ taken = [s \in Streams |-> 0]
  /\ srcClosed = [s \in Streams |-> FALSE]
  /\ fpc = "off" /\ fhold = NoMsg
  /\ cases = <<>> /\ caseToID = <<>>
  /\ writeQ = <<>> /\ srvExit = FALSE
  /\ conn = "up"
  /\ cpc = [s \in Streams |-> "idle"]
  /\ inflight = {}
  /\ handlers = [i \in Ids |-> None]
  /\ frames = <<>>
  /\ rpc = "read" /\ rhold = NoMsg /\ rtodo = {} /\ rid = 0 /\ rfor = None
  /\ wpc = "select" /\ whold = NoMsg /\ wfor = None
  /\ incoming = [s \in Streams |-> <<>>]
  /\ inClosed = [s \in Streams |-> FALSE]
  /\ inNil = [s \in Streams |-> FALSE]
  /\ buf = [s \in Streams |-> <<>>]
  /\ pump = [s \in Streams |-> "none"]
  /\ got = [s \in Streams |-> <<>>]
  /\ ctxDone = [s \in Streams |-> FALSE]
  /\ crashed = FALSE

-----------------------------------------------------------------------------
(* Server: the handler goroutines and handleOutChans                       *)

(* The program calls: W registers the request, and on the server the       *)
(* handler function is run and returns its channel.                        *)
Call(s) ==
  /\ cpc[s] = "idle"
  /\ wpc = "select" /\ conn = "up"
  /\ cpc' = [cpc EXCEPT ![s] = "waiting"]
  /\ inflight' = inflight \cup {s}
  /\ hpc' = [hpc EXCEPT ![s] = "ran"]
  /\ UNCHANGED <<chid, chanCtr, taken, srcClosed, fwdVars, writeQ, srvExit, conn,
                 handlers, frames, rVars, wVars, progVars>>

(* handleChanOut: start the forwarder once, take an id.                    *)
HandleChanOut(s) ==
  /\ hpc[s] = "ran"
  /\ hpc' = [hpc EXCEPT ![s] = "registering"]
  /\ fpc' = IF fpc = "off" THEN "select" ELSE fpc
  /\ chanCtr' = chanCtr + 1
  /\ chid' = [chid EXCEPT ![s] = chanCtr + 1]
  /\ UNCHANGED <<taken, srcClosed, fhold, cases, caseToID, netVars>>

(* ... which gives up when the connection is closing.                      *)
ChanOutFails(s) ==
  /\ hpc[s] = "registering"
  /\ srvExit
  /\ hpc' = [hpc EXCEPT ![s] = "failed"]
  /\ UNCHANGED <<chid, chanCtr, taken, srcClosed, fwdVars, netVars>>

SourceCloses(s) ==
  /\ hpc[s] # "idle"
  /\ ~srcClosed[s]
  /\ srcClosed' = [srcClosed EXCEPT ![s] = TRUE]
  /\ UNCHANGED <<hpc, chid, chanCtr, taken, fwdVars, netVars>>

(* The forwarder receives a registration; it sends the response first.     *)
FRegister(s) ==
  /\ fpc = "select"
  /\ hpc[s] = "registering"
  /\ hpc' = [hpc EXCEPT ![s] = "registered"]
  /\ cases' = Append(cases, s)
  /\ caseToID' = Append(caseToID, chid[s])
  /\ fhold' = Response(s, chid[s])
  /\ fpc' = "put"
  /\ UNCHANGED <<chid, chanCtr, taken, srcClosed, netVars>>

(* ... a value of the i-th channel.                                        *)
FReceive(i) ==
  LET s == cases[i] IN
  /\ fpc = "select"
  /\ ~srcClosed[s]
  /\ taken[s] < MaxValues[s]
  /\ taken' = [taken EXCEPT ![s] = @ + 1]
  /\ fhold' = Value(caseToID[i], <<s, taken'[s]>>)
  /\ fpc' = "put"
  /\ UNCHANGED <<hpc, chid, chanCtr, srcClosed, cases, caseToID, netVars>>

(* The last element takes the place of the i-th.                           *)
SwapOut(seq, i) ==
  LET n == Len(seq) IN SubSeq([seq EXCEPT ![i] = seq[n]], 1, n - 1)

(* Mutant: the ids are cut but not moved.                                  *)
FClosed_KeepID(i) ==
  /\ fpc = "select"
  /\ srcClosed[cases[i]]
  /\ fhold' = Closing(caseToID[i])
  /\ cases' = SwapOut(cases, i)
  /\ caseToID' = SubSeq(caseToID, 1, Len(caseToID) - 1)
  /\ fpc' = "put"
  /\ UNCHANGED <<srcVars, netVars>>

(* ... the end of the i-th channel, which leaves both tables.              *)
FClosed(i) ==
  /\ fpc = "select"
  /\ srcClosed[cases[i]]
  /\ fhold' = Closing(caseToID[i])
  /\ cases' = SwapOut(cases, i)
  /\ caseToID' = SwapOut(caseToID, i)
  /\ fpc' = "put"
  /\ UNCHANGED <<srcVars, netVars>>

(* Mutant: writeChan has no limit.                                         *)
FPut_NoLimit ==
  /\ fpc = "put"
  /\ writeQ' = Append(writeQ, fhold)
  /\ fhold' = NoMsg
  /\ fpc' = "select"
  /\ UNCHANGED <<srcVars, cases, caseToID, srvExit, conn, clientVars>>

FPut ==
  /\ fpc = "put"
  /\ Len(writeQ) < WriteCap
  /\ writeQ' = Append(writeQ, fhold)
  /\ fhold' = NoMsg
  /\ fpc' = "select"
  /\ UNCHANGED <<srcVars, cases, caseToID, srvExit, conn, clientVars>>

FExit ==
  /\ fpc = "select"
  /\ srvExit
  /\ fpc' = "gone"
  /\ UNCHANGED <<srcVars, fhold, cases, caseToID, netVars>>

(* The server notices that the connection is gone: exitfun.                *)
ServerExits ==
  /\ conn = "down"
  /\ ~srvExit
  /\ srvExit' = TRUE
  /\ UNCHANGED <<srcVars, fwdVars, writeQ, conn, clientVars>>

(* Before that a write may still seem to succeed.                          *)
ServerWritesInVain ==
  /\ conn = "down"
  /\ ~srvExit
  /\ writeQ # <<>>
  /\ writeQ' = Tail(writeQ)
  /\ UNCHANGED <<serverVars, conn, clientVars>>

-----------------------------------------------------------------------------
(* Client: R                                                               *)

(* The server's W writes, R reads.                                         *)
RRead ==
  /\ rpc = "read"
  /\ conn = "up"
  /\ writeQ # <<>>
  /\ rhold' = Head(writeQ)
  /\ writeQ' = Tail(writeQ)
  /\ rpc' = "push"
  /\ UNCHANGED <<serverVars, conn, callVars, handlers, frames, rtodo, rid, rfor, wVars,
                 progVars>>

RPush ==
  /\ rpc = "push"
  /\ Len(frames) < FrameCap
  /\ frames' = Append(frames, rhold)
  /\ rhold' = NoMsg
  /\ rpc' = "read"
  /\ UNCHANGED <<farVars, callVars, handlers, rtodo, rid, rfor, wVars, progVars>>

Registered == {i \in Ids : handlers[i] # None}

(* Mutant: closeChans is not deferred.                                     *)
RLeave_ChansOpen ==
  /\ rpc = "read"
  /\ conn = "down"
  /\ rpc' = "answer"
  /\ UNCHANGED <<farVars, callVars, handlers, frames, rhold, rtodo, rid, rfor, wVars,
                 progVars>>

(* The read fails, or exitCh is closed: closeChans starts its range.       *)
RLeave ==
  /\ rpc = "read"
  /\ conn = "down"
  /\ rpc' = "chans"
  /\ rtodo' = Registered
  /\ UNCHANGED <<farVars, callVars, handlers, frames, rhold, rid, rfor, wVars, progVars>>

(* The range produces an id that is in the map.                            *)
RPick(i) ==
  /\ rpc = "chans"
  /\ i \in Registered
  /\ rid' = i
  /\ rtodo' = rtodo \ {i}
  /\ rpc' = "look"
  /\ UNCHANGED <<farVars, callVars, handlers, frames, rhold, rfor, wVars, progVars>>

(* Look its handler up and delete it.  If W deleted it first, a nil        *)
(* function is called.                                                     *)
RLookup ==
  /\ rpc = "look"
  /\ rfor' = handlers[rid]
  /\ handlers' = [handlers EXCEPT ![rid] = None]
  /\ crashed' = (handlers[rid] = None)
  /\ rid' = 0
  /\ rpc' = "close"
  /\ UNCHANGED <<farVars, callVars, frames, rhold, rtodo, wVars, pumpVars, ctxDone>>

(* close(incoming): closing twice, or closing nil, panics.                 *)
CloseIncoming(s) ==
  \/ /\ ~inClosed[s]
     /\ inClosed' = [inClosed EXCEPT ![s] = TRUE]
     /\ UNCHANGED crashed
  \/ /\ inClosed[s]
     /\ crashed' = TRUE
     /\ UNCHANGED inClosed

(* hnd(nil, false).                                                        *)
RClose ==
  /\ rpc = "close"
  /\ CloseIncoming(rfor)
  /\ rfor' = None
  /\ rpc' = "chans"
  /\ UNCHANGED <<farVars, callVars, handlers, frames, rhold, rtodo, rid, wVars, incoming,
                 inNil, buf, pump, got, ctxDone>>

(* All ids that were there at the start, and some of the later ones, have  *)
(* been produced.                                                          *)
RChansDone ==
  /\ rpc = "chans"
  /\ rtodo \cap Registered = {}
  /\ rpc' = "answer"
  /\ rtodo' = {}
  /\ UNCHANGED <<farVars, callVars, handlers, frames, rhold, rid, rfor, wVars, progVars>>

(* closeInFlight: pending calls get an error.                              *)
RAnswer ==
  /\ rpc = "answer"
  /\ cpc' = [s \in Streams |-> IF s \in inflight /\ cpc[s] = "waiting" THEN "error" ELSE cpc[s]]
  /\ inflight' = {}
  /\ rpc' = "exit"
  /\ UNCHANGED <<farVars, handlers, frames, rhold, rtodo, rid, rfor, wVars, progVars>>

-----------------------------------------------------------------------------
(* Client: W handles the frames                                            *)

(* A frame whose id or call is unknown is logged and dropped, and so is a  *)
(* value for a context that is done (ctx.Err() in hnd).                    *)
WDrop ==
  LET m == Head(frames) IN
  /\ wpc = "select"
  /\ frames # <<>>
  /\ \/ m.kind = "response" /\ m.req \notin inflight
     \/ m.kind # "response" /\ handlers[m.id] = None
     \/ m.kind = "value" /\ handlers[m.id] # None /\ ctxDone[handlers[m.id]]
  /\ frames' = Tail(frames)
  /\ UNCHANGED <<farVars, callVars, handlers, rVars, wVars, progVars>>

(* handleResponse: make the program's channel, start its goroutine, and    *)
(* register it under the id.                                               *)
WResponse ==
  LET m == Head(frames) IN
  /\ wpc = "select"
  /\ frames # <<>>
  /\ m.kind = "response" /\ m.req \in inflight
  /\ frames' = Tail(frames)
  /\ handlers' = [handlers EXCEPT ![m.id] = m.req]
  /\ pump' = [pump EXCEPT ![m.req] = "run"]
  /\ wpc' = "ready" /\ whold' = m /\ wfor' = m.req
  /\ UNCHANGED <<farVars, callVars, rVars, incoming, inClosed, inNil, buf, got, ctxDone,
                 crashed>>

(* ... then answer the call, unless closeInFlight has.                     *)
WReady ==
  /\ wpc = "ready"
  /\ cpc' = [cpc EXCEPT ![wfor] = IF @ = "waiting" THEN "has" ELSE @]
  /\ inflight' = inflight \ {wfor}
  /\ wpc' = "select" /\ whold' = NoMsg /\ wfor' = None
  /\ UNCHANGED <<farVars, handlers, frames, rVars, progVars>>

(* Mutant: the context is only looked at in the select.                    *)
WLookup_NoCtxErr ==
  LET m == Head(frames) IN
  /\ wpc = "select"
  /\ frames # <<>>
  /\ m.kind # "response" /\ handlers[m.id] # None
  /\ frames' = Tail(frames)
  /\ wpc' = m.kind /\ whold' = m /\ wfor' = handlers[m.id]
  /\ UNCHANGED <<farVars, callVars, handlers, rVars, progVars>>

(* handleChanMessage or handleChanClose: look the handler up; a value goes *)
(* on only if the context is not done.                                     *)
WLookup ==
  LET m == Head(frames) IN
  /\ wpc = "select"
  /\ frames # <<>>
  /\ m.kind # "response" /\ handlers[m.id] # None
  /\ m.kind = "value" => ~ctxDone[handlers[m.id]]
  /\ frames' = Tail(frames)
  /\ wpc' = m.kind /\ whold' = m /\ wfor' = handlers[m.id]
  /\ UNCHANGED <<farVars, callVars, handlers, rVars, progVars>>

(* hnd(value, true): hand the value to the stream's goroutine.  Sending to *)
(* the channel R has closed panics; to nil it waits for the context.       *)
WValue ==
  /\ wpc = "value"
  /\ \/ /\ ctxDone[wfor]
        /\ UNCHANGED <<incoming, crashed>>
     \/ /\ ~inClosed[wfor]
        /\ Len(incoming[wfor]) < InCap
        /\ incoming' = [incoming EXCEPT ![wfor] = Append(@, whold.data)]
        /\ UNCHANGED crashed
     \/ /\ inClosed[wfor] /\ ~inNil[wfor]
        /\ crashed' = TRUE
        /\ UNCHANGED incoming
  /\ wpc' = "select" /\ whold' = NoMsg /\ wfor' = None
  /\ UNCHANGED <<farVars, callVars, handlers, frames, rVars, inClosed, inNil, buf, pump,
                 got, ctxDone>>

(* delete(c.chanHandlers, chid); hnd(nil, false).                          *)
WClose ==
  /\ wpc = "close"
  /\ handlers' = [handlers EXCEPT ![whold.id] = None]
  /\ CloseIncoming(wfor)
  /\ wpc' = "select" /\ whold' = NoMsg /\ wfor' = None
  /\ UNCHANGED <<farVars, callVars, frames, rVars, incoming, inNil, buf, pump, got,
                 ctxDone>>

(* A write fails, or exitCh is closed, or the client is stopped.           *)
WLeave ==
  /\ wpc = "select"
  /\ conn = "down"
  /\ wpc' = "exit"
  /\ UNCHANGED <<farVars, callVars, handlers, frames, rVars, whold, wfor, progVars>>

-----------------------------------------------------------------------------
(* Client: the goroutine of a stream, and the program                      *)

(* Mutant: no list behind incoming.                                        *)
PumpTake_NoBuffer(s) ==
  /\ pump[s] = "run"
  /\ incoming[s] # <<>>
  /\ buf[s] = <<>>
  /\ buf' = [buf EXCEPT ![s] = Append(@, Head(incoming[s]))]
  /\ incoming' = [incoming EXCEPT ![s] = Tail(@)]
  /\ UNCHANGED <<farVars, loopVars, inClosed, inNil, pump, got, ctxDone, crashed>>

PumpTake(s) ==
  /\ pump[s] = "run"
  /\ incoming[s] # <<>>
  /\ buf' = [buf EXCEPT ![s] = Append(@, Head(incoming[s]))]
  /\ incoming' = [incoming EXCEPT ![s] = Tail(@)]
  /\ UNCHANGED <<farVars, loopVars, inClosed, inNil, pump, got, ctxDone, crashed>>

PumpSeesClose(s) ==
  /\ pump[s] = "run"
  /\ inClosed[s] /\ ~inNil[s]
  /\ incoming[s] = <<>>
  /\ inNil' = [inNil EXCEPT ![s] = TRUE]
  /\ UNCHANGED <<farVars, loopVars, incoming, inClosed, buf, pump, got, ctxDone, crashed>>

(* The program receives from its channel.                                  *)
Receive(s) ==
  /\ pump[s] = "run"
  /\ cpc[s] = "has"
  /\ buf[s] # <<>>
  /\ got' = [got EXCEPT ![s] = Append(@, Head(buf[s]))]
  /\ buf' = [buf EXCEPT ![s] = Tail(@)]
  /\ UNCHANGED <<farVars, loopVars, incoming, inClosed, inNil, pump, ctxDone, crashed>>

(* Mutant: what is kept is not waited for.                                 *)
PumpEnds_Early(s) ==
  /\ pump[s] = "run"
  /\ inClosed[s] \/ ctxDone[s]
  /\ pump' = [pump EXCEPT ![s] = "gone"]
  /\ UNCHANGED <<farVars, loopVars, incoming, inClosed, inNil, buf, got, ctxDone,
                 crashed>>

(* ch.Close(): nothing is left, or the context is done.                    *)
PumpEnds(s) ==
  /\ pump[s] = "run"
  /\ (inNil[s] /\ buf[s] = <<>>) \/ ctxDone[s]
  /\ pump' = [pump EXCEPT ![s] = "gone"]
  /\ UNCHANGED <<farVars, loopVars, incoming, inClosed, inNil, buf, got, ctxDone,
                 crashed>>

CtxEnds(s) ==
  /\ s \in CtxStreams
  /\ cpc[s] # "idle"
  /\ ~ctxDone[s]
  /\ ctxDone' = [ctxDone EXCEPT ![s] = TRUE]
  /\ UNCHANGED <<farVars, loopVars, pumpVars, crashed>>

(* The network drops the connection, or one side closes it.                *)
ConnEnds ==
  /\ Lossy
  /\ conn = "up"
  /\ conn' = "down"
  /\ UNCHANGED <<serverVars, writeQ, clientVars>>

-----------------------------------------------------------------------------
FStep == FPut \/ FExit \/ \E i \in 1 .. Len(cases) : FReceive(i) \/ FClosed(i)

ServerStep ==
  \/ \E s \in Streams : HandleChanOut(s) \/ ChanOutFails(s) \/ FRegister(s)
  \/ FStep \/ ServerExits \/ ServerWritesInVain

RStep ==
  \/ RRead \/ RPush \/ RLeave \/ RLookup \/ RClose \/ RChansDone \/ RAnswer
  \/ \E i \in Ids : RPick(i)

WStep == WDrop \/ WResponse \/ WReady \/ WLookup \/ WValue \/ WClose \/ WLeave

PumpStep(s) == PumpTake(s) \/ PumpSeesClose(s) \/ PumpEnds(s)

Environment ==
  \/ \E s \in Streams : Call(s) \/ SourceCloses(s) \/ CtxEnds(s)
  \/ ConnEnds

(* A panic stops the client's process: nothing more is observed.           *)
Next ==
  /\ ~crashed
  /\ \/ ServerStep \/ RStep \/ WStep \/ Environment
     \/ \E s \in Streams : PumpStep(s) \/ Receive(s)

Spec == Init /\ [][Next]_vars

(* Every goroutine that can run does.  The handlers and the programs are   *)
(* free, but a program in Readers keeps receiving.                         *)
FairSpec ==
  /\ Spec
  /\ WF_vars(~crashed /\ (FPut \/ FExit \/ \E i \in 1 .. Len(cases) : FClosed(i)))
  /\ \A s \in Streams : /\ WF_vars(~crashed /\ HandleChanOut(s))
                        /\ WF_vars(~crashed /\ (ChanOutFails(s) \/ FRegister(s)))
                        /\ WF_vars(~crashed /\ PumpStep(s))
  /\ WF_vars(~crashed /\ ServerExits)
  /\ WF_vars(~crashed /\ RStep)
  /\ WF_vars(~crashed /\ WStep)
  /\ \A s \in Readers : WF_vars(~crashed /\ Receive(s))

-----------------------------------------------------------------------------
(* Safety                                                                  *)

(* The two tables of handleOutChans speak of the same channels, whatever   *)
(* was registered and removed in between, and the client knows each id by  *)
(* the stream the server gave it to (websocket.go:125-129, 155-164, 302).  *)
TablesAgree ==
  /\ Len(cases) = Len(caseToID)
  /\ \A i \in 1 .. Len(cases) : caseToID[i] = chid[cases[i]]
  /\ \A i \in Registered : chid[handlers[i]] = i

(* What the handler put on its channel.                                    *)
Made(s) == [n \in 1 .. taken[s] |-> <<s, n>>]

(* The program receives what the handler sent, and its channel is closed   *)
(* before that only if the connection is gone or its context is done.      *)
Promise == INSTANCE Stream WITH
  made <- [s \in Streams |-> Made(s)],
  closed <- srcClosed,
  ended <- [s \in Streams |-> pump[s] = "gone"],
  broken <- conn = "down",
  given <- ctxDone

RefinesStream == Promise!Spec

-----------------------------------------------------------------------------
(* Liveness                                                                *)

(* While the connection is up, a stream whose handler is done is delivered *)
(* to the end to a program that keeps receiving, whoever else does not     *)
(* (client.go:325-377).                                                    *)
StreamsComplete ==
  \A s \in Readers :
    (srcClosed[s] /\ cpc[s] = "has") ~> (pump[s] = "gone" \/ conn = "down")

(* A stream W registered before R starts its cleanup is closed by it       *)
(* (websocket.go:416-422), unless the client panics meanwhile.             *)
HeldStreamsEnd ==
  \A s \in Readers :
    (/\ conn = "down" /\ rpc \in {"read", "push"}
     /\ \E i \in Ids : handlers[i] = s)
      ~> (pump[s] = "gone" \/ crashed \/ cpc[s] = "error")

(* The test TestChanServerClose (rpc_test.go:735-742): when the server     *)
(* goes away the program's channel is closed.  It does not hold, even if a *)
(* panic of the client is let pass: W may register a stream after          *)
(* closeChans has looked (websocket.go:302, 416-422).                      *)
StreamsEndWithConnection ==
  \A s \in Readers : (conn = "down" /\ cpc[s] = "has") ~> (pump[s] = "gone" \/ crashed)

==============================================================================
