------------------------------ MODULE WsClient ------------------------------
(***************************************************************************)
(* The websocket client of package jsonrpc: the callers blocked in         *)
(* doRequest (client.go), the wsConn they share (websocket.go), the two    *)
(* goroutines handleWsConn runs for every connection, the goroutine that   *)
(* redials, and the ClientCloser.                                          *)
(*                                                                         *)
(* A "generation" is one call of handleWsConn, hence one connection.  Its  *)
(* locals (exitCh, once, bretry) belong to it; the fields of the wsConn    *)
(* (conn, inflight, writeChan, frameChan) are replaced by the next one,    *)
(* one after the other and without a lock, while goroutines of the         *)
(* previous generation may still be running: every read of a field is a    *)
(* step of its own, and what it found is kept until it is used.            *)
(*                                                                         *)
(* W is the goroutine websocket.go calls the sender: it owns the select    *)
(* over requests, writeChan, frameChan and stop.  R is the body of         *)
(* handleWsConn: it reads the connection and runs the deferred cleanup.    *)
(*                                                                         *)
(* Abstracted: the bytes of a message (a message is its kind, its call and *)
(* the attempt it belongs to); the wire (the remote gets a message when W  *)
(* writes it, and R reads an answer when the remote has one, since nothing *)
(* observes the time in between); pings (they only make a dead connection  *)
(* noticed, which WWriteErr and RReadErr already do); channel results.     *)
(* Two goroutines that write, or read, one connection at the same time     *)
(* take turns here; the websocket library forbids it and may panic.        *)
(***************************************************************************)
EXTENDS Integers, Sequences, FiniteSets

CONSTANTS
  Calls,          \* calls made on the client, each with its own request id
  RetryCalls,     \* calls of methods tagged retry:"true"
  CtxCalls,       \* calls whose context may be done before they return
  MaxAttempts,    \* bound on the attempts of one call
  MaxGen,         \* bound on the connections the client makes
  WriteCap,       \* capacity of writeChan (100 in the code)
  FrameCap,       \* capacity of frameChan (100 in the code)
  NoReconnect,    \* option WithNoReconnect
  CtxCancellable, \* can the context given to NewClient be cancelled?
  SleepSettles,   \* does the sleep before a redial outlast runnable goroutines?
  NoCall          \* no call

ASSUME ClientAssumption ==
  /\ RetryCalls \subseteq Calls
  /\ CtxCalls \subseteq Calls
  /\ MaxAttempts \in Nat \ {0}
  /\ MaxGen \in Nat \ {0}
  /\ WriteCap \in Nat \ {0}
  /\ FrameCap \in Nat \ {0}
  /\ NoReconnect \in BOOLEAN
  /\ CtxCancellable \in BOOLEAN
  /\ SleepSettles \in BOOLEAN
  /\ NoCall \notin Calls

Attempts == 1 .. MaxAttempts
Gens == 1 .. MaxGen

(* What W writes: a request, or the cancellation of one.                   *)
Msgs == [kind : {"call", "cancel"}, call : Calls, att : Attempts]

VARIABLES
  \* callers
  cpc,        \* where the call is in doRequest
  attempt,    \* attempt[c]: number of the current sendRequest of c, 0 before
  ctxSent,    \* did this attempt already notice its context is done?
  outcome,    \* what the call returned
  ready,      \* ready[c][a]: content of the channel of attempt a, capacity 1
  \* fields of the wsConn
  gen,        \* the youngest generation that runs: frameChan is its own
  inflight,   \* inflight[c]: attempt registered under the id of c, 0 if none
  writeQ,     \* writeQ[g]: content of the writeChan made by generation g
  frameQ,     \* frameQ[g]: ids of the responses in generation g's frameChan
  \* locals of each generation
  exitCh,     \* exitCh[g]: has exitfun run (once) and closed exitCh?
  bretry,     \* bretry[g]: should exitfun redial?
  \* goroutines
  wpc,        \* wpc[g]: where W of generation g is
  whold,      \* whold[g]: the message W holds while it is not in its select
  wchan,      \* wchan[g]: generation whose writeChan W selects on or sends to
  wframe,     \* wframe[g]: generation whose frameChan W selects on
  rpc,        \* rpc[g]: where R of generation g is
  rhold,      \* rhold[g]: id of the response R holds
  rconn,      \* rconn[g]: generation whose connection R is reading
  rchan,      \* rchan[g]: generation whose frameChan R is sending to
  rtodo,      \* rtodo[g]: in-flight attempts closeInFlight has still to answer
  iter,       \* generations whose closeInFlight ranges over the current map
  dialer,     \* the redialing goroutine started by exitfun
  \* shutdown
  exiting,    \* how many times the channel exiting was closed
  closer,     \* where the ClientCloser is
  isStoped,   \* the flag the ClientCloser sets
  ctxDone,    \* is the context given to NewClient cancelled?
  \* the remote
  conn,       \* conn[g]: state of the connection of generation g
  serving,    \* serving[g]: attempts the remote got on connection g and may answer
  runs        \* runs[c][a]: how often the remote ran attempt a of c

callerVars == <<cpc, attempt, ctxSent, outcome>>
fieldVars == <<gen, inflight>>
wVars == <<wpc, whold, wchan, wframe>>
rVars == <<rpc, rhold, rconn, rchan>>
drainVars == <<rtodo, iter>>
exitVars == <<exitCh, bretry, dialer, exiting>>
closeVars == <<closer, isStoped, ctxDone>>
peerVars == <<conn, serving, runs>>

vars == <<cpc, attempt, ctxSent, outcome, ready, gen, inflight, writeQ, frameQ,
          exitCh, bretry, wpc, whold, wchan, wframe, rpc, rhold, rconn, rchan,
          rtodo, iter, dialer, exiting, closer, isStoped, ctxDone, conn,
          serving, runs>>

NoMsg == [kind |-> "none", call |-> NoCall, att |-> 0]

(* A response W has taken from a frameChan: it names a call, no attempt.   *)
Responses == [kind : {"response"}, call : Calls, att : {0}]

(* The redialer replaces conn, inflight, writeChan and frameChan in this   *)
(* order; its state names the last one it has assigned.                    *)
Replacing == {"conn", "inflight", "writeChan"}

(* The generation whose connection, and whose writeChan, the field holds.  *)
ConnField == IF dialer \in Replacing THEN gen + 1 ELSE gen
WriteField == IF dialer = "writeChan" THEN gen + 1 ELSE gen

CallerTypes ==
  /\ cpc \in [Calls -> {"idle", "sending", "waiting", "cancelling", "sleeping", "done"}]
  /\ attempt \in [Calls -> 0 .. MaxAttempts]
  /\ ctxSent \in [Calls -> BOOLEAN]
  /\ outcome \in [Calls -> {"none", "reply", "closed", "exiting"}]
  /\ \A c \in Calls : cpc[c] # "idle" => attempt[c] \in Attempts

ReadyTypes == ready \in [Calls -> [Attempts -> {"empty", "reply", "closed"}]]

FieldTypes ==
  /\ gen \in Gens
  /\ inflight \in [Calls -> 0 .. MaxAttempts]

WriteTypes ==
  /\ writeQ \in [Gens -> Seq(Msgs)]
  /\ \A g \in Gens : Len(writeQ[g]) <= WriteCap

FrameTypes ==
  /\ frameQ \in [Gens -> Seq(Calls)]
  /\ \A g \in Gens : Len(frameQ[g]) <= FrameCap

ExitTypes ==
  /\ exitCh \in [Gens -> BOOLEAN]
  /\ bretry \in [Gens -> BOOLEAN]
  /\ dialer \in {"off", "check", "dialing"} \cup Replacing
  /\ exiting \in Nat

WTypes ==
  /\ wpc \in [Gens -> {"none", "top", "select", "register", "address", "put",
                       "write", "lookup", "deliver", "delete", "exit"}]
  /\ whold \in [Gens -> Msgs \cup Responses \cup {NoMsg}]
  /\ wchan \in [Gens -> Gens]
  /\ wframe \in [Gens -> Gens]
  /\ \A g \in Gens :
       /\ wpc[g] \in {"register", "address", "put", "write", "deliver", "delete"} =>
            whold[g] \in Msgs
       /\ wpc[g] = "lookup" => whold[g] \in Responses

RTypes ==
  /\ rpc \in [Gens -> {"none", "top", "begin", "read", "got", "push", "return", "drain",
                       "exit"}]
  /\ rhold \in [Gens -> Calls \cup {NoCall}]
  /\ rconn \in [Gens -> Gens]
  /\ rchan \in [Gens -> Gens]
  /\ \A g \in Gens : rpc[g] \in {"got", "push"} => rhold[g] \in Calls

(* There is a generation for the connection being installed.               *)
DialTypes == ConnField \in Gens

DrainTypes ==
  /\ rtodo \in [Gens -> SUBSET (Calls \X Attempts)]
  /\ iter \in SUBSET Gens

CloseTypes ==
  /\ closer \in {"idle", "stopped", "waiting", "returned"}
  /\ isStoped \in BOOLEAN
  /\ ctxDone \in BOOLEAN

PeerTypes ==
  /\ conn \in [Gens -> {"none", "up", "lost", "closed", "shut"}]
  /\ serving \in [Gens -> SUBSET (Calls \X Attempts)]
  /\ runs \in [Calls -> [Attempts -> Nat]]

TypeOK ==
  /\ CallerTypes /\ ReadyTypes /\ FieldTypes /\ WriteTypes /\ FrameTypes
  /\ ExitTypes /\ DialTypes /\ WTypes /\ RTypes /\ DrainTypes /\ CloseTypes
  /\ PeerTypes

Init ==
  /\ cpc = [c \in Calls |-> "idle"]
  /\ attempt = [c \in Calls |-> 0]
  /\ ctxSent = [c \in Calls |-> FALSE]
  /\ outcome = [c \in Calls |-> "none"]
  /\ ready = [c \in Calls |-> [a \in Attempts |-> "empty"]]
  /\ gen = 1
  /\ inflight = [c \in Calls |-> 0]
  /\ writeQ = [g \in Gens |-> <<>>]
  /\ frameQ = [g \in Gens |-> <<>>]
  /\ exitCh = [g \in Gens |-> FALSE]
  /\ bretry = [g \in Gens |-> ~NoReconnect]
  /\ wpc = [g \in Gens |-> IF g = 1 THEN "top" ELSE "none"]
  /\ whold = [g \in Gens |-> NoMsg]
  /\ wchan = [g \in Gens |-> g]
  /\ wframe = [g \in Gens |-> g]
  /\ rpc = [g \in Gens |-> IF g = 1 THEN "top" ELSE "none"]
  /\ rhold = [g \in Gens |-> NoCall]
  /\ rconn = [g \in Gens |-> g]
  /\ rchan = [g \in Gens |-> g]
  /\ rtodo = [g \in Gens |-> {}]
  /\ iter = {}
  /\ dialer = "off"
  /\ exiting = 0
  /\ closer = "idle"
  /\ isStoped = FALSE
  /\ ctxDone = FALSE
  /\ conn = [g \in Gens |-> IF g = 1 THEN "up" ELSE "none"]
  /\ serving = [g \in Gens |-> {}]
  /\ runs = [c \in Calls |-> [a \in Attempts |-> 0]]

-----------------------------------------------------------------------------
(* Callers: handleRpcCall, sendRequest, doRequest                          *)

(* The program calls a method: doRequest starts offering the request.      *)
Call(c) ==
  /\ cpc[c] = "idle"
  /\ cpc' = [cpc EXCEPT ![c] = "sending"]
  /\ attempt' = [attempt EXCEPT ![c] = 1]
  /\ UNCHANGED <<ctxSent, outcome, ready, fieldVars, writeQ, frameQ, exitVars,
                 wVars, rVars, drainVars, closeVars, peerVars>>

(* Mutant: the empty response is returned without an error.                *)
CallExiting_NilError(c) ==
  /\ cpc[c] = "sending"
  /\ exiting > 0
  /\ cpc' = [cpc EXCEPT ![c] = "done"]
  /\ outcome' = [outcome EXCEPT ![c] = "reply"]
  /\ UNCHANGED <<attempt, ctxSent, ready, fieldVars, writeQ, frameQ, exitVars,
                 wVars, rVars, drainVars, closeVars, peerVars>>

(* exiting is closed before any W took the request: an error is returned.  *)
CallExiting(c) ==
  /\ cpc[c] = "sending"
  /\ exiting > 0
  /\ cpc' = [cpc EXCEPT ![c] = "done"]
  /\ outcome' = [outcome EXCEPT ![c] = "exiting"]
  /\ UNCHANGED <<attempt, ctxSent, ready, fieldVars, writeQ, frameQ, exitVars,
                 wVars, rVars, drainVars, closeVars, peerVars>>

(* Mutant: a call whose context is done returns at once.                   *)
CallCtxDone_Returns(c) ==
  /\ c \in CtxCalls
  /\ cpc[c] = "waiting"
  /\ cpc' = [cpc EXCEPT ![c] = "done"]
  /\ UNCHANGED <<attempt, ctxSent, outcome, ready, fieldVars, writeQ, frameQ, exitVars,
                 wVars, rVars, drainVars, closeVars, peerVars>>

(* The context of the call is done: doRequest offers a cancel request, and *)
(* until somebody takes it does not look at ready.                         *)
CallCtxDone(c) ==
  /\ c \in CtxCalls
  /\ cpc[c] = "waiting"
  /\ ~ctxSent[c]
  /\ cpc' = [cpc EXCEPT ![c] = "cancelling"]
  /\ ctxSent' = [ctxSent EXCEPT ![c] = TRUE]
  /\ UNCHANGED <<attempt, outcome, ready, fieldVars, writeQ, frameQ, exitVars,
                 wVars, rVars, drainVars, closeVars, peerVars>>

CancelExiting(c) ==
  /\ cpc[c] = "cancelling"
  /\ exiting > 0
  /\ cpc' = [cpc EXCEPT ![c] = "waiting"]
  /\ UNCHANGED <<attempt, ctxSent, outcome, ready, fieldVars, writeQ, frameQ, exitVars,
                 wVars, rVars, drainVars, closeVars, peerVars>>

ShouldRetry(c, answer) == answer = "closed" /\ c \in RetryCalls

(* The answer arrives.  Error code 2 is retried if the method says so.     *)
Receive(c) ==
  LET answer == ready[c][attempt[c]] IN
  /\ cpc[c] = "waiting"
  /\ answer # "empty"
  /\ ready' = [ready EXCEPT ![c][attempt[c]] = "empty"]
  /\ \/ /\ ShouldRetry(c, answer)
        /\ cpc' = [cpc EXCEPT ![c] = "sleeping"]
        /\ UNCHANGED outcome
     \/ /\ ~ShouldRetry(c, answer)
        /\ cpc' = [cpc EXCEPT ![c] = "done"]
        /\ outcome' = [outcome EXCEPT ![c] = answer]
  /\ UNCHANGED <<attempt, ctxSent, fieldVars, writeQ, frameQ, exitVars,
                 wVars, rVars, drainVars, closeVars, peerVars>>

(* After the backoff: the same id, a fresh ready channel.                  *)
Retry(c) ==
  /\ cpc[c] = "sleeping"
  /\ attempt[c] < MaxAttempts
  /\ cpc' = [cpc EXCEPT ![c] = "sending"]
  /\ attempt' = [attempt EXCEPT ![c] = @ + 1]
  /\ ctxSent' = [ctxSent EXCEPT ![c] = FALSE]
  /\ UNCHANGED <<outcome, ready, fieldVars, writeQ, frameQ, exitVars,
                 wVars, rVars, drainVars, closeVars, peerVars>>

-----------------------------------------------------------------------------
(* exitfun and the goroutine it starts to redial                           *)

(* Mutant: exitfun is run without the once.                                *)
ExitFun_NoOnce(g, retry) ==
  /\ exitCh' = [exitCh EXCEPT ![g] = TRUE]
  /\ dialer' = IF retry THEN "check" ELSE dialer
  /\ exiting' = IF retry THEN exiting ELSE exiting + 1

(* once.Do(exitfun): close exitCh, then redial or close exiting.           *)
ExitFun(g, retry) ==
  /\ exitCh' = [exitCh EXCEPT ![g] = TRUE]
  /\ \/ /\ exitCh[g]
        /\ UNCHANGED <<dialer, exiting>>
     \/ /\ ~exitCh[g]
        /\ retry
        /\ dialer' = "check"
        /\ UNCHANGED exiting
     \/ /\ ~exitCh[g]
        /\ ~retry
        /\ exiting' = exiting + 1
        /\ UNCHANGED dialer

(* Mutant: exiting is closed but the loop goes on.                         *)
DialCheck_NoBreak ==
  /\ dialer = "check"
  /\ dialer' = "dialing"
  /\ exiting' = IF isStoped THEN exiting + 1 ELSE exiting
  /\ UNCHANGED <<callerVars, ready, fieldVars, writeQ, frameQ, exitCh, bretry,
                 wVars, rVars, drainVars, closeVars, peerVars>>

(* Mutant: the loop does not look at isStoped.                             *)
DialCheck_Forever ==
  /\ dialer = "check"
  /\ dialer' = "dialing"
  /\ UNCHANGED <<callerVars, ready, fieldVars, writeQ, frameQ, exitCh, bretry,
                 exiting, wVars, rVars, drainVars, closeVars, peerVars>>

(* Head of the redial loop: give up once the client is closed, else sleep. *)
DialCheck ==
  /\ dialer = "check"
  /\ \/ /\ isStoped
        /\ dialer' = "off"
        /\ exiting' = exiting + 1
     \/ /\ ~isStoped
        /\ dialer' = "dialing"
        /\ UNCHANGED exiting
  /\ UNCHANGED <<callerVars, ready, fieldVars, writeQ, frameQ, exitCh, bretry,
                 wVars, rVars, drainVars, closeVars, peerVars>>

DialFail ==
  /\ dialer = "dialing"
  /\ dialer' = "check"
  /\ UNCHANGED <<callerVars, ready, fieldVars, writeQ, frameQ, exitCh, bretry,
                 exiting, wVars, rVars, drainVars, closeVars, peerVars>>

WSettled(g) ==
  \/ wpc[g] = "exit"
  \/ wpc[g] = "put" /\ Len(writeQ[wchan[g]]) >= WriteCap
  \/ wpc[g] = "deliver" /\ ready[whold[g].call][whold[g].att] # "empty"

RSettled(g) ==
  \/ rpc[g] = "exit"
  \/ rpc[g] = "push" /\ Len(frameQ[rchan[g]]) >= FrameCap
  \/ rpc[g] = "drain" /\ rtodo[g] # {} /\ \A e \in rtodo[g] : ready[e[1]][e[2]] # "empty"

(* Nothing is left that goroutines of the older generations, or a caller   *)
(* with an answer, could do without somebody else.                         *)
Settled ==
  /\ \A g \in 1 .. gen : WSettled(g) /\ RSettled(g)
  /\ \A c \in Calls : cpc[c] = "waiting" => ready[c][attempt[c]] = "empty"

(* A new connection: the redialer assigns the field conn, then runs        *)
(* handleWsConn, which begins with the other fields.                       *)
DialOk ==
  /\ dialer = "dialing"
  /\ gen < MaxGen
  /\ SleepSettles => Settled
  /\ dialer' = "conn"
  /\ conn' = [conn EXCEPT ![gen + 1] = "up"]
  /\ UNCHANGED <<callerVars, ready, fieldVars, writeQ, frameQ, exitCh, bretry, exiting,
                 wVars, rVars, drainVars, closeVars, serving, runs>>

NewInflight ==
  /\ dialer = "conn"
  /\ dialer' = "inflight"
  /\ inflight' = [c \in Calls |-> 0]
  /\ iter' = {}
  /\ UNCHANGED <<callerVars, ready, gen, writeQ, frameQ, exitCh, bretry, exiting, wVars,
                 rVars, rtodo, closeVars, peerVars>>

NewWriteChan ==
  /\ dialer = "inflight"
  /\ dialer' = "writeChan"
  /\ UNCHANGED <<callerVars, ready, fieldVars, writeQ, frameQ, exitCh, bretry, exiting,
                 wVars, rVars, drainVars, closeVars, peerVars>>

(* frameChan is the last field; then W and R of the connection start.      *)
NewGeneration ==
  /\ dialer = "writeChan"
  /\ dialer' = "off"
  /\ gen' = gen + 1
  /\ wpc' = [wpc EXCEPT ![gen + 1] = "top"]
  /\ rpc' = [rpc EXCEPT ![gen + 1] = "top"]
  /\ UNCHANGED <<callerVars, ready, inflight, writeQ, frameQ, exitCh, bretry, exiting,
                 whold, wchan, wframe, rhold, rconn, rchan, drainVars, closeVars,
                 peerVars>>

-----------------------------------------------------------------------------
(* W: the goroutine that owns the select                                   *)

(* W comes to its select: the operands c.writeChan and c.frameChan are     *)
(* evaluated, and stay what they were while it waits.  One step does: a    *)
(* select takes one case, so it does not matter whether the channel of     *)
(* another case was replaced in between.                                   *)
WTop(g) ==
  /\ wpc[g] = "top"
  /\ wpc' = [wpc EXCEPT ![g] = "select"]
  /\ wchan' = [wchan EXCEPT ![g] = WriteField]
  /\ wframe' = [wframe EXCEPT ![g] = gen]
  /\ UNCHANGED <<callerVars, ready, fieldVars, writeQ, frameQ, exitVars, whold, rVars,
                 drainVars, closeVars, peerVars>>

(* A case of the select is taken: W goes on at pc, holding m.              *)
Selected(g, pc, m) ==
  /\ wpc[g] = "select"
  /\ wpc' = [wpc EXCEPT ![g] = pc]
  /\ whold' = [whold EXCEPT ![g] = m]
  /\ wchan' = [wchan EXCEPT ![g] = g]
  /\ wframe' = [wframe EXCEPT ![g] = g]

(* A caller's request, which has an id ...                                 *)
WTakeCall(g, c) ==
  /\ cpc[c] = "sending"
  /\ Selected(g, "register", [kind |-> "call", call |-> c, att |-> attempt[c]])
  /\ cpc' = [cpc EXCEPT ![c] = "waiting"]
  /\ UNCHANGED <<attempt, ctxSent, outcome, ready, fieldVars, writeQ, frameQ, exitVars,
                 rVars, drainVars, closeVars, peerVars>>

(* ... or a caller's cancel request, which has none.                       *)
WTakeCancel(g, c) ==
  /\ cpc[c] = "cancelling"
  /\ Selected(g, "address", [kind |-> "cancel", call |-> c, att |-> attempt[c]])
  /\ cpc' = [cpc EXCEPT ![c] = "waiting"]
  /\ UNCHANGED <<attempt, ctxSent, outcome, ready, fieldVars, writeQ, frameQ, exitVars,
                 rVars, drainVars, closeVars, peerVars>>

(* What is left of a range over the in-flight map once W has set the entry *)
(* of c to attempt a: a new key is produced or not, as the runtime likes.  *)
RangeAfterInsert(todo, c, a, produced) ==
  LET others == {e \in todo : e[1] # c}
      still == IF inflight[c] = 0 THEN produced ELSE todo # others
  IN IF still THEN others \cup {<<c, a>>} ELSE others

(* The request is put into the map the field inflight holds by now.        *)
WRegister(g) ==
  LET c == whold[g].call
      a == whold[g].att IN
  /\ wpc[g] = "register"
  /\ inflight' = [inflight EXCEPT ![c] = a]
  /\ \E producing \in SUBSET iter :
       rtodo' = [h \in Gens |->
                  IF h \in iter THEN RangeAfterInsert(rtodo[h], c, a, h \in producing)
                                ELSE rtodo[h]]
  /\ wpc' = [wpc EXCEPT ![g] = "address"]
  /\ UNCHANGED <<callerVars, ready, gen, writeQ, frameQ, exitVars, whold, wchan, wframe,
                 rVars, iter, closeVars, peerVars>>

(* c.writeChan is evaluated for the send.                                  *)
WAddress(g) ==
  /\ wpc[g] = "address"
  /\ wpc' = [wpc EXCEPT ![g] = "put"]
  /\ wchan' = [wchan EXCEPT ![g] = WriteField]
  /\ UNCHANGED <<callerVars, ready, fieldVars, writeQ, frameQ, exitVars, whold, wframe,
                 rVars, drainVars, closeVars, peerVars>>

(* Mutant: writeChan never fills.                                          *)
WPut_NoLimit(g) ==
  /\ wpc[g] = "put"
  /\ writeQ' = [writeQ EXCEPT ![wchan[g]] = Append(@, whold[g])]
  /\ wpc' = [wpc EXCEPT ![g] = "top"]
  /\ whold' = [whold EXCEPT ![g] = NoMsg]
  /\ wchan' = [wchan EXCEPT ![g] = g]
  /\ UNCHANGED <<callerVars, ready, fieldVars, frameQ, exitVars, wframe, rVars,
                 drainVars, closeVars, peerVars>>

(* Nobody but W receives from writeChan: when it is full, W waits forever. *)
WPut(g) ==
  /\ wpc[g] = "put"
  /\ Len(writeQ[wchan[g]]) < WriteCap
  /\ writeQ' = [writeQ EXCEPT ![wchan[g]] = Append(@, whold[g])]
  /\ wpc' = [wpc EXCEPT ![g] = "top"]
  /\ whold' = [whold EXCEPT ![g] = NoMsg]
  /\ wchan' = [wchan EXCEPT ![g] = g]
  /\ UNCHANGED <<callerVars, ready, fieldVars, frameQ, exitVars, wframe, rVars,
                 drainVars, closeVars, peerVars>>

(* Mutant: the message is taken but left in the queue.                     *)
WTakeWrite_Peek(g) ==
  /\ writeQ[wchan[g]] # <<>>
  /\ Selected(g, "write", Head(writeQ[wchan[g]]))
  /\ UNCHANGED <<callerVars, ready, fieldVars, writeQ, frameQ, exitVars, rVars,
                 drainVars, closeVars, peerVars>>

(* A message is taken from the writeChan the select looks at.              *)
WTakeWrite(g) ==
  /\ writeQ[wchan[g]] # <<>>
  /\ Selected(g, "write", Head(writeQ[wchan[g]]))
  /\ writeQ' = [writeQ EXCEPT ![wchan[g]] = Tail(@)]
  /\ UNCHANGED <<callerVars, ready, fieldVars, frameQ, exitVars, rVars, drainVars,
                 closeVars, peerVars>>

(* It is written to the connection the field holds by now, and the remote  *)
(* runs a request it receives.  When the connection has ended at the other *)
(* side the bytes may still go nowhere.                                    *)
WWrite(g) ==
  LET m == whold[g] IN
  /\ wpc[g] = "write"
  /\ conn[ConnField] \in {"up", "lost", "closed"}
  /\ \/ /\ conn[ConnField] = "up"
        /\ m.kind = "call"
        /\ serving' = [serving EXCEPT ![ConnField] = @ \cup {<<m.call, m.att>>}]
        /\ runs' = [runs EXCEPT ![m.call][m.att] = @ + 1]
     \/ /\ conn[ConnField] # "up" \/ m.kind = "cancel"
        /\ UNCHANGED <<serving, runs>>
  /\ wpc' = [wpc EXCEPT ![g] = "top"]
  /\ whold' = [whold EXCEPT ![g] = NoMsg]
  /\ UNCHANGED <<callerVars, ready, fieldVars, writeQ, frameQ, exitVars, wchan, wframe,
                 rVars, drainVars, closeVars, conn>>

(* W returns.                                                              *)
WReturns(g) ==
  /\ wpc' = [wpc EXCEPT ![g] = "exit"]
  /\ whold' = [whold EXCEPT ![g] = NoMsg]
  /\ wchan' = [wchan EXCEPT ![g] = g]
  /\ wframe' = [wframe EXCEPT ![g] = g]

(* The write of a message, or of a ping taken by the select, fails.        *)
WWriteErr(g) ==
  /\ wpc[g] \in {"write", "select"}
  /\ conn[ConnField] # "up"
  /\ ExitFun(g, bretry[g])
  /\ WReturns(g)
  /\ UNCHANGED <<callerVars, ready, fieldVars, writeQ, frameQ, bretry, rVars, drainVars,
                 closeVars, peerVars>>

(* A response is taken from the frameChan the select looks at ...          *)
WTakeFrame(g) ==
  LET id == Head(frameQ[wframe[g]]) IN
  /\ frameQ[wframe[g]] # <<>>
  /\ Selected(g, "lookup", [kind |-> "response", call |-> id, att |-> 0])
  /\ frameQ' = [frameQ EXCEPT ![wframe[g]] = Tail(@)]
  /\ UNCHANGED <<callerVars, ready, fieldVars, writeQ, exitVars, rVars, drainVars,
                 closeVars, peerVars>>

(* ... and its id looked up: one that is not in flight is dropped.         *)
WLookup(g) ==
  LET id == whold[g].call IN
  /\ wpc[g] = "lookup"
  /\ \/ /\ inflight[id] = 0
        /\ wpc' = [wpc EXCEPT ![g] = "top"]
        /\ whold' = [whold EXCEPT ![g] = NoMsg]
     \/ /\ inflight[id] # 0
        /\ wpc' = [wpc EXCEPT ![g] = "deliver"]
        /\ whold' = [whold EXCEPT
                       ![g] = [kind |-> "call", call |-> id, att |-> inflight[id]]]
  /\ UNCHANGED <<callerVars, ready, fieldVars, writeQ, frameQ, exitVars, wchan, wframe,
                 rVars, drainVars, closeVars, peerVars>>

WDeliver(g) ==
  LET req == whold[g] IN
  /\ wpc[g] = "deliver"
  /\ ready[req.call][req.att] = "empty"
  /\ ready' = [ready EXCEPT ![req.call][req.att] = "reply"]
  /\ wpc' = [wpc EXCEPT ![g] = "delete"]
  /\ UNCHANGED <<callerVars, fieldVars, writeQ, frameQ, exitVars, whold, wchan, wframe,
                 rVars, drainVars, closeVars, peerVars>>

(* delete(c.inflight, id): whatever attempt the entry belongs to by now.   *)
WDelete(g) ==
  LET c == whold[g].call IN
  /\ wpc[g] = "delete"
  /\ inflight' = [inflight EXCEPT ![c] = 0]
  /\ rtodo' = [h \in Gens |-> IF h \in iter THEN {e \in rtodo[h] : e[1] # c}
                                           ELSE rtodo[h]]
  /\ wpc' = [wpc EXCEPT ![g] = "top"]
  /\ whold' = [whold EXCEPT ![g] = NoMsg]
  /\ UNCHANGED <<callerVars, ready, gen, writeQ, frameQ, exitVars, wchan, wframe, rVars,
                 iter, closeVars, peerVars>>

(* <-exitCh or <-ctx.Done(): W leaves without running exitfun.             *)
WExit(g) ==
  /\ wpc[g] = "select"
  /\ exitCh[g] \/ ctxDone
  /\ WReturns(g)
  /\ UNCHANGED <<callerVars, ready, fieldVars, writeQ, frameQ, exitVars, rVars,
                 drainVars, closeVars, peerVars>>

(* <-c.stop: send a close frame, which the remote answers with another.    *)
WStop(g) ==
  /\ wpc[g] = "select"
  /\ closer # "idle"
  /\ conn' = [conn EXCEPT ![ConnField] = IF @ = "up" THEN "closed" ELSE @]
  /\ bretry' = [bretry EXCEPT ![g] = FALSE]
  /\ ExitFun(g, FALSE)
  /\ WReturns(g)
  /\ UNCHANGED <<callerVars, ready, fieldVars, writeQ, frameQ, rVars, drainVars,
                 closeVars, serving, runs>>

-----------------------------------------------------------------------------
(* R: the reading loop of handleWsConn and its deferred calls              *)

(* Mutant: closeInFlight is not deferred.                                  *)
StartDrain_NoAnswers(g) ==
  /\ rpc' = [rpc EXCEPT ![g] = "drain"]
  /\ conn' = [conn EXCEPT ![g] = "shut"]
  /\ serving' = [serving EXCEPT ![g] = {}]
  /\ UNCHANGED <<rtodo, iter>>

(* return from handleWsConn: close the connection (answers not read by now *)
(* are lost), then range over the map the field holds at that moment.      *)
StartDrain(g) ==
  /\ rpc' = [rpc EXCEPT ![g] = "drain"]
  /\ conn' = [conn EXCEPT ![g] = "shut"]
  /\ serving' = [serving EXCEPT ![g] = {}]
  /\ rtodo' = [rtodo EXCEPT ![g] = {<<c, inflight[c]>> : c \in {d \in Calls : inflight[d] # 0}}]
  /\ iter' = iter \cup {g}

(* Mutant: the loop looks at the context only.                             *)
RLeave_CtxOnly(g) ==
  /\ rpc[g] = "return" \/ (rpc[g] = "top" /\ ctxDone)
  /\ StartDrain(g)
  /\ UNCHANGED <<callerVars, ready, fieldVars, writeQ, frameQ, exitVars, wVars, rhold,
                 rconn, rchan, closeVars, runs>>

(* The loop is left after a failed read, or at its head when somebody else *)
(* ran exitfun or the context is done.                                     *)
RLeave(g) ==
  /\ \/ rpc[g] = "return"
     \/ rpc[g] = "top" /\ (exitCh[g] \/ ctxDone)
  /\ StartDrain(g)
  /\ UNCHANGED <<callerVars, ready, fieldVars, writeQ, frameQ, exitVars, wVars, rhold,
                 rconn, rchan, closeVars, runs>>

RTop(g) ==
  /\ rpc[g] = "top"
  /\ ~exitCh[g]
  /\ ~ctxDone
  /\ rpc' = [rpc EXCEPT ![g] = "begin"]
  /\ UNCHANGED <<callerVars, ready, fieldVars, writeQ, frameQ, exitVars, wVars, rhold,
                 rconn, rchan, drainVars, closeVars, peerVars>>

(* c.conn is evaluated for the read.                                       *)
RBegin(g) ==
  /\ rpc[g] = "begin"
  /\ rpc' = [rpc EXCEPT ![g] = "read"]
  /\ rconn' = [rconn EXCEPT ![g] = ConnField]
  /\ UNCHANGED <<callerVars, ready, fieldVars, writeQ, frameQ, exitVars, wVars, rhold,
                 rchan, drainVars, closeVars, peerVars>>

(* An answer of the remote is read.                                        *)
RRead(g, c) ==
  /\ rpc[g] = "read"
  /\ \E a \in Attempts :
       /\ <<c, a>> \in serving[rconn[g]]
       /\ serving' = [serving EXCEPT ![rconn[g]] = @ \ {<<c, a>>}]
  /\ rpc' = [rpc EXCEPT ![g] = "got"]
  /\ rhold' = [rhold EXCEPT ![g] = c]
  /\ rconn' = [rconn EXCEPT ![g] = g]
  /\ UNCHANGED <<callerVars, ready, fieldVars, writeQ, frameQ, exitVars, wVars, rchan,
                 drainVars, closeVars, conn, runs>>

(* c.frameChan is evaluated for the send.                                  *)
RAddress(g) ==
  /\ rpc[g] = "got"
  /\ rpc' = [rpc EXCEPT ![g] = "push"]
  /\ rchan' = [rchan EXCEPT ![g] = gen]
  /\ UNCHANGED <<callerVars, ready, fieldVars, writeQ, frameQ, exitVars, wVars, rhold,
                 rconn, drainVars, closeVars, peerVars>>

RPush(g) ==
  /\ rpc[g] = "push"
  /\ Len(frameQ[rchan[g]]) < FrameCap
  /\ frameQ' = [frameQ EXCEPT ![rchan[g]] = Append(@, rhold[g])]
  /\ rpc' = [rpc EXCEPT ![g] = "top"]
  /\ rhold' = [rhold EXCEPT ![g] = NoCall]
  /\ rchan' = [rchan EXCEPT ![g] = g]
  /\ UNCHANGED <<callerVars, ready, fieldVars, writeQ, exitVars, wVars, rconn,
                 drainVars, closeVars, peerVars>>

(* The read fails, at the latest when the read deadline has passed; after  *)
(* a normal closure there is no redial.                                    *)
RReadErr(g) ==
  LET normal == conn[rconn[g]] = "closed" IN
  /\ rpc[g] = "read"
  /\ conn[rconn[g]] # "up"
  /\ bretry' = [bretry EXCEPT ![g] = @ /\ ~normal]
  /\ ExitFun(g, bretry'[g])
  /\ rpc' = [rpc EXCEPT ![g] = "return"]
  /\ rconn' = [rconn EXCEPT ![g] = g]
  /\ UNCHANGED <<callerVars, ready, fieldVars, writeQ, frameQ, wVars, rhold, rchan,
                 drainVars, closeVars, peerVars>>

(* closeInFlight answers one attempt with error code 2.                    *)
RDrain(g, e) ==
  /\ rpc[g] = "drain"
  /\ e \in rtodo[g]
  /\ ready[e[1]][e[2]] = "empty"
  /\ ready' = [ready EXCEPT ![e[1]][e[2]] = "closed"]
  /\ rtodo' = [rtodo EXCEPT ![g] = @ \ {e}]
  /\ UNCHANGED <<callerVars, fieldVars, writeQ, frameQ, exitVars, wVars, rVars, iter,
                 closeVars, peerVars>>

(* ... and then replaces the map in the field.                             *)
REnd(g) ==
  /\ rpc[g] = "drain"
  /\ rtodo[g] = {}
  /\ inflight' = [c \in Calls |-> 0]
  /\ iter' = {}
  /\ rpc' = [rpc EXCEPT ![g] = "exit"]
  /\ UNCHANGED <<callerVars, ready, gen, writeQ, frameQ, exitVars, wVars, rhold, rconn,
                 rchan, rtodo, closeVars, peerVars>>

-----------------------------------------------------------------------------
(* ClientCloser, and what happens around the client                        *)

CloseStop ==
  /\ closer = "idle"
  /\ closer' = "stopped"
  /\ UNCHANGED <<callerVars, ready, fieldVars, writeQ, frameQ, exitVars, wVars, rVars,
                 drainVars, isStoped, ctxDone, peerVars>>

CloseFlag ==
  /\ closer = "stopped"
  /\ closer' = "waiting"
  /\ isStoped' = TRUE
  /\ UNCHANGED <<callerVars, ready, fieldVars, writeQ, frameQ, exitVars, wVars, rVars,
                 drainVars, ctxDone, peerVars>>

CloseReturn ==
  /\ closer = "waiting"
  /\ exiting > 0
  /\ closer' = "returned"
  /\ UNCHANGED <<callerVars, ready, fieldVars, writeQ, frameQ, exitVars, wVars, rVars,
                 drainVars, isStoped, ctxDone, peerVars>>

CtxCancel ==
  /\ CtxCancellable
  /\ ~ctxDone
  /\ ctxDone' = TRUE
  /\ UNCHANGED <<callerVars, ready, fieldVars, writeQ, frameQ, exitVars, wVars, rVars,
                 drainVars, closer, isStoped, peerVars>>

(* The network drops the connection, or the remote closes it normally.     *)
ConnEnds(g, how) ==
  /\ conn[g] = "up"
  /\ conn' = [conn EXCEPT ![g] = how]
  /\ UNCHANGED <<callerVars, ready, fieldVars, writeQ, frameQ, exitVars, wVars, rVars,
                 drainVars, closeVars, serving, runs>>

-----------------------------------------------------------------------------
CallerStep(c) == CallExiting(c) \/ CancelExiting(c) \/ Receive(c) \/ Retry(c)

WStep(g) ==
  \/ WTop(g)
  \/ \E c \in Calls : WTakeCall(g, c) \/ WTakeCancel(g, c)
  \/ WRegister(g) \/ WAddress(g) \/ WPut(g)
  \/ WTakeWrite(g) \/ WWrite(g) \/ WWriteErr(g)
  \/ WTakeFrame(g) \/ WLookup(g) \/ WDeliver(g) \/ WDelete(g)

WLeaves(g) == WExit(g) \/ WStop(g)

RStep(g) ==
  \/ RLeave(g) \/ RTop(g) \/ RBegin(g) \/ RAddress(g) \/ RPush(g) \/ RReadErr(g)
  \/ \E e \in Calls \X Attempts : RDrain(g, e)
  \/ REnd(g)

DialStep ==
  \/ DialCheck \/ DialFail \/ DialOk
  \/ NewInflight \/ NewWriteChan \/ NewGeneration

CloseStep == CloseFlag \/ CloseReturn

Environment ==
  \/ \E c \in Calls : Call(c) \/ CallCtxDone(c)
  \/ \E g \in Gens : \E how \in {"lost", "closed"} : ConnEnds(g, how)
  \/ \E g \in Gens, c \in Calls : RRead(g, c)
  \/ CloseStop
  \/ CtxCancel

Next ==
  \/ \E c \in Calls : CallerStep(c)
  \/ \E g \in Gens : WStep(g) \/ WLeaves(g) \/ RStep(g)
  \/ DialStep
  \/ CloseStep
  \/ Environment

Spec == Init /\ [][Next]_vars

(* Goroutines that can run do run.  A select with several ready cases      *)
(* picks one at random, so W, which comes back to its select again and     *)
(* again, does not pass over a case that stays ready: strong fairness.     *)
(* Nothing is assumed of the program, of the remote or of the network.     *)
Fairness ==
  /\ \A c \in Calls : WF_vars(CallerStep(c))
  /\ \A g \in Gens : WF_vars(WStep(g)) /\ SF_vars(WLeaves(g)) /\ WF_vars(RStep(g))
  /\ WF_vars(DialStep)
  /\ WF_vars(CloseStep)

FairSpec == Spec /\ Fairness

-----------------------------------------------------------------------------
(* Safety                                                                  *)

(* The channel exiting is closed at most once: closing it twice would      *)
(* panic in exitfun (websocket.go:436-456), which W and R of every         *)
(* generation and the redialing goroutine can all reach.                   *)
ExitingClosedOnce == exiting <= 1

(* At most one goroutine is ever in charge of the client's future: the     *)
(* current generation, which has not run exitfun, or else the redialer, or *)
(* else nobody and exiting is closed; the generations before have all run  *)
(* exitfun (websocket.go:436-456).                                         *)
OneOwner ==
  /\ \A g \in 1 .. gen - 1 : exitCh[g]
  /\ \/ ~exitCh[gen] /\ dialer = "off" /\ exiting = 0
     \/ exitCh[gen] /\ dialer # "off" /\ exiting = 0
     \/ exitCh[gen] /\ dialer = "off" /\ exiting = 1

(* Closing exiting is final: no goroutine of the client connects again,    *)
(* though a redial may be under way when the ClientCloser sets its flag    *)
(* (client.go:281-285, websocket.go:440-451).                              *)
NoConnectionAfterExiting == [][exiting > 0 => ConnField' = ConnField]_vars

(* No goroutine is left sending to the ready channel of an attempt whose   *)
(* caller no longer receives from it (websocket.go:306, 396): R and W      *)
(* would otherwise block for good, and R with requests left to answer.     *)
SendersHaveReceivers ==
  \A g \in Gens, c \in Calls, a \in Attempts :
    \/ ready[c][a] = "empty"
    \/ attempt[c] = a /\ cpc[c] \in {"waiting", "cancelling"}
    \/ /\ ~(wpc[g] = "deliver" /\ whold[g].call = c /\ whold[g].att = a)
       /\ <<c, a>> \notin rtodo[g]

(* Places a request waits in until it is written: writeChan of a           *)
(* connection, and the hands of a W: from its caller to writeChan, and     *)
(* from there to a connection, which may be a younger one by then.         *)
Queued(g, i, m) == i \in 1 .. Len(writeQ[g]) /\ writeQ[g][i] = m
Held(g, m) == wpc[g] \in {"register", "address", "put", "write"} /\ whold[g] = m

Requests == {m \in Msgs : m.kind = "call"}

(* No W took attempt a of c from its caller yet.                           *)
Untaken(c, a) ==
  \/ a > attempt[c]
  \/ a = attempt[c] /\ cpc[c] \in {"idle", "sending"}

(* An attempt is in one place at most while it waits to be written, and it *)
(* waits only after its caller handed it over and before the remote ran it *)
(* (websocket.go:493-505).                                                 *)
OnePlace ==
  \A m \in Requests :
    /\ \A g, h \in Gens, i, j \in 1 .. WriteCap :
         Queued(g, i, m) /\ Queued(h, j, m) => g = h /\ i = j
    /\ \A g, h \in Gens, i \in 1 .. WriteCap : ~(Queued(g, i, m) /\ Held(h, m))
    /\ \A g, h \in Gens : Held(g, m) /\ Held(h, m) => g = h
    /\ \A g \in Gens : Held(g, m) \/ (\E i \in 1 .. WriteCap : Queued(g, i, m)) =>
         ~Untaken(m.call, m.att) /\ runs[m.call][m.att] = 0
    /\ Untaken(m.call, m.att) => runs[m.call][m.att] = 0

(* What the program that called sees of c.                                 *)
Status(c) ==
  IF cpc[c] = "idle" THEN "idle"
  ELSE IF cpc[c] = "done" THEN outcome[c] ELSE "pending"

(* What the program that calls the methods relies on, whatever happens to  *)
(* connections and goroutines: the calls refine RpcCall.                   *)
Promise == INSTANCE RpcCall WITH
  status <- [c \in Calls |-> Status(c)],
  sent <- attempt

RefinesRpcCall == Promise!Spec

-----------------------------------------------------------------------------
(* Liveness                                                                *)

(* "on close, make sure to return from all pending calls": an attempt that *)
(* is in flight when its connection ends is answered (websocket.go:        *)
(* 394-414, 460-462), provided W registered it before exitfun ran.  It     *)
(* holds while frameChan has room: R does not come to its deferred         *)
(* closeInFlight when it waits to send to a W that has left                *)
(* (websocket.go:547).                                                     *)
Registered(c, a) == cpc[c] # "done" /\ attempt[c] = a /\ inflight[c] = a
Answered(c, a) == attempt[c] > a \/ cpc[c] \in {"sleeping", "done"}

PendingReturnsOnClose ==
  \A c \in Calls, a \in Attempts :
    (Registered(c, a) /\ ~exitCh[gen] /\ conn[gen] # "up") ~> Answered(c, a)

(* The comment taken at its word: whoever waits for an answer when the     *)
(* connection ends gets one (websocket.go:460-462).  It does not hold: W's *)
(* select may take a request after exitCh was closed and closeInFlight has *)
(* run; nobody answers that one (websocket.go:473-507).                    *)
AllPendingReturnOnClose ==
  \A c \in Calls, a \in Attempts :
    (cpc[c] = "waiting" /\ attempt[c] = a /\ conn[gen] # "up") ~> Answered(c, a)

(* The ClientCloser returns (client.go:281-285), if writeChan has room for *)
(* what W puts there and the context given to NewClient is not cancelled,  *)
(* for then W leaves without exitfun (websocket.go:474, 505).              *)
CloserReturns == closer = "stopped" ~> closer = "returned"

(* Once exitfun has run, R comes out of handleWsConn and its cleanup.      *)
ReaderLeaves == \A g \in Gens : exitCh[g] ~> rpc[g] = "exit"

==============================================================================
