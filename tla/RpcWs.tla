------------------------------- MODULE RpcWs -------------------------------
(***************************************************************************)
(* A websocket connection between an RPCWSClient and an RPCWServer         *)
(* (rockfmw/rpc_ws_server.go, rpc_ws_client.go, rpc_abstract.go,           *)
(* ws_conn.go): opening it, the read loop of each end, the methods an end  *)
(* handles specially, the ones it looks up in its services, and closing.   *)
(*                                                                         *)
(* Either end sends requests (Send) and takes every message it reads for a *)
(* request, the response to its own request included: a response has no    *)
(* method, so it is for the special handler of the empty name, or it is    *)
(* answered with an error.                                                 *)
(*                                                                         *)
(* Abstracted: JSON; the mutex of WsConn, under which a message is written *)
(* as one step; mu, which guards one step each.  A socket that is closed   *)
(* may still deliver what was received before.                             *)
(***************************************************************************)
EXTENDS RpcRegistry, FiniteSets, TLAPS

CONSTANTS
  Services,   \* Services[e]: the services registered at end e
  Special,    \* Special[e]: the names RegisterWsHandler was called with at e
  Failing,    \* Failing[e]: those whose handler may return an error
  Sends,      \* Sends[e]: the requests the program at e may send
  MaxSends    \* bound on the requests sent in all

Ends == {"server", "client"}
Other(e) == IF e = "server" THEN "client" ELSE "server"

NoMethodName == <<NoName>>   \* what the empty string splits into
Response == [json |-> TRUE, method |-> NoMethodName, params |-> "missing"]
Garbage == [json |-> FALSE, method |-> NoMethodName, params |-> "missing"]

ASSUME RpcWsAssumption ==
  /\ MaxSends \in Nat
  /\ \A e \in Ends : Failing[e] \subseteq Special[e]

VARIABLES
  wire,     \* wire[e]: messages that are on their way to e
  sock,     \* sock[e]: the socket of e
  up,       \* is there a network between the two?
  loop,     \* loop[e]: where the goroutine of e is
  conns,    \* is the connection in the server's table conns?
  pending,  \* pending[e]: requests whose method has not called done
  sends,    \* requests sent so far
  fails,    \* fails[e]: how often OnMessage returned an error at e
  onClose   \* onClose[e]: how often OnClose was called at e

wsVars == <<wire, sock, up, loop, conns, pending, sends, fails, onClose>>

Messages == UNION {Sends[e] : e \in Ends} \cup {Response, Garbage}

TypeOK ==
  /\ \A e \in Ends : wire[e] \in Seq(Messages)
  /\ sock \in [Ends -> {"none", "open", "closed"}]
  /\ up \in BOOLEAN /\ conns \in BOOLEAN
  /\ loop \in [Ends -> {"none", "opening", "read", "over"}]
  /\ pending \in [Ends -> 0 .. MaxSends]
  /\ sends \in 0 .. MaxSends
  /\ fails \in [Ends -> Nat] /\ onClose \in [Ends -> Nat]

Init ==
  /\ wire = [e \in Ends |-> <<>>]
  /\ sock = [e \in Ends |-> "none"]
  /\ up = TRUE
  /\ loop = [e \in Ends |-> "none"]
  /\ conns = FALSE
  /\ pending = [e \in Ends |-> 0]
  /\ sends = 0
  /\ fails = [e \in Ends |-> 0] /\ onClose = [e \in Ends |-> 0]

-----------------------------------------------------------------------------
(* WriteMsg and WriteJSON at e: lost when the connection is.               *)
Deliver(e, m) ==
  IF sock[e] = "open" /\ sock[Other(e)] = "open" /\ up
    THEN [wire EXCEPT ![Other(e)] = Append(@, m)]
    ELSE wire

(* Run dials and websocketHandler upgrades; the client starts to read.     *)
Connect ==
  /\ loop["client"] = "none"
  /\ sock' = [e \in Ends |-> "open"]
  /\ loop' = [client |-> "read", server |-> "opening"]
  /\ UNCHANGED <<wire, up, conns, pending, sends, fails, onClose>>

(* OnOpen refuses the connection.                                          *)
OpenRefused ==
  /\ loop["server"] = "opening"
  /\ sock' = [sock EXCEPT !["server"] = "closed"]
  /\ loop' = [loop EXCEPT !["server"] = "over"]
  /\ UNCHANGED <<wire, up, conns, pending, sends, fails, onClose>>

(* It is put into the table, and then its goroutine is started.            *)
Opened ==
  /\ loop["server"] = "opening"
  /\ conns' = TRUE
  /\ loop' = [loop EXCEPT !["server"] = "read"]
  /\ UNCHANGED <<wire, sock, up, pending, sends, fails, onClose>>

(* The program at e sends a request; the server has a connection to send   *)
(* on from OnOpen on.                                                      *)
Send(e) ==
  /\ sock[e] = "open"
  /\ sends < MaxSends
  /\ \E m \in Sends[e] : wire' = Deliver(e, m)
  /\ sends' = sends + 1
  /\ UNCHANGED <<sock, up, loop, conns, pending, fails, onClose>>

(* The function f of the server's enableRead, and the client's ending of   *)
(* its loop; both close the socket first and call OnClose last.            *)
CloseEnd_Keep(e) ==      \* Mutant: the entry of the table is not deleted.
  /\ sock' = [sock EXCEPT ![e] = "closed"]
  /\ onClose' = [onClose EXCEPT ![e] = @ + 1]
  /\ UNCHANGED conns

CloseEnd(e) ==
  /\ sock' = [sock EXCEPT ![e] = "closed"]
  /\ conns' = (conns /\ e # "server")
  /\ onClose' = [onClose EXCEPT ![e] = @ + 1]

(* Which way OnMessage takes for m at e.                                   *)
Way_ServicesFirst(e, m) == \* Mutant: the special handlers are not asked first.
  CASE ~m.json -> "garbage"
    [] m.json /\ callError(Services[e], m) # "none" -> "error"
    [] OTHER -> IF m.method \in Special[e] THEN "special" ELSE "call"

Way(e, m) ==
  CASE ~m.json -> "garbage"
    [] m.json /\ m.method \in Special[e] -> "special"
    [] OTHER -> IF callError(Services[e], m) # "none" THEN "error" ELSE "call"

(* The special handler of m, when it returns an error.  The client leaves  *)
(* its loop; the server stays in it and reads the socket it has closed.    *)
SpecialFails_Stay(e) ==  \* Mutant: the client does not leave its loop either.
  /\ fails' = [fails EXCEPT ![e] = @ + 1]
  /\ CloseEnd(e)
  /\ UNCHANGED loop

SpecialFails(e) ==
  /\ fails' = [fails EXCEPT ![e] = @ + 1]
  /\ CloseEnd(e)
  /\ loop' = IF e = "client" THEN [loop EXCEPT ![e] = "over"] ELSE loop

(* OnMessage: what is not JSON is answered with the text of the error,     *)
(* which is not JSON either; an error of callRPC is answered at once.      *)
Read(e) ==
  /\ loop[e] = "read"
  /\ wire[e] # <<>>
  /\ LET m == Head(wire[e])
         rest == [wire EXCEPT ![e] = Tail(@)]
         answers(r) == wire' = [Deliver(e, r) EXCEPT ![e] = Tail(@)]
     IN \/ /\ Way(e, m) \in {"garbage", "error"}
           /\ answers(IF m.json THEN Response ELSE Garbage)
           /\ UNCHANGED <<sock, loop, conns, pending, fails, onClose>>
        \/ /\ Way(e, m) = "call"
           /\ pending' = [pending EXCEPT ![e] = @ + 1]
           /\ wire' = rest
           /\ UNCHANGED <<sock, loop, conns, fails, onClose>>
        \/ /\ Way(e, m) = "special"
           /\ wire' = rest
           /\ UNCHANGED <<sock, loop, conns, pending, fails, onClose>>
        \/ /\ Way(e, m) = "special" /\ m.method \in Failing[e]
           /\ wire' = rest
           /\ SpecialFails(e)
           /\ UNCHANGED pending
  /\ UNCHANGED <<up, sends>>

(* A method that was called calls done, in its goroutine or later.         *)
Done(e) ==
  /\ pending[e] > 0
  /\ pending' = [pending EXCEPT ![e] = @ - 1]
  /\ wire' = Deliver(e, Response)
  /\ UNCHANGED <<sock, up, loop, conns, sends, fails, onClose>>

(* ReadMessage fails: this end or the other closed, or the network broke.  *)
ReadFails_Leave(e) ==    \* Mutant: the loop is left without closing.
  /\ loop[e] = "read"
  /\ sock[e] = "closed" \/ sock[Other(e)] = "closed" \/ ~up
  /\ loop' = [loop EXCEPT ![e] = "over"]
  /\ UNCHANGED <<wire, sock, up, conns, pending, sends, fails, onClose>>

ReadFails(e) ==
  /\ loop[e] = "read"
  /\ sock[e] = "closed" \/ sock[Other(e)] = "closed" \/ ~up
  /\ CloseEnd(e)
  /\ loop' = [loop EXCEPT ![e] = "over"]
  /\ UNCHANGED <<wire, up, pending, sends, fails>>

NetworkBreaks ==
  /\ up /\ loop["client"] # "none"
  /\ up' = FALSE
  /\ UNCHANGED <<wire, sock, loop, conns, pending, sends, fails, onClose>>

Next ==
  \/ Connect \/ OpenRefused \/ Opened \/ NetworkBreaks
  \/ \E e \in Ends : Send(e) \/ Read(e) \/ Done(e) \/ ReadFails(e)

Spec == Init /\ [][Next]_wsVars

(* The goroutines read what there is and are told of a broken connection   *)
(* (with an aliveTime, or by the network); websocketHandler does not stop. *)
(* Nothing is assumed of the programs, not even that they call done.       *)
Fairness ==
  /\ WF_wsVars(OpenRefused \/ Opened)
  /\ \A e \in Ends : WF_wsVars(Read(e)) /\ WF_wsVars(ReadFails(e))

FairSpec == Spec /\ Fairness

-----------------------------------------------------------------------------
(* OnClose is called when the connection has ended and not before; at the  *)
(* client once, at the server once for the read that failed and once more  *)
(* for every special handler that did (rpc_ws_server.go:105-128,           *)
(* rpc_ws_client.go:48-62).                                                *)
CloseCount ==
  /\ onClose["client"] = (IF loop["client"] = "over" THEN 1 ELSE 0)
  /\ onClose["server"] <= fails["server"] + (IF loop["server"] = "over" THEN 1 ELSE 0)
  /\ \A e \in Ends : onClose[e] > 0 => sock[e] = "closed"

(* The table holds the connection from before its first message is read    *)
(* until before OnClose is called (rpc_ws_server.go:98-114).               *)
TableHoldsOpen ==
  conns <=> (loop["server"] = "read" /\ onClose["server"] = 0)

(* Whichever end closes, or if the network breaks, both loops end and the  *)
(* server forgets the connection (rpc_ws_server.go:105-128).               *)
BothEnd ==
  (~up \/ \E e \in Ends : sock[e] = "closed") ~> (~conns /\ \A e \in Ends : loop[e] = "over")

(* Responses are not answered for ever: if one end handles the empty name, *)
(* every exchange of responses ends there (rpc_abstract.go:170-204,        *)
(* rpc_map.go:131-137).  Without such a handler each is answered with      *)
(* "ill-formed", and so is that; a message that is not JSON always goes    *)
(* back and forth in this way.                                             *)
AnswersEnd ==
  (\E e \in Ends : NoMethodName \in Special[e]) =>
    <>[](\A e \in Ends : loop[e] = "read" => \A i \in DOMAIN wire[e] : wire[e][i] # Response)

-----------------------------------------------------------------------------
(* Proofs, for any services, special methods and requests.  CloseCount and *)
(* TableHoldsOpen are inductive once it is known that nothing has been     *)
(* closed at an end that has not started to read.                          *)

(* An end that does not read yet has not been closed, nor entered in the   *)
(* table, and the server is not there before the client has dialed.        *)
NotYet ==
  /\ loop["client"] = "none" => loop["server"] = "none"
  /\ \A e \in Ends : loop[e] \in {"none", "opening"} => onClose[e] = 0

Counters ==
  /\ onClose \in [Ends -> Nat] /\ fails \in [Ends -> Nat]
  /\ sock \in [Ends -> {"none", "open", "closed"}]
  /\ loop \in [Ends -> {"none", "opening", "read", "over"}]
  /\ conns \in BOOLEAN

CloseInv == Counters /\ NotYet /\ CloseCount /\ TableHoldsOpen

-----------------------------------------------------------------------------
LEMMA CloseInvInit == Init => CloseInv
<1> SUFFICES ASSUME Init PROVE CloseInv
  OBVIOUS
<1>1. \A e \in Ends : onClose[e] = 0 /\ loop[e] = "none"
  BY DEF Init
<1>2. /\ sock \in [Ends -> {"none", "open", "closed"}]
      /\ loop \in [Ends -> {"none", "opening", "read", "over"}]
      /\ onClose \in [Ends -> Nat] /\ fails \in [Ends -> Nat]
  BY DEF Init
<1>3. ~conns /\ conns \in BOOLEAN /\ loop["server"] = "none"
  BY <1>1, Zenon DEF Init, Ends
<1>4. Counters /\ NotYet
  BY <1>1, <1>2, <1>3, Zenon DEF Counters, NotYet
<1>5. fails["server"] \in Nat
  BY <1>2 DEF Ends
<1>6. CloseCount
  BY <1>1, <1>5 DEF CloseCount, Ends
<1>7. TableHoldsOpen
  BY <1>3 DEF TableHoldsOpen
<1> QED  BY <1>4, <1>6, <1>7 DEF CloseInv

(* A step that leaves sockets, loops, table and counters alone.            *)
LEMMA CloseInvStutter ==
  ASSUME CloseInv, UNCHANGED <<sock, loop, conns, fails, onClose>>
  PROVE  CloseInv'
  BY DEF CloseInv, Counters, NotYet, CloseCount, TableHoldsOpen

LEMMA ConnectKeeps ==
  ASSUME CloseInv, Connect \/ OpenRefused \/ Opened
  PROVE  CloseInv'
<1>1. CASE Connect
  BY <1>1 DEF Connect, CloseInv, Counters, NotYet, CloseCount, TableHoldsOpen, Ends
<1>2. CASE OpenRefused
  BY <1>2 DEF OpenRefused, CloseInv, Counters, NotYet, CloseCount, TableHoldsOpen, Ends
<1>3. CASE Opened
  BY <1>3 DEF Opened, CloseInv, Counters, NotYet, CloseCount, TableHoldsOpen, Ends
<1> QED  BY <1>1, <1>2, <1>3

(* CloseEnd at the server takes the connection out of the table, at the    *)
(* client it leaves the table alone.                                       *)
LEMMA CloseEndTable ==
  ASSUME NEW e \in Ends, conns \in BOOLEAN, CloseEnd(e)
  PROVE  /\ conns' \in BOOLEAN
         /\ e = "server" => ~conns'
         /\ e = "client" => (conns' <=> conns)
<1>1. conns' = (conns /\ e # "server")
  BY DEF CloseEnd
<1>2. conns' \in BOOLEAN
  BY <1>1, Zenon
<1>3. CASE e = "server"
  BY <1>1, <1>2, <1>3, Zenon
<1>4. CASE e = "client"
  <2>1. "client" # "server"
    OBVIOUS
  <2>2. conns' = (conns /\ TRUE)
    BY <1>1, <1>4, <2>1, Zenon
  <2> QED  BY <1>2, <1>4, <2>1, <2>2, Zenon
<1> QED  BY <1>2, <1>3, <1>4, Zenon DEF Ends

(* Closing an end: the socket, the table and the count, and the loop, left *)
(* unless it is the server's handler that failed (counted in fails).       *)
LEMMA CloseEndKeeps ==
  ASSUME CloseInv, NEW e \in Ends, loop[e] = "read", CloseEnd(e),
         \/ /\ loop' = [loop EXCEPT ![e] = "over"]
            /\ fails' = fails \/ fails' = [fails EXCEPT ![e] = @ + 1]
         \/ /\ e = "server" /\ loop' = loop
            /\ fails' = [fails EXCEPT ![e] = @ + 1]
  PROVE  CloseInv'
<1>1. /\ conns' \in BOOLEAN
      /\ e = "server" => ~conns'
      /\ e = "client" => (conns' <=> conns)
  BY CloseEndTable DEF CloseInv, Counters
<1>2. /\ sock' = [sock EXCEPT ![e] = "closed"]
      /\ onClose' = [onClose EXCEPT ![e] = @ + 1]
  BY DEF CloseEnd
<1>3. Counters'
  BY <1>1, <1>2 DEF CloseInv, Counters
<1>4. CASE e = "client"
  <2>1. /\ loop' = [loop EXCEPT !["client"] = "over"]
        /\ onClose' = [onClose EXCEPT !["client"] = @ + 1]
        /\ loop["client"] = "read"
    BY <1>2, <1>4
  <2>2. NotYet'
    BY <2>1 DEF CloseInv, Counters, NotYet, Ends
  <2>3. CloseCount'
    BY <1>2, <1>4, <2>1 DEF CloseInv, Counters, CloseCount, Ends
  <2>4. /\ loop'["server"] = loop["server"]
        /\ onClose'["server"] = onClose["server"]
    BY <2>1 DEF CloseInv, Counters, Ends
  <2>5. TableHoldsOpen'
    BY <1>1, <1>4, <2>4, Zenon DEF CloseInv, TableHoldsOpen
  <2> QED  BY <1>3, <2>2, <2>3, <2>5 DEF CloseInv
<1>5. CASE e = "server"
  <2>1. /\ onClose'["server"] = onClose["server"] + 1
        /\ onClose'["client"] = onClose["client"]
        /\ loop["server"] = "read" /\ loop'["client"] = loop["client"]
        /\ loop'["server"] \in {"read", "over"}
    BY <1>2, <1>5 DEF CloseInv, Counters, Ends
  <2>2. NotYet'
    BY <2>1 DEF CloseInv, Counters, NotYet, Ends
  <2>3. CloseCount'
    BY <1>2, <1>5, <2>1 DEF CloseInv, Counters, CloseCount, Ends
  <2>4. onClose'["server"] # 0
    BY <2>1 DEF CloseInv, Counters, Ends
  <2>5. TableHoldsOpen'
    BY <1>1, <1>5, <2>4, Zenon DEF TableHoldsOpen
  <2> QED  BY <1>3, <2>2, <2>3, <2>5 DEF CloseInv
<1> QED  BY <1>4, <1>5 DEF Ends

LEMMA ReadFailsKeeps ==
  ASSUME CloseInv, NEW e \in Ends, ReadFails(e)
  PROVE  CloseInv'
  BY CloseEndKeeps DEF ReadFails

LEMMA SpecialFailsKeeps ==
  ASSUME CloseInv, NEW e \in Ends, loop[e] = "read", SpecialFails(e)
  PROVE  CloseInv'
  BY CloseEndKeeps DEF SpecialFails, Ends

LEMMA ReadKeeps ==
  ASSUME CloseInv, NEW e \in Ends, Read(e)
  PROVE  CloseInv'
<1>1. loop[e] = "read"
  BY DEF Read
<1>2. \/ UNCHANGED <<sock, loop, conns, fails, onClose>>
      \/ SpecialFails(e)
  BY DEF Read
<1> QED  BY <1>1, <1>2, CloseInvStutter, SpecialFailsKeeps

LEMMA CloseInvStep == CloseInv /\ [Next]_wsVars => CloseInv'
<1> SUFFICES ASSUME CloseInv, [Next]_wsVars PROVE CloseInv'
  OBVIOUS
<1>1. CASE Connect \/ OpenRefused \/ Opened
  BY <1>1, ConnectKeeps
<1>2. CASE NetworkBreaks
  BY <1>2, CloseInvStutter DEF NetworkBreaks
<1>3. ASSUME NEW e \in Ends, Send(e) \/ Done(e) PROVE CloseInv'
  BY <1>3, CloseInvStutter DEF Send, Done
<1>4. ASSUME NEW e \in Ends, Read(e) PROVE CloseInv'
  BY <1>4, ReadKeeps
<1>5. ASSUME NEW e \in Ends, ReadFails(e) PROVE CloseInv'
  BY <1>5, ReadFailsKeeps
<1>6. CASE UNCHANGED wsVars
  BY <1>6, CloseInvStutter DEF wsVars
<1> QED  BY <1>1, <1>2, <1>3, <1>4, <1>5, <1>6 DEF Next

(* How often OnClose has run at each end, whatever the messages            *)
(* (rpc_ws_server.go:105-128, rpc_ws_client.go:48-62).                     *)
THEOREM CloseIsCounted == Spec => []CloseCount
<1>1. CloseInv => CloseCount
  BY DEF CloseInv
<1> QED  BY CloseInvInit, CloseInvStep, <1>1, PTL DEF Spec

(* The table holds the connection exactly while its loop runs and OnClose  *)
(* has not been called (rpc_ws_server.go:98-114).                          *)
THEOREM TableIsCurrent == Spec => []TableHoldsOpen
<1>1. CloseInv => TableHoldsOpen
  BY DEF CloseInv
<1> QED  BY CloseInvInit, CloseInvStep, <1>1, PTL DEF Spec

=============================================================================
