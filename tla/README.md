# TLA+ models of hggutils

`hggutils` is a Go library whose core is a JSON-RPC implementation
(`jsonrpc/`) that runs over HTTP or over one shared websocket connection, with
calls that can be retried, cancelled and answered by a channel. `rockfmw/`
builds a small service framework on the same ideas; the rest are helpers.

This directory holds TLA+ models of it, TLC configurations for small instances,
and proofs for TLAPS. Modelled are both ends of a websocket connection and the
streams over it, calls over HTTP with everything in front of a method, both
transports of `rockfmw`, the decoding of SQL rows, and the numeric helpers.

Paths and line numbers are relative to `src/`. `PROJECT.json` maps every
definition of a model to the lines it translates.

## 1. The system

### 1.1 Components

| Component | State it keeps | Operations | Module |
|---|---|---|---|
| Websocket client: callers (`jsonrpc/client.go`), `wsConn` (`jsonrpc/websocket.go`) | in-flight calls by id, `writeChan`, `frameChan`, per connection `exitCh`, `once`, `bretry`; for the client `exiting`, `stop`, `isStoped`, `requests` | a call, its retry and the cancellation of its context; sending, reading, answering; end of a connection, redial; `ClientCloser` | `WsClient` |
| Websocket server connection (same `wsConn`, `handler.go`) | `handling`: cancel functions of the calls being run; `writeChan`, `frameChan`, `exitCh` | `handleCall`, `cancelCtx`, the handler goroutines, `done`, `closeInFlight` | `WsServer` |
| Output channels (`websocket.go` 92-205, 252-304, 416-422, `client.go` 314-404) | server: `chanCtr`, `cases`, `caseToID`; client: `chanHandlers`, one buffer per stream | register, forward a value, close; hand out, buffer, receive; cleanup | `OutChans` |
| Registration and dispatch (`handler.go`, `server.go`, `util.go`) | table of methods and aliases | `register`, `AliasMethod`, `handle`, `rpcError`, the size limit of `handleReader` | `Dispatch` (operators) |
| HTTP transport (`client.go` 134-191, 433-562, `server.go`, `handler.go`) | none that lasts | one request and its response | `HttpCall` |
| Reader parameters (`httpio/reader.go`) | `readers`: channels by uuid, guarded by a mutex | push of a body, decoding of a parameter, read to the end, close | `ReaderParam` |
| Permissions (`auth/`) | permissions in a context | look at the token, call through the proxy | `Auth` (operators) |
| Backoff and options (`util.go`, `options.go`) | none | delay of the n-th retry | `Backoff` |
| `rockfmw` registry and HTTP (`rpc_map.go`, `rpc_abstract.go`, `rpc_http_client.go`, `rpc_json.go`) | `services`, guarded by a mutex | `register`, `get`, `callRPC`; `HTTPHandler`, `done`, `Call` | `RpcRegistry` (operators), `RpcHttp` |
| `rockfmw` websocket (`rpc_ws_server.go`, `rpc_ws_client.go`, `rpc_abstract.go`, `ws_conn.go`) | `conns`, guarded by a mutex; `mct` | open, read loop of each end, `OnMessage`, `Send`, close | `RpcWs` |
| `sql_unmarshal.go` | scan buffer shared by the rows | rows to maps, maps to structs | `SqlRows` |
| Conversions, copying (`to_float.go`, `to_string.go`, `str_conv.go`, `copy.go`) | none | pure functions of one value | `ToNumber`, the rest not modelled |
| Metrics | counters nobody in the program reads | | not modelled |

### 1.2 How they interact

A generated method puts a request on the unbuffered channel `requests` and
waits on the channel `ready` of that attempt (`doRequest`). Two goroutines serve
a connection:

* **W**, the sender (websocket.go 467-518), owns the select over `requests`,
  `writeChan`, `keepAliveChan`, `frameChan`, `stop`, `exitCh` and the context.
  It registers requests in `inflight`, writes, and also handles what was read.
* **R**, the body of `handleWsConn` (520-550), reads the connection into
  `frameChan`. When it leaves, its deferred calls close the connection, the
  streams (`closeChans`) and the pending calls (`closeInFlight`).

Whoever first sees the connection end runs `exitfun` (434-456): it closes
`exitCh` and either starts a goroutine that redials and then runs
`handleWsConn` again, *on the same `wsConn`*, or closes `exiting`. The fields
`inflight`, `chanHandlers`, `writeChan` and `frameChan` are replaced without a
lock, while W and R of the previous connection may still be running.

For a method whose result is a channel, the server's `handleOutChans` goroutine
selects over the channels of all handlers and writes values tagged by the
channel's id; on the client W looks the id up and hands the value to the
stream's own goroutine, which buffers for the program.

### 1.3 What is hard here, and what makes each part correct

`PROJECT.json` lists the hazards, one by one, at their lines. In short:

* *Client.* Late goroutines of an old connection act on fields of the new one;
  select picks any ready case, also when `exitCh` is closed; queues are bounded
  and W both fills and empties `writeChan`. Correct means: a request runs at
  most once per attempt and only retried methods run again; a reply comes from
  a run; a pending call returns when its connection ends; one goroutine is in
  charge of the client's future; `exiting` is closed once; after that no new
  connection; the closer returns; nobody is left blocked on a channel.
* *Streams.* Two tables with different offsets are edited by swapping; W and R
  touch `chanHandlers` at once; closing a channel twice panics; one slow program
  must not hold up the others. Correct means: the program gets the handler's
  values in order, none lost before the end, and its channel is closed.
* *Server.* A cancellation may come before, during or after its call; every
  goroutine sends to bounded queues that only W empties. Correct means: it
  reaches that call or nothing, every request is answered once, and every
  context is cancelled when the connection ends.
* *HTTP.* A request may be refused at six places, some of which answer with an
  empty body; an exchange may break before or after it arrived. Correct means:
  the program gets what the handler returned or an error, and no method runs
  twice or without permission.
* *Reader parameters.* Two HTTP requests meet by uuid, either may give up.
  Correct means: they meet, the body is open while the method reads, and the
  upload ends when it has.
* *rockfmw.* Registration races; errors are recognised by their text; the read
  loop goes on after its callback failed; an end takes responses for requests.
  Correct means: a name is bound once, a nil error stands for one answer, both
  loops end, and responses are not answered for ever.
* *SQL rows.* One scan buffer for all rows, and scan errors that are printed.
  Correct means: a cell belongs to its row, or it is known when it does not.
* *Numbers.* Everything goes through float64, and a float that is too large for
  an integer type becomes what the processor makes of it. Correct means: an
  integer comes back unchanged where that is possible, and pauses grow up to
  their limit.

## 2. The modules

| Module | What it is |
|---|---|
| `RpcCall` | abstract: what one call promises to the program (runs, retries, outcomes), and what follows from it |
| `WsClient` | the websocket client in detail; refines `RpcCall` |
| `MCWsClient` | its constants for TLC |
| `WsClientProofs` | its types, ownership, `exiting`, requests in one place; `WsClient` implements `RpcCall`, and runs at most once |
| `Stream` | abstract: what a stream promises to the program that holds it, and what follows from it |
| `OutChans` | the streams of one connection in detail, both sides; refines `Stream` |
| `MCOutChans` | its constants for TLC |
| `OutChansProofs` | its types, that its tables agree; `OutChans` implements `Stream`, and what is received is a prefix |
| `Dispatch` | operators: method table, refusals and answers of an `RPCServer` |
| `WsServer` | a server connection in detail, over `Dispatch` |
| `MCWsServer` | its constants for TLC |
| `WsServerProofs` | its types, the table of calls, who may be cancelled, one answer for a request |
| `Auth` | operators: token, permissions, proxy |
| `ReaderParam` | state and actions of an upload and its decoder |
| `HttpCall` | a call over HTTP: composes `Dispatch`, `Auth` and `ReaderParam`; refines `RpcCall` |
| `MCHttpCall` | its constants for TLC |
| `HttpCallProofs` | its types and safety properties; `HttpCall` implements `RpcCall` |
| `RpcRegistry` | operators: services and methods of `rockfmw` |
| `RpcWs`, `MCRpcWs` | a `rockfmw` websocket connection, over `RpcRegistry`; with proofs of how often `OnClose` runs and what `conns` holds |
| `RpcHttp` | registration and calls over HTTP in `rockfmw`, over `RpcRegistry` |
| `SqlRows` | `ToMap` and `UnMarshal` |
| `Floats` | operators: Go's conversions between float64 and integers, with fewer bits |
| `ToNumber` | `ToFloat` and the conversions to integers, over `Floats` |
| `Backoff` | the pauses of a retried call, over `Floats` |
| `MCLibrary` | constants of `RpcHttp`, `SqlRows`, `ToNumber` and `Backoff`, explored in one run |
| `LibraryProofs` | proofs about these four: who serves a name, what a nil error means, what table and structs hold, what a number becomes, how pauses grow |

Operators named `<Action>_<Something>`, commented "Mutant", are broken
variants kept beside the action they vary. They are not part of any
specification; each shows that a property would notice that bug.

### 2.1 `WsClient`

One action per stretch of code between two points where another goroutine can
interfere: a channel operation, a read or write of a shared field, a call to
the connection. `cpc`, `wpc`, `rpc`, `dialer`, `closer` say where each goroutine is. A
*generation* is one run of `handleWsConn`; its locals are functions of the
generation, the shared fields are not. The redialer assigns `conn`, `inflight`,
`writeChan` and `frameChan` one after the other; `dialer` says how far it is, and
`ConnField`, `WriteField` and `gen` whose connection and whose channels the fields
hold meanwhile.

A goroutine reads a field in one step and uses what it found in another, and
everything may happen in between. W takes a message (`WTakeWrite`) and looks at
`c.conn` only when it writes (`WWrite`), so that a W of an old connection may write its
message on the new one. It registers a request in the map the field holds
(`WRegister`), then evaluates `c.writeChan` (`WAddress`), then sends (`WPut`): the
two may be of different generations. R evaluates `c.conn` after its select (`RBegin`)
and `c.frameChan` after the read (`RAddress`), so that an old R may read from the new
connection. `wchan`, `wframe`, `rconn` and `rchan` remember what was found. The only fields
read together are the two channels of W's select (`WTop`): a select takes one case, so
it does not matter whether the other channel was replaced in between.

| Code | Actions |
|---|---|
| `doRequest` (client.go 194-254) | `Call`, `CallExiting`, `CallCtxDone`, `CancelExiting`, `Receive` |
| retry loop (client.go 527-562) | `ShouldRetry`, `Retry` |
| W's select (websocket.go 473-516) | `WTop`, then one of `WTakeCall`, `WTakeCancel`, `WTakeWrite`, `WTakeFrame`, `WExit`, `WStop` (`Selected`, `WReturns`) |
| W with a request (500-505) | `WRegister`, `WAddress`, `WPut` |
| W with a message (493-499) | `WWrite`, `WWriteErr` |
| W with a response (286-313) | `WLookup`, `WDeliver`, `WDelete` |
| R | `RTop`, `RBegin`, `RRead`, `RAddress`, `RPush`, `RReadErr`, `RLeave` |
| `closeInFlight` | `StartDrain`, `RDrain` (once per entry the range produces), `REnd` |
| `exitfun` and the redialer (434-456, 425-431) | `ExitFun`, `DialCheck`, `DialFail`, `DialOk`, `NewInflight`, `NewWriteChan`, `NewGeneration` |
| `ClientCloser` (client.go 280-286) | `CloseStop`, `CloseFlag`, `CloseReturn` |
| network, program | `ConnEnds`, `CtxCancel` |

A Go range over a map may or may not produce entries inserted meanwhile:
`RangeAfterInsert` leaves that open.

Abstractions. A message is its kind, call and attempt. The wire holds nothing:
the remote runs a request when W writes it, unless the connection is lost, in
which case it may also vanish; R may read an answer any time later or never.
Pings carry nothing; they only make a dead connection fail, which `WWriteErr`
(with or without a queued message lost) and `RReadErr` already do. Two goroutines
that write, or read, one connection at the same time take turns; the websocket
library forbids that and may panic.

`SleepSettles` chooses between two readings of the sleep of at least a second before
a redial. FALSE: the goroutines of the old connection may still be anywhere
when the new one starts, however slow. TRUE: those that can run have run. The
safety that must not depend on time is checked with FALSE; what would fail in
a schedule where a runnable goroutine does nothing for a second is checked
with TRUE. `SendersHaveReceivers` is of that sort: if R of the old connection sits still
between its last read and its cleanup until the new one is made, it ranges over
the new map and answers a request of the new connection with "closed", which the remote
answers too, and the new R after it.

### 2.2 `OutChans`

The handlers (`hpc`), the forwarder `handleOutChans` (`fpc`), R and W of the client with what
they do to streams, and one goroutine per stream (`pump`).

| Code | Actions |
|---|---|
| `handleChanOut` (websocket.go 187-205) | `HandleChanOut`, `ChanOutFails`; the send on `registerCh` meets `FRegister` |
| `handleOutChans` (92-185) | `FRegister`, `FReceive`, `FClosed` (with `SwapOut`), `FPut`, `FExit` |
| R, `closeChans`, `closeInFlight` | `RRead`, `RPush`, `RLeave`, `RPick`, `RLookup`, `RClose`, `RChansDone`, `RAnswer` |
| W: `handleResponse`, `handleChanMessage`, `handleChanClose` | `WResponse`, `WReady`, `WLookup`, `WValue`, `WClose`, `WDrop`, `WLeave` |
| goroutine of `makeOutChan` (client.go 325-377) | `PumpTake`, `PumpSeesClose`, `Receive`, `PumpEnds` |
| server, network, programs | `ServerExits`, `ServerWritesInVain`, `SourceCloses`, `CtxEnds`, `ConnEnds`, `Call` |

A panic (a send to, or a close of, a closed channel) sets `crashed`, after
which nothing happens: the process is gone. `inNil` is the variable `incoming`
that the stream's goroutine sets to nil and W's closure shares. The look at
`ctx.Err()` before the select in `hnd` belongs to `WLookup`/`WDrop`: it is
what keeps a stream whose context ends from having a gap, and a mutant without
it is caught.

Abstractions. One connection, no redial (`WsClient` has that; a redial starts with an
empty `chanHandlers`). The handler's goroutine sends and closes as it likes, so
that the cancellation `handleCtxAsync` sends needs no step. Values are numbered.

### 2.3 `Dispatch` and `WsServer`

`Dispatch` holds what does not depend on the transport, as operators on a
function type reduced to kinds of arguments and results: `processFuncOut`,
`register`, `AliasMethod`, `Lookup`, `Refusal` and `KeepCtx` (the decisions of
`handle` before the call), `Answer` and `SendsChannel` (after it), `rpcError`,
and `Accepts` (the size limit in `handleReader`).

`WsServer` runs them in the goroutines of one connection. `hpc[c]` is where
the goroutine of call `c` is: in the method, waiting for `handleOutChans`,
waiting for room in `writeChan`, about to call `done`.

| Code | Actions |
|---|---|
| R (websocket.go 520-550) | `RLoop`, `RRead`, `RPush`, `RReadErr` |
| `closeInFlight` (394-414), return of `ServeHTTP` | `RCloseInFlight`, `RReplace` |
| W (467-518), `handleFrame`, `handleCall`, `cancelCtx` | `WFrame` (with `handleCall`, `cancelCtx` or `answerPing`), `WWrite`, `WPong`, `WLeave` |
| a handler goroutine (handler.go 192-328, websocket.go 331-358) | `FirstStep`, `HReturn`, `HRegister`, `HWrite`, `HDone` |
| `handleOutChans` answering a registration (114-138) | `Announce` |
| client, network, net/http | `SendCall`, `SendCancel`, `SendPing`, `ConnEnds`, `CtxEnds` |

The server's `wsConn` has no `stop`, no ping timer and no requests, so those cases
of the select can never be ready; `noReConnect` is set, so `exitfun` closes
`exitCh` and `exiting` in one go. The client does ping, and W answers a ping
by sending a pong to `keepAliveChan` (websocket.go:380), whose only receiver is W
(485). `pongs` is what that channel holds; with it full W stands at `"pong"` for
good (`WaitsForItself`), which the liveness properties name as an exception. A
result that `json.Marshal` refuses goes out as an empty message
(341-343): the call is in `garbled`, and its client hears nothing. External and relied upon: net/http cancels
the context of a request when `ServeHTTP` returns; this is what ends the
context of a call that entered `handling` while `closeInFlight` ran.

### 2.4 `HttpCall`, `ReaderParam`, `Auth`

A call is one of a set of kinds (a function type, a request, its length,
credentials, required permission); `cpc` is where its program is, `spc` where
its request is on the server.

| Code | Actions |
|---|---|
| `handleRpcCall` (client.go 463-562) | `Invoke`, and the last steps of `Break` and `Receive` (`processError`, `processResponse`) |
| `doRequest` of `httpClient` (142-178) | `Post`, `Break`, `Receive` |
| `ServeHTTP`, `auth.Handler`, `handleReader`, `handle` up to the call | `Arrive`; with a reader parameter, `Hand` or `GiveUp` |
| the method, `doCall`, the rest of `handle` | `Return`, `UseReader`, both by `Respond` |
| `ReaderParamEncoder` (reader.go 22-50) | `Encode` (in `Invoke`), `PostBreaks` |
| handler of the upload (74-111) | `PushArrives`, `Meet`, `PushGivesUp`, `PushDone` |
| decoder (113-138) | `Decode` (in `Arrive`), `Meet` (in `Hand`), `DecodeGivesUp` (in `GiveUp`) |
| `waitReadCloser` (52-68) | `ReadEnds`, `CloseReader`, `ClosesTwice` |

The server is taken to stand behind `auth.Handler`, and the methods with a
permission behind a `PermissionedProxy`, as the package documents their use.
External: net/http does not repeat a POST; it need not notice that a client is
gone while the body has not been read (`PushCtxEnds` may never happen); the
client's context may end at any time, which to the program is a broken
exchange. The retry loop is left out because its condition, code 2, is only
ever produced by the websocket client. One uuid is used by one call.

The function field of the program (`Type`) need not have the type of the method it
names (`MethodType`), as in the tests (rpc_test.go:305-313). A value stands
for its JSON: `Odd` has none, so that the server answers with an empty body
(handler.go:115-119, in `Respond`), and the ones in `Misfits` do not unmarshal into
the field (client.go:546, in `Receive`). Both are errors to the caller, and a field
without that result does not look at it; `Local` says so of `CallLikeLocal`.

### 2.5 `RpcRegistry`, `RpcWs`, `RpcHttp`

| Code | Definitions |
|---|---|
| `serviceMap.register`, `get` (rpc_map.go) | `unfit`, `methodTable`, `serviceName`, `get`; the critical section is `RpcHttp!register` |
| `callRPC` (rpc_abstract.go 62-108) | `callError` |
| `HTTPHandler` and its `done` (111-162) | `HTTPHandler`, `writeError`, `Done`, `HandlerReturns` |
| `RPCHTTPClient.Call` | `Call`, `CallReturns` (with `Answered`), `CallFails` |
| `Run`, `websocketHandler` | `Connect`, `OpenRefused`, `Opened` |
| the two `enableRead` loops | `Read`, `ReadFails`, `CloseEnd`, `SpecialFails` |
| `OnMessage`, its `done` | `Way`, `Read`, `Done` |
| `Send`, `WriteJSON`, `WriteMsg` | `Send`, `Deliver` |

Both ends of a `rockfmw` websocket run the same `OnMessage`; a *special*
method is one given to `RegisterWsHandler`. A method may call `done` any
number of times, or never; what it does after `HTTPHandler` has returned is
not modelled, as net/http does not allow it, only that it came too late. An
answer that cannot be written as JSON (`fits` FALSE) leaves nothing in the body
(rpc_abstract.go:153).

### 2.6 `SqlRows`

`NextRow` is one round of the loop of `ToMap` (`Scan`, then `entry`);
`RowsEnd` and `ColumnsFail` leave it; `Choose` looks at the target and `Fill`
is `mapSlice2interface` with `mapSingle2interface`. External: `Scan` fills
the destinations from the left and stops at the first value that does not
convert, which for a string is NULL; and it fills none when the rows were closed
after `Next`, as they are when the context of the query ends. `closed` says so of the
last row: `Next` finds no more.

A cell is the text of a number, of a truth value, or neither (`Parses` says for
which fields that is an error). A number is parsed with 64 bits and stored
with the width of the field (`Stored`): an integer keeps its low bits
(`Wrapped`), a float32 is rounded from the float64. `NilMeansFilled` therefore says of a
narrow integer field that it differs from the cell by a multiple of the type's size, so
that it is exact if the type can hold the number.

### 2.7 `ToNumber`, `Backoff`

`To` is one conversion: `ToFloat` of an argument, which is whole, the text of a
number, a float, or something that gives 0, and then the conversion to a type.
`Pause` is one round of the retry loop (client.go 531-560) with `backoff.next`;
`WsClient` has the same round as `Retry`, where the length of the pause does not
matter. A float is an integer rounded to `Mant` significant bits. Go leaves the
conversion of a float that the integer type cannot hold to the implementation:
`Converted` then allows every value of the type. The rounding of the product in
`backoff.next` is left out. `math.Pow(1.5, n)` is `Threes[n]` over `2 ^ n`, where
`Threes[n]` is `3 ^ n`.

## 3. The runs

Every run checks a different question. Deadlock is not checked: a closed
client, or a program that makes no more calls, rightly stops.

| Run | Question | Result |
|---|---|---|
| `client_overlap` | One retried call, two attempts, two connections, `writeChan` and `frameChan` of one, `SleepSettles` FALSE: `TypeOK`, `OneOwner`, `OnePlace`, `RefinesRpcCall` | hold |
| `client_calls` | Two calls, one with a context, two connections, a client context that may be cancelled: `SendersHaveReceivers`, `NoConnectionAfterExiting` | hold |
| `client_liveness` | `PendingReturnsOnClose`, `CloserReturns`, `ReaderLeaves` under `FairSpec` | hold |
| `client_lost_call` | `AllPendingReturnOnClose` | **violated** (finding 1) |
| `client_stuck_sender` | `CloserReturns` with a full `writeChan` | **violated** (finding 2) |
| `streams_shared` | Two streams on a connection that stays up, all queues of one, nobody receiving from the second (three values, enough to fill every queue): `TablesAgree`, `RefinesStream`, `StreamsComplete` | hold |
| `streams_end` | One stream of three values, connection and context may end anywhere: `TypeOK`, `RefinesStream`, `HeldStreamsEnd` | hold |
| `streams_late` | `StreamsEndWithConnection` | **violated** (finding 3) |
| `server` | Any two of a call that returns only when its context is done, one with a channel result, and a notification under an alias; handlers that fail, panic or return what has no JSON; a ping; queues of one; the client may cancel at any time, the connection or the context may end: `TypeOK`, `OnlyNamedCancelled`, `HandlingAgrees`, `OneAnswer`, `CancelReaches`, `CallAnswered`, `ContextsEnd` | hold |
| `http_call` | Two calls, each of twelve kinds: plain, too long, undecodable, wrong count, unmarshallable, without token and for a field without results, with a token that lacks the permission, with a refused token, with a reader, with a channel, without results, for a field the result does not fit: `TypeOK`, `CallLikeLocal`, `RunsPermitted`, `WithinLimit`, `BodyHeld`, `Rendezvous`, `ReadReleasesPost`, `RefinesRpcCall` | hold |
| `rockfmw_ws` | One connection, five requests of either end, special methods that may fail, a refusal by `OnOpen`, a network that may break: `CloseCount`, `TableHoldsOpen`, `BothEnd`, `AnswersEnd` | hold |
| `library` | Three registrations, two under one name, racing with an HTTP call; result sets of up to two rows of three columns, which may be closed early, into structs with fields of every kind; every argument for integers of six and three bits and floats of four; ten pauses, with the exponential leaving its type at the sixth: `WinnerServes`, `NilMeansDone`, `TableHoldsRows`, `NilMeansFilled`, `WholeKept`, `PausesGrow` | hold |

### 3.1 Why the bounds are enough

* Two connections: every interaction is between goroutines of one connection
  and the fields of the next; a third adds no new pair.
* Two attempts: a late answer or cleanup of the first meets the second.
* One call where calls do not interact (ids are distinct), two where they share
  queues or the range of `closeInFlight`.
* Capacities of one make every full-queue case happen. Where a property is
  about something else and fails with a full queue, the queue has room for all
  messages of the instance, and this is an assumption of that property:
  `client_calls` and `client_liveness` (`WriteCap` 3), `streams_end` (`FrameCap`
  5, the response, three values and the close). What happens without is
  finding 2 and, for `frameChan`, the first item of section 3.4.
* Three values of an unread stream: one in the buffer, one in `incoming`, one
  in W's hands if it had to wait.
* `server`: the three calls are one for each way a call ends (its context, a
  channel, no answer), and the client makes any two of them (`MaxCalls`), which
  compete for every queue of one. One ping under way at a time (`MaxPings`), any number
  one after the other, and one pong of room (`PongCap`) fill `keepAliveChan`.
  `MaxWire` bounds the frames under way to one, which still lets a cancel
  follow its call while the call waits in `frameChan` or in R's hands.
* `http_call`: requests do not share state on the server except `readers`, for
  which two uuids are enough. `IntLimit` of 8 stands for 2^63; `MaxSizes`
  has the limit between the two lengths of a request, and the largest number.
* `rockfmw_ws`: `MaxSends` of five lets responses, their answers, garbage and
  failing special methods of both ends meet. `library`: `MaxDone` of two is
  one call of `done` too many; `MaxRows` of two is a row with a predecessor,
  with every combination of NULL, empty and other cells in three columns; the
  cells of `id` lie on both sides of what three bits, signed or not, hold.
* `library`, numbers: the bits keep the order of the real ones (32 < 53 < 64), so that
  every conversion has its exact, its rounded and its impossible arguments;
  the rounding happens by one and two bits, with ties. A float32 has two bits
  of a float64's four, enough for a number that is rounded twice.
* `MaxAttempts`, `MaxGen`, `MaxValues`, `MaxWire`, `MaxCalls`, `MaxPings`, `MaxSends`, `MaxDone`, `MaxRows` bound otherwise unbounded counters and
  stand in the guards of the actions that would pass them.

### 3.2 Fairness

The Go scheduler runs a goroutine that can run: weak fairness per goroutine.
W comes back to its select and select picks among the ready cases at random,
so W does not pass over a closed `exitCh` for ever: strong fairness for W's
leaving (`WLeaves`). A dead connection is noticed because pings are on by
default (every 30 s, with a read deadline of 90 s; options.go 26-36), which is
what fairness of `WStep` and `RStep` on a lost connection stands for. In
`OutChans`, the forwarder is fair for all but receiving from a handler, and only
programs in `Readers` keep receiving. In `WsServer` every goroutine is weakly
fair, and so is each case of W's select: a select picks at random among ready
cases, and these stay ready until W takes them. A handler is assumed to return,
those in `UntilCtx` once their context is done. In `HttpCall` only the two
goroutines that have what they wait for are fair; in `RpcWs` the read loops
are. There a broken connection is noticed by the read, which needs
`SetAliveTime` or the network's own error when the peer vanishes silently;
without either the loop waits for ever. Nothing is assumed of programs, of the
handlers, of the network, of the remote, or that a redial succeeds.

### 3.3 Findings

1. **A call taken too late never returns** (`client_lost_call`). The comment at
   websocket.go:460-461 says that all pending calls return on close. W's select
   (473-507) may take a request when `exitCh` is closed and `closeInFlight` has
   run; the call is registered where nobody looks, and `doRequest` waits
   for ever. `PendingReturnsOnClose` is the part that holds: calls registered
   before `exitfun` ran.
2. **W can block itself, and with it the closer** (`client_stuck_sender`). W is the
   only receiver of `writeChan` and sends to it at 505. With the queue full (100
   in the code, 1 in the run) it blocks for good, `stop` is not seen and
   `ClientCloser` (client.go:280-286) does not return.
3. **A stream registered too late is never closed** (`streams_late`). The test
   `TestChanServerClose` (rpc_test.go:735-742) expects the program's channel to be
   closed when the server goes away. If the response is still in `frameChan`
   when R runs `closeChans`, W may afterwards take it, start the stream and
   answer the call; nobody closes it. `HeldStreamsEnd` is the part that holds.

In `OutChans` R and W may also both close one `incoming`, or W send to it after
R closed it, which panics; the properties let such behaviours pass, as no
document promises their absence.

### 3.4 What else the models show

Behaviour that is not among the findings, but that a maintainer should know.

* *A full `frameChan` keeps contexts alive.* When W has left and `frameChan`
  is full, R blocks at websocket.go:547 and `closeInFlight` never runs
  (`ReaderStuck`, the one exception of `ContextsEnd`).
  At the client the calls in flight then wait for ever: `PendingReturnsOnClose`
  fails in `client_stuck_sender` with `WriteCap` 3, the remote having answered
  two calls and W having left after a failed write.
* *A cancelled client cannot be closed.* When the context given to `NewClient` is
  cancelled W returns at websocket.go:475 without `exitfun`. Nobody receives
  `stop`, no close message is written, and the function that "closes the client
  connection" (client.go:90) waits at 284 for ever: with `CtxCancellable` TRUE
  `CloserReturns` fails. Close before cancelling.
* *Failed calls of channel methods stay in `handling`* until the connection
  ends (handler.go:220); `HandlingAgrees` says exactly which calls do.
* *Responses are answered.* In `rockfmw` a response read by the other end is a
  request without a method. With a handler for `""` it ends there
  (`AnswersEnd`); without one each end answers the other's answer for ever. A
  message that is not JSON always does that.
* *`OnClose` runs twice* at a server whose special method failed
  (rpc_ws_server.go:124): `CloseCount` gives the number.
* *An error with an empty text is success* for `RPCHTTPClient.Call`
  (`NilMeansDone`).
* *`WithMaxRequestSize(math.MaxInt64)` refuses everything*: `limit + 1` wraps
  (handler.go:132); `WithinLimit` exempts this value and no other.
* *W of the server may wait for itself.* Pings that W handles faster than select lets
  it write pongs fill `keepAliveChan`, and the next one blocks W for good
  (`WaitsForItself`, websocket.go:380): no call of the connection is answered or
  cancelled any more. With `frameChan` full R is stuck too.
* *A result without JSON is not answered over a websocket*: the empty message
  of websocket.go:341 is discarded by the client, and the call waits until the
  connection ends. Over HTTP the empty body is an error (`CallLikeLocal`).
* *A message may change connections*: W takes it before the connection ends and
  writes it on the next one. It is still written once (`OnePlace`), and the
  call is answered twice at most, by the remote and by `closeInFlight`.
* *A NULL takes the value of the row before*, and so do the columns to its
  right, and so does a whole row whose query ended before `Scan`
  (`TableHoldsRows`); *a number too large for its field is cut to the field's
  bits* without an error (`NilMeansFilled`); *an empty result set leaves a slice as it was*
  (`NilMeansFilled`).
* *A reader that is closed after its end panics* the method (reader.go:66), which
  the caller sees as an error although the method did its work.
* *Entries of `readers` are never deleted* (reader.go:85, 128).
* *Retries stop pausing.* After 62 attempts the exponential leaves int64 (some
  seven hours at the limit of ten minutes). On processors that give the least
  integer for such a conversion, the limit lets it through as a negative pause,
  that is, none (`PausesGrow` stops there).
* *`ToInt64` and `ToUint64` change integers of more than 53 bits*, and the
  largest int64 may become the least (`WholeKept`).
* *`WithReconnectBackoff` has no effect*: the option is stored (client.go:265)
  and never read; `exitfun` waits a second more after every failure
  (websocket.go:440-441).
* *Over HTTP nothing is retried*, whatever the `retry` tag says, since code 2
  never occurs.

## 4. The proofs

| Theorem | Module | Says |
|---|---|---|
| `TypeCorrect` | `WsClientProofs` | `Spec => []TypeOK`: types, and no queue beyond its capacity |
| `OwnerIsUnique` | `WsClientProofs` | `Spec => []OneOwner` |
| `ExitingOnce` | `WsClientProofs` | `Spec => []ExitingClosedOnce`, a consequence of `OneOwner` |
| `ExitingIsFinal` | `WsClientProofs` | `Spec => NoConnectionAfterExiting` |
| `RequestsInOnePlace` | `WsClientProofs` | `Spec => []OnePlace` |
| `ImplementsRpcCall` | `WsClientProofs` | `Spec => RefinesRpcCall` |
| `ClientRunsAtMostOnce` | `WsClientProofs` | `Spec => []` of `AtMostOnce` and `ReplyMeansRun` of `RpcCall`, as `WsClient` maps them |
| `CallsRunAtMostOnce` | `RpcCall` | in `RpcCall`: at most one run per attempt, one in all without the retry tag; a reply means a run |
| `ServerTypes` | `WsServerProofs` | `Spec => []TypeOK` of `WsServer` |
| `TableAgrees` | `WsServerProofs` | `Spec => []HandlingAgrees` |
| `CancelsAreNamed` | `WsServerProofs` | `Spec => []OnlyNamedCancelled` |
| `AnsweredOnce` | `WsServerProofs` | `Spec => []OneAnswer` |
| `HttpTypes` | `HttpCallProofs` | `Spec => []TypeOK` of `HttpCall` and `ReaderParam` |
| `LikeLocal` | `HttpCallProofs` | `Spec => []CallLikeLocal` |
| `OnlyPermitted` | `HttpCallProofs` | `Spec => []RunsPermitted` |
| `LimitKept` | `HttpCallProofs` | `Spec => []WithinLimit` |
| `BodyIsHeld` | `HttpCallProofs` | `Spec => []BodyHeld` |
| `HttpImplementsRpcCall` | `HttpCallProofs` | `Spec => RefinesRpcCall` |
| `HttpRunsAtMostOnce` | `HttpCallProofs` | `Spec => []RunsOnce` |
| `StreamTypes` | `OutChansProofs` | `Spec => []TypeOK` of `OutChans` |
| `TablesStayEqual` | `OutChansProofs` | `Spec => []TablesAgree` |
| `StreamsAreKept` | `OutChansProofs` | `Spec => RefinesStream` |
| `StreamsDeliver` | `Stream` | in `Stream`: a prefix is received, and a channel ends early only for a cause |
| `PrefixIsReceived` | `OutChansProofs` | `Spec => []` of `PrefixReceived` and `EndedForCause` of `Stream`, as `OutChans` maps them |
| `CloseIsCounted` | `RpcWs` | `Spec => []CloseCount` |
| `TableIsCurrent` | `RpcWs` | `Spec => []TableHoldsOpen` |
| `WinnerIsServed` | `LibraryProofs` | `HttpSpec => []WinnerServes` |
| `NilWasDone` | `LibraryProofs` | `HttpSpec => []NilMeansDone` |
| `TableIsRows` | `LibraryProofs` | `SqlSpec => []TableHoldsRows` |
| `NilIsFilled` | `LibraryProofs` | `SqlSpec => []NilMeansFilled` |
| `WholeIsKept` | `LibraryProofs` | `ToSpec => []WholeKept` |
| `PausesDoGrow` | `LibraryProofs` | `BackoffSpec => PausesGrow` |

They hold for every value of the constants: any set of calls, streams,
services or rows, and all capacities. The only assumptions are the ones the
modules name, which TLC evaluates in every run, and for `CallsRunAtMostOnce` that
`MaxAttempts` is a natural number:

* `ClientAssumption`, `ServerAssumption`, `RpcWsAssumption`, `RpcHttpAssumption`
  and `SqlAssumption` give the constants their types.
* `FloatsAssumption` and `BackoffAssumption` have a float hold every int32 and
  uint32 and not every int64, as a float64 does, and the least delay be positive,
  a Duration, and at most the greatest.
* `OutChansAssumption` has the streams finite as well, because ids are bounded
  by their number.
* `HttpAssumption` says of the program what the code asks of it: function fields
  and methods are of types that `makeRpcFunc` and `register` take, and need not
  be the same; the absence of a result always fits; sizes and limits fit an int64; every
  call has an id; and permissions asked for are among the valid ones, without
  which the proxy panics when it is made.

`RpcHttp`, `SqlRows`, `ToNumber` and `Backoff` are explored together in
`library` and proved apart, each under its own specification.

* *Types of the client* need no strengthening. `NextCases` splits the next-state relation,
  `Frames` says that an untouched group of variables keeps its type, and there
  is one lemma per goroutine.
* *Ownership.* `OneOwner` is not inductive: a goroutine of a generation that
  does not exist yet could run `exitfun`. `OwnerInv` adds `Unborn` (later
  generations have no goroutines and have not exited). `ExitFunOwner` is
  the heart: only the current generation's `exitfun` has an effect, and it
  passes the charge to the redialer or closes `exiting`. The other two theorems
  follow from it.
* *Refinement.* `RefInv` is `TypeOK`, `OnePlace`, `AnswersHaveRun` (an answer
  in the hands of the remote, R, `frameChan`, W or `ready` belongs to an
  attempt that ran) and `Callers` (what `attempt`, `outcome` and `cpc` say
  of each other). `OnePlace` is what forbids a second run: a request queued
  twice, on two connections or on one, would run twice; it counts what W holds before
  it queues a request and after it took it from a queue. Nothing in it depends on
  which connection a message is written to or which fields are half replaced, so it
  is proved without any assumption on time. Each action
  then is a `RpcCall` step (`Call` issues, `Retry` reissues, `WWrite` runs,
  `Receive`, `CallExiting` and `CancelExiting` may return) or a stutter.
  With `CallsRunAtMostOnce`, a theorem about `RpcCall` alone, this gives "at most
  once" for the client (`ClientRunsAtMostOnce`) and over HTTP (`HttpRunsAtMostOnce`).
* *Server connection.* `HandlingAgrees` is inductive given the types.
  `OnlyNamedCancelled` is not: a call whose frame is taken a second time would
  start again with its context already cancelled. `FramesOnce` (a call's frame
  is in one place, and in none once the call has started) excludes it, and
  `CancelsSent` says that a cancel under way was sent by the client.
* *One answer.* `OneAnswer` counts the answers to a call, those the client has
  read, those in `writeQ` and the one W may be writing. Beyond `FramesOnce` (a call handled twice would be
  answered twice) it needs `Owed`: what a handler waits to send answers a request,
  so that a notification is never answered. The lemmas on counting say what taking the
  first of `writeQ` and adding to its end do to the number.
* *HTTP.* No action of one call touches another, so `HttpInv` is the types and
  `CallInv` of each call: `Phase` (where the two ends can be at the same time),
  `Admitted` (what got past the checks of `handle` and of the permissions),
  `Replied` (what an answer says of the handler), `Given` (`CallLikeLocal` of
  that call) and `Body` (the POST waits for as long as its body may be read).
  `Phase` is what keeps an answer from being overtaken: no handler returns
  after its call did, unless the exchange is lost. `Results` and `Answers` are about
  the operators of `Dispatch`: both ends agree where a function type has its
  value and its error, so what `processResponse` makes of `Answer` is what the
  handler returned. For the refinement, `Invoke` issues, `Arrive` or `Hand` runs
  the method if it may run, `Break` and `Receive` (and `Post` of what cannot be sent)
  return.
* *Stream tables.* `TableInv` adds two facts. `Numbered`: `chanCtr` is the number
  of streams that have an id, so an id is new and one of `Ids`, and a stream has
  one exactly when it has come to register. `Named`: a response in the
  forwarder's hand, in `writeQ`, in R's hand or in `frames` names the id of its
  stream, so that what W enters under it agrees with the server. `SwapOutOf` says
  what removing an element by swapping does; applied to both tables at the same
  position it keeps them equal, and `FClosed` is the only step where they
  could come apart. Types and tables are proved together: the stream of a value
  is read from one table and its id from the other.
* *Streams implement `Stream`.* `Line` is all messages between the handlers'
  channels and W, in the order in which W will take them: `frames`, R's hand,
  and, while the connection is up, `writeQ` and the forwarder's hand. What the client holds of a stream (`Kept`),
  what W has in its hands (`InHand`) and what is still in line (`InLine`) are one
  after the other the values the stream has made, as long as W can still
  deliver them (`Live`: the context is not done, and the stream is in
  `chanHandlers` or its response is in line). The end comes after the last of them (`InLine`,
  `Closes`), unless R closed the stream because the connection is down. Three more
  facts make this inductive: ids and streams determine each other
  (`Distinct`), nothing is heard of a stream before it is registered
  (`Settled`), and a message is about the stream it names and never comes before
  its response (`Addressed`). `Fresh` says that the goroutine of a stream is started
  once. Steps fall in three sorts, each with its lemma: those that leave the line
  as it is (`QuietKeeps`), those that take its first message (`TakesOrdered`), and those
  that add to its end (`ForwardOrdered`); a step of R, or of the forwarder into `writeQ`, only moves
  a message along it. `FReceive` then is `Make`, `SourceCloses` is
  `Close`, `Receive` is `Get`, `PumpEnds` is `End`, `ConnEnds` is `Break` and
  `CtxEnds` is `Give`; everything else stutters. After a panic (`crashed`)
  nothing happens, and nothing more is claimed.
* *rockfmw websocket.* `CloseCount` bounds the calls of `OnClose` by the failures
  that cause one. The strengthening is that an end which does not read yet has
  not been closed (`NotYet`).
* *rockfmw HTTP.* `WinnerServes` is inductive. `NilMeansDone` follows a request
  through its stages (`Unserved`, `Served`, `Returned`), where what was written
  matches the calls of `done`, and needs that a service found in the map was
  told that it is registered (`ServedRegistered`).
* *SQL rows.* `LastBuffer` says that the scan buffer holds the last row of the
  table, which is what a NULL lets through. A name that several columns share
  stands for the last of them; that there is a last one is `LastExists`, by
  well-foundedness. `Prepared` says that before `Fill` nothing has failed and the
  structs are new or as the program gave them.

* *Numbers.* The states are few and the invariants say no more than where a
  result came from (`ToInv`, `BackoffInv`); the argument is arithmetic. The
  provers know no law of `2 ^ n`. `TwoStep` takes its recursion from the
  number of subsets of `1 .. n`, half of which hold `n`; `AllNat` is the induction,
  on sets of naturals. For `3 ^ n` there is nothing of the kind, so `Backoff` has it as a
  recursive function, `Threes`, and `ThreesIs` shows that its recursion has a solution.
* *Conversions.* `FloatIs` is rounding: the exponent exists, and the result is
  one of the two multiples of its power next to the number, and the nearer one. A
  number of no more bits than a float is its own float (`SmallFloat`; all of int32 and
  uint32). For a larger one `Neighbours` says that nothing that a float can be lies
  between those two multiples, with coarser and with finer exponents, so
  that the nearer one is the nearest of all (`LargeFloat`).
* *Pauses.* While the largest delay of an attempt is a Duration, so is every other of
  this attempt (`PauseIs`) and of the one before (`DurationKeeps`), and the pause is the
  fraction, truncated and limited. From `3 ^ n >= 2 * 2 ^ n` for n of 2 or more, what the
  exponential gains from one attempt to the next is at least the whole random
  part (`Fraction`, `FractionGrows`). Before, it gains a half and three quarters of
  the least delay only, which is why the property starts at the fourth attempt.
* *Streams deliver.* `StreamsDeliver` is about `Stream` alone and inductive given the
  types; with `StreamsAreKept` it holds of `OutChans`.

Only model-checked: everything that is live, which is out of the prover's reach:
`PendingReturnsOnClose`, `CloserReturns`, `ReaderLeaves`, `StreamsComplete`,
`HeldStreamsEnd`, `CancelReaches`, `CallAnswered`, `ContextsEnd`, `Rendezvous`,
`ReadReleasesPost`, `BothEnd` and `AnswersEnd`, and the findings.

## 5. Plan

Everything in section 1.1 that is within TLC's reach is modelled, and every
safety property that a run checks is proved, but for `SendersHaveReceivers`, which TLC
checks in `client_calls`. What is left is its proof, more detail where a
component is only partly modelled (section 6), and one hazard without a
property: how long a caller waits whose context ended while every redial fails
(client.go:246).

## 6. Not modelled, and why

* Reflection, JSON and the shape of Go types: no state, and no property here
  depends on it beyond whether a value decodes.
* Data races as such: unsynchronised fields (`inflight`, `chanHandlers`) are
  modelled by every interleaving of their accesses; that the Go runtime may
  abort on a concurrent map access is not.
* `keepAliveChan` at the client, where the ping timer is what could fill it: a
  hundred ticks without select choosing to write one. Metrics, logging, tracing,
  options.
* `to_string.go`, `str_conv.go`, `copy.go`, `utils_string.go`: each is one call of
  the standard library or of `mahonia` on one value, so that a model would be of
  those.
* Tests, examples, routing (`mux`) and CORS.
