--------------------------- MODULE WsServerProofs ---------------------------
(***************************************************************************)
(* Proofs about WsServer, for any calls, methods, capacities and bounds.   *)
(*                                                                         *)
(* HandlingAgrees is inductive given the types.  OnlyNamedCancelled needs  *)
(* that no call frame is taken twice (a call that has ended would start    *)
(* again, with its context cancelled) and that every frame that cancels    *)
(* was sent by the client: the invariants FramesOnce and CancelsSent.      *)
(* OneAnswer needs FramesOnce as well (a call handled twice would be       *)
(* answered twice), and Owed: that only what answers a request waits to    *)
(* write or to register a channel, and that what cannot be marshalled is   *)
(* not a channel.                                                          *)
(***************************************************************************)
EXTENDS WsServer, SequenceTheorems, FunctionTheorems, FiniteSetTheorems, TLAPS

-----------------------------------------------------------------------------
(* Types                                                                   *)

(* When R is about to hand over a frame, it has one.                       *)
Holding == rpc = "push" => rhold \in Frames

TypeInv == TypeOK /\ Holding

(* What writeChan carries: an answer to a call, or a message without text. *)
Messages == Calls \cup {NoCall}

LEMMA InitTypes == Init => TypeInv
<1> SUFFICES ASSUME Init PROVE TypeInv
  OBVIOUS
<1>1. <<>> \in Seq(Frames) /\ <<>> \in Seq(Messages) /\ Len(<<>>) = 0
  BY EmptySeq
<1>2. /\ wire \in Seq(Frames) /\ frameQ \in Seq(Frames) /\ Len(frameQ) <= FrameCap
      /\ writeQ \in Seq(Messages) /\ Len(writeQ) <= WriteCap /\ pongs \in 0 .. PongCap
  BY <1>1, ServerAssumption DEF Init
<1>3. /\ answered \in [Calls -> Nat]
      /\ hpc \in [Calls -> {"none", "running", "registering", "writing", "finishing", "gone"}]
  BY DEF Init
<1>4. /\ sentCall \subseteq Calls /\ sentCancel \subseteq sentCall
      /\ handling \subseteq Calls /\ cancelled \subseteq Calls /\ garbled \subseteq Calls
  BY DEF Init
<1>5. TypeOK
  BY <1>2, <1>3, <1>4, Zenon DEF Init, TypeOK, Messages
<1> QED  BY <1>5 DEF Init, TypeInv, Holding

(* What Append, Head and Tail do to a queue.                               *)
LEMMA QueueTypes ==
  ASSUME NEW S, NEW q \in Seq(S)
  PROVE  /\ \A x \in S : Append(q, x) \in Seq(S) /\ Len(Append(q, x)) = Len(q) + 1
         /\ Len(q) \in Nat
         /\ q # <<>> => /\ Head(q) \in S /\ Tail(q) \in Seq(S)
                        /\ Len(Tail(q)) = Len(q) - 1 /\ Len(q) > 0
  OBVIOUS

LEMMA ClientTypes ==
  ASSUME TypeInv,
         \/ \E c \in Calls : SendCall(c) \/ SendCancel(c)
         \/ SendPing \/ ConnEnds \/ CtxEnds
  PROVE  TypeInv'
<1> USE DEF TypeInv, Holding
<1>1. ASSUME NEW c \in Calls, SendCall(c) PROVE TypeInv'
  <2>1. [kind |-> "call", call |-> c] \in Frames
    BY DEF Frames
  <2>2. wire' \in Seq(Frames)
    BY <1>1, <2>1, QueueTypes DEF SendCall, TypeOK
  <2> QED  BY <1>1, <2>2 DEF SendCall, TypeOK, handlerVars
<1>2. ASSUME NEW c \in Calls, SendCancel(c) PROVE TypeInv'
  <2>1. [kind |-> "cancel", call |-> c] \in Frames
    BY DEF Frames
  <2>2. wire' \in Seq(Frames)
    BY <1>2, <2>1, QueueTypes DEF SendCancel, TypeOK
  <2> QED  BY <1>2, <2>2 DEF SendCancel, TypeOK, handlerVars
<1>3. CASE ConnEnds
  BY <1>3 DEF ConnEnds, TypeOK, clientVars, handlerVars
<1>4. CASE CtxEnds
  BY <1>4 DEF CtxEnds, TypeOK, clientVars, handlerVars
<1>5. CASE SendPing
  <2>1. wire' \in Seq(Frames)
    BY <1>5, QueueTypes DEF SendPing, TypeOK, Frames
  <2> QED  BY <1>5, <2>1 DEF SendPing, TypeOK, clientVars, handlerVars
<1> QED  BY <1>1, <1>2, <1>3, <1>4, <1>5

LEMMA RTypes ==
  ASSUME TypeInv, R
  PROVE  TypeInv'
<1> USE DEF TypeInv, Holding
<1>1. CASE RLoop
  BY <1>1 DEF RLoop, TypeOK, clientVars, handlerVars
<1>2. CASE RRead
  <2>1. rhold' \in Frames /\ wire' \in Seq(Frames)
    BY <1>2, QueueTypes DEF RRead, TypeOK
  <2> QED  BY <1>2, <2>1 DEF RRead, TypeOK, clientVars, handlerVars
<1>3. CASE RPush
  <2>1. frameQ' \in Seq(Frames) /\ Len(frameQ') <= FrameCap
    BY <1>3, QueueTypes, ServerAssumption DEF RPush, TypeOK
  <2> QED  BY <1>3, <2>1 DEF RPush, TypeOK, clientVars, handlerVars
<1>4. CASE RReadErr
  BY <1>4 DEF RReadErr, TypeOK, clientVars, handlerVars
<1>5. CASE RCloseInFlight
  BY <1>5 DEF RCloseInFlight, TypeOK, clientVars
<1>6. CASE RReplace
  BY <1>6 DEF RReplace, TypeOK, clientVars
<1> QED  BY <1>1, <1>2, <1>3, <1>4, <1>5, <1>6 DEF R

LEMMA FirstStepRange == \A c : FirstStep(c) \in {"running", "finishing", "writing"}
  BY DEF FirstStep

LEMMA WTypes ==
  ASSUME TypeInv, W
  PROVE  TypeInv'
<1> USE DEF TypeInv, Holding
<1>1. CASE WFrame
  <2>1. Head(frameQ) \in Frames /\ frameQ' \in Seq(Frames) /\ Len(frameQ') <= FrameCap
    BY <1>1, QueueTypes, ServerAssumption DEF WFrame, TypeOK
  <2>2. Head(frameQ).kind \in {"call", "cancel"} => Head(frameQ).call \in Calls
    BY <2>1 DEF Frames, Ping
  <2>3. /\ handling' \subseteq Calls /\ cancelled' \subseteq Calls /\ garbled' \subseteq Calls
        /\ hpc' \in [Calls -> {"none", "running", "registering", "writing", "finishing", "gone"}]
        /\ registering' \in Calls \cup {NoCall}
        /\ pongs' \in 0 .. PongCap /\ wpc' \in {"select", "pong", "gone"}
    <3>1. CASE Head(frameQ).kind = "call" /\ handleCall(Head(frameQ).call)
               /\ UNCHANGED <<pongs, wpc>>
      BY <2>2, <3>1, FirstStepRange DEF handleCall, TypeOK
    <3>2. CASE Head(frameQ).kind = "cancel" /\ cancelCtx(Head(frameQ).call)
               /\ UNCHANGED <<pongs, wpc>>
      BY <2>2, <3>2 DEF cancelCtx, TypeOK
    <3>3. CASE answerPing /\ UNCHANGED handlerVars
      <4>1. pongs' \in 0 .. PongCap /\ wpc' \in {"select", "pong", "gone"}
        BY <3>3, ServerAssumption DEF answerPing, TypeOK
      <4> QED  BY <3>3, <4>1 DEF handlerVars, TypeOK
    <3> QED  BY <1>1, <3>1, <3>2, <3>3 DEF WFrame
  <2> QED  BY <1>1, <2>1, <2>3 DEF WFrame, TypeOK, clientVars
<1>2. CASE WWrite
  <2>1. writeQ' \in Seq(Messages) /\ Len(writeQ') <= WriteCap
    BY <1>2, QueueTypes, ServerAssumption DEF WWrite, TypeOK, Messages
  <2>2. exitCh' \in BOOLEAN /\ wpc' \in {"select", "gone"}
    BY <1>2 DEF WWrite, TypeOK
  <2>3. ASSUME conn = "up" PROVE answered' \in [Calls -> Nat]
    <3>1. answered' = [c \in Calls |-> answered[c] + IF c = Head(writeQ) THEN 1 ELSE 0]
      BY <1>2, <2>3 DEF WWrite
    <3>2. answered \in [Calls -> Nat]
      BY DEF TypeOK
    <3> QED  BY <3>1, <3>2
  <2>4. ASSUME conn # "up" PROVE answered' \in [Calls -> Nat]
    BY <1>2, <2>4 DEF WWrite, TypeOK
  <2>5. answered' \in [Calls -> Nat]
    BY <2>3, <2>4
  <2> QED  BY <1>2, <2>1, <2>2, <2>5 DEF WWrite, TypeOK, handlerVars, Messages
<1>3. CASE WLeave
  BY <1>3 DEF WLeave, TypeOK, clientVars, handlerVars
<1>4. CASE WPong
  <2>1. pongs' \in 0 .. PongCap
    BY <1>4, ServerAssumption DEF WPong, TypeOK
  <2> QED  BY <1>4, <2>1 DEF WPong, TypeOK, clientVars, handlerVars
<1> QED  BY <1>1, <1>2, <1>3, <1>4 DEF W

LEMMA HTypes ==
  ASSUME TypeInv, (\E c \in Calls : H(c)) \/ Announce
  PROVE  TypeInv'
<1> USE DEF TypeInv, Holding
<1>1. ASSUME NEW c \in Calls, HReturn(c) PROVE TypeInv'
  <2>1. hpc' \in [Calls -> {"none", "running", "registering", "writing", "finishing", "gone"}]
    BY <1>1 DEF HReturn, TypeOK
  <2>2. garbled' \subseteq Calls
    BY <1>1 DEF HReturn, TypeOK
  <2> QED  BY <1>1, <2>1, <2>2 DEF HReturn, TypeOK, clientVars
<1>2. ASSUME NEW c \in Calls, HRegister(c) PROVE TypeInv'
  BY <1>2 DEF HRegister, TypeOK, clientVars
<1>3. ASSUME NEW c \in Calls, HWrite(c) PROVE TypeInv'
  <2>1. writeQ' \in Seq(Messages) /\ Len(writeQ') <= WriteCap
    <3>1. (IF c \in garbled THEN NoCall ELSE c) \in Messages /\ writeQ \in Seq(Messages)
      BY DEF Messages, TypeOK
    <3> QED  BY <1>3, <3>1, QueueTypes, ServerAssumption DEF HWrite, TypeOK
  <2> QED  BY <1>3, <2>1 DEF HWrite, TypeOK, clientVars, Messages
<1>4. ASSUME NEW c \in Calls, HDone(c) PROVE TypeInv'
  BY <1>4 DEF HDone, TypeOK, clientVars
<1>5. CASE Announce
  <2>1. registering \in Calls
    BY <1>5 DEF Announce, TypeOK
  <2>2. writeQ' \in Seq(Messages) /\ Len(writeQ') <= WriteCap
    BY <1>5, <2>1, QueueTypes, ServerAssumption DEF Announce, TypeOK, Messages
  <2> QED  BY <1>5, <2>2 DEF Announce, TypeOK, clientVars, Messages
<1> QED  BY <1>1, <1>2, <1>3, <1>4, <1>5 DEF H

LEMMA StepTypes == TypeInv /\ [Next]_vars => TypeInv'
<1> SUFFICES ASSUME TypeInv, [Next]_vars PROVE TypeInv'
  OBVIOUS
<1>1. CASE UNCHANGED vars
  BY <1>1 DEF vars, TypeInv, TypeOK, Holding
<1> QED  BY <1>1, ClientTypes, RTypes, WTypes, HTypes DEF Next

-----------------------------------------------------------------------------
(* The table                                                               *)

(* A step of W, or of a handler, changes the table only for its own call.  *)
LEMMA TableStep ==
  ASSUME TypeInv, [Next]_vars, HandlingAgrees
  PROVE  HandlingAgrees'
<1> USE DEF TypeInv
<1>1. SUFFICES ASSUME ~Swept'
               PROVE  handling' = {c \in Calls : /\ Req[c].hasID
                                                 /\ hpc'[c] # "none"
                                                 /\ hpc'[c] = "gone" => Keeps[c]}
  BY DEF HandlingAgrees
<1>2. ~Swept
  BY <1>1 DEF Next, R, W, H, vars, Swept, SendCall, SendCancel, SendPing, ConnEnds, CtxEnds,
     RLoop, RRead, RPush, RReadErr, RCloseInFlight, RReplace, WFrame, WWrite, WPong, WLeave,
     HReturn, HRegister, HWrite, HDone, Announce
<1>3. handling = {c \in Calls : /\ Req[c].hasID
                                /\ hpc[c] # "none"
                                /\ hpc[c] = "gone" => Keeps[c]}
  BY <1>2 DEF HandlingAgrees
<1>4. CASE UNCHANGED <<handling, hpc>>
  BY <1>3, <1>4
<1>5. CASE WFrame
  <2>1. Head(frameQ) \in Frames
    BY <1>5, QueueTypes DEF WFrame, TypeOK
  <2>2. Head(frameQ).kind = "call" => Head(frameQ).call \in Calls
    BY <2>1 DEF Frames, Ping
  <2>3. CASE Head(frameQ).kind = "call" /\ handleCall(Head(frameQ).call)
    BY <1>3, <2>2, <2>3, FirstStepRange DEF handleCall, TypeOK
  <2>4. CASE cancelCtx(Head(frameQ).call)
    BY <1>3, <2>4 DEF cancelCtx
  <2>5. CASE UNCHANGED handlerVars
    BY <1>4, <2>5 DEF handlerVars
  <2> QED  BY <1>5, <2>3, <2>4, <2>5 DEF WFrame
<1>6. ASSUME NEW c \in Calls, HReturn(c) \/ HRegister(c) \/ HWrite(c)
      PROVE  HandlingAgrees'
  <2>1. /\ hpc[c] \in {"running", "registering", "writing"}
        /\ hpc'[c] \in {"registering", "writing", "finishing"}
        /\ \A d \in Calls \ {c} : hpc'[d] = hpc[d]
        /\ handling' = handling
    BY <1>6 DEF HReturn, HRegister, HWrite, TypeOK
  <2> QED  BY <1>3, <2>1 DEF HandlingAgrees
<1>7. ASSUME NEW c \in Calls, HDone(c)
      PROVE  HandlingAgrees'
  <2>1. /\ hpc[c] = "finishing" /\ hpc'[c] = "gone"
        /\ \A d \in Calls \ {c} : hpc'[d] = hpc[d]
        /\ handling' = IF Keeps[c] THEN handling ELSE handling \ {c}
    BY <1>7 DEF HDone, TypeOK
  <2> QED  BY <1>3, <2>1 DEF HandlingAgrees
<1>8. \/ UNCHANGED <<handling, hpc>> \/ WFrame
      \/ \E c \in Calls : HReturn(c) \/ HRegister(c) \/ HWrite(c) \/ HDone(c)
  BY <1>1 DEF Next, R, W, H, vars, Swept, SendCall, SendCancel, SendPing, ConnEnds, CtxEnds,
     RLoop, RRead, RPush, RReadErr, RCloseInFlight, RReplace, WWrite, WPong, WLeave, Announce,
     handlerVars
<1> QED  BY <1>1, <1>4, <1>5, <1>6, <1>7, <1>8 DEF HandlingAgrees
-----------------------------------------------------------------------------
(* Frames on their way from the client to W                                *)

In(q, f) == \E i \in 1 .. Len(q) : q[i] = f
Once(q, f) == \A i, j \in 1 .. Len(q) : q[i] = f /\ q[j] = f => i = j
Held(f) == rpc = "push" /\ rhold = f
Underway(f) == In(wire, f) \/ Held(f) \/ In(frameQ, f)

CallFrame(c) == [kind |-> "call", call |-> c]
CancelFrame(c) == [kind |-> "cancel", call |-> c]

(* The frame of a call is in one place, and only until the call is handled.*)
FramesOnce ==
  \A c \in Calls : LET f == CallFrame(c) IN
    /\ Once(wire, f) /\ Once(frameQ, f)
    /\ In(wire, f) => ~Held(f) /\ ~In(frameQ, f)
    /\ Held(f) => ~In(frameQ, f)
    /\ Underway(f) => c \in sentCall /\ hpc[c] = "none"
    /\ c \notin sentCall => hpc[c] = "none"

CancelsSent == \A c \in Calls : Underway(CancelFrame(c)) => c \in sentCancel

FrameInv == TypeInv /\ FramesOnce /\ CancelsSent

LEMMA AppendIn ==
  ASSUME NEW q \in Seq(Frames), NEW f \in Frames, NEW g
  PROVE  /\ In(Append(q, f), g) <=> In(q, g) \/ f = g
         /\ Once(q, g) /\ ~(f = g /\ In(q, g)) => Once(Append(q, f), g)
<1>1. /\ Len(Append(q, f)) = Len(q) + 1 /\ Len(q) \in Nat
      /\ \A i \in 1 .. Len(q) : Append(q, f)[i] = q[i]
      /\ Append(q, f)[Len(q) + 1] = f
  OBVIOUS
<1>2. \A i \in 1 .. Len(Append(q, f)) : \/ i \in 1 .. Len(q) /\ Append(q, f)[i] = q[i]
                                        \/ i = Len(q) + 1 /\ Append(q, f)[i] = f
  BY <1>1
<1>3. /\ \A i \in 1 .. Len(q) : i \in 1 .. Len(Append(q, f)) /\ Append(q, f)[i] = q[i]
      /\ Len(q) + 1 \in 1 .. Len(Append(q, f))
  BY <1>1
<1>4. In(Append(q, f), g) => In(q, g) \/ f = g
  BY <1>2 DEF In
<1>5. In(q, g) \/ f = g => In(Append(q, f), g)
  BY <1>1, <1>3 DEF In
<1>6. Once(q, g) /\ ~(f = g /\ In(q, g)) => Once(Append(q, f), g)
  BY <1>2 DEF In, Once
<1> QED  BY <1>4, <1>5, <1>6

LEMMA TailIn ==
  ASSUME NEW q \in Seq(Frames), q # <<>>, NEW g
  PROVE  /\ In(Tail(q), g) => In(q, g)
         /\ Head(q) = g => In(q, g)
         /\ Once(q, g) => Once(Tail(q), g)
         /\ Once(q, g) /\ Head(q) = g => ~In(Tail(q), g)
<1>1. /\ Len(Tail(q)) = Len(q) - 1 /\ Len(q) \in Nat /\ Len(q) > 0
      /\ \A i \in 1 .. Len(q) - 1 : Tail(q)[i] = q[i + 1]
      /\ Head(q) = q[1]
  OBVIOUS
<1>2. \A i \in 1 .. Len(Tail(q)) : i + 1 \in 1 .. Len(q) /\ i + 1 # 1 /\ Tail(q)[i] = q[i + 1]
  BY <1>1
<1>3. 1 \in 1 .. Len(q)
  BY <1>1
<1>4. In(Tail(q), g) => In(q, g)
  BY <1>2 DEF In
<1>5. Head(q) = g => In(q, g)
  BY <1>1, <1>3 DEF In
<1>6. Once(q, g) => Once(Tail(q), g)
  BY <1>2, <1>1 DEF Once
<1>7. Once(q, g) /\ Head(q) = g => ~In(Tail(q), g)
  BY <1>1, <1>2, <1>3 DEF In, Once
<1> QED  BY <1>4, <1>5, <1>6, <1>7

LEMMA FramesAre ==
  /\ \A c \in Calls : CallFrame(c) \in Frames /\ CancelFrame(c) \in Frames
  /\ \A f \in Frames : /\ f # Ping => f.call \in Calls
                       /\ f.kind = "call" => f # Ping /\ f = CallFrame(f.call)
                       /\ f.kind = "cancel" => f # Ping /\ f = CancelFrame(f.call)
  /\ \A c, d \in Calls : /\ CallFrame(c) # CancelFrame(d)
                         /\ CallFrame(c) = CallFrame(d) => c = d
                         /\ CancelFrame(c) = CancelFrame(d) => c = d
                         /\ CallFrame(c) # Ping /\ CancelFrame(c) # Ping
<1>1. \A c \in Calls : CallFrame(c) \in Frames /\ CancelFrame(c) \in Frames
  BY DEF CallFrame, CancelFrame, Frames
<1>2. \A f \in Frames : /\ f # Ping => f.call \in Calls
                        /\ f.kind = "call" => f # Ping /\ f = CallFrame(f.call)
                        /\ f.kind = "cancel" => f # Ping /\ f = CancelFrame(f.call)
  BY DEF CallFrame, CancelFrame, Frames, Ping
<1>3. \A c, d \in Calls : /\ CallFrame(c) # CancelFrame(d)
                          /\ CallFrame(c) = CallFrame(d) => c = d
                          /\ CancelFrame(c) = CancelFrame(d) => c = d
                          /\ CallFrame(c) # Ping /\ CancelFrame(c) # Ping
  <2> TAKE c, d \in Calls
  <2>1. /\ CallFrame(c).kind = "call" /\ CancelFrame(d).kind = "cancel"
        /\ CancelFrame(c).kind = "cancel" /\ Ping.kind = "ping"
        /\ CallFrame(c).call = c /\ CallFrame(d).call = d
        /\ CancelFrame(c).call = c /\ CancelFrame(d).call = d
    BY DEF CallFrame, CancelFrame, Ping
  <2> QED  BY <2>1
<1> QED  BY <1>1, <1>2, <1>3

(* A step that moves no frame and starts no call.                          *)
LEMMA FramesStay ==
  ASSUME FramesOnce, CancelsSent, UNCHANGED <<wire, frameQ, sentCall, sentCancel>>,
         \A f \in Frames : Held(f)' => Held(f),
         \A c \in Calls : hpc[c] = "none" => hpc'[c] = "none"
  PROVE  FramesOnce' /\ CancelsSent'
<1>1. \A f : /\ In(wire, f)' <=> In(wire, f)
             /\ In(frameQ, f)' <=> In(frameQ, f)
             /\ Once(wire, f)' <=> Once(wire, f)
             /\ Once(frameQ, f)' <=> Once(frameQ, f)
  BY DEF In, Once
<1>2. \A f \in Frames : Underway(f)' => Underway(f)
  BY <1>1 DEF Underway
<1>3. FramesOnce'
  BY <1>1, <1>2, FramesAre DEF FramesOnce
<1>4. CancelsSent'
  BY <1>2, FramesAre DEF CancelsSent
<1> QED  BY <1>3, <1>4

(* The client sends a call, or a cancel.                                   *)
LEMMA FramesSent ==
  ASSUME FrameInv, NEW c \in Calls, SendCall(c) \/ SendCancel(c)
  PROVE  FramesOnce' /\ CancelsSent'
<1> DEFINE f == IF SendCall(c) THEN CallFrame(c) ELSE CancelFrame(c)
<1>1. wire' = Append(wire, f) /\ f \in Frames /\ wire \in Seq(Frames)
  BY FramesAre DEF SendCall, SendCancel, CallFrame, CancelFrame, FrameInv, TypeInv, TypeOK
<1>2. UNCHANGED <<frameQ, rpc, rhold, hpc>>
  BY DEF SendCall, SendCancel, handlerVars
<1> HIDE DEF f
<1>3. \A g \in Frames : /\ In(wire, g)' <=> In(wire, g) \/ f = g
                        /\ Once(wire, g) /\ ~(f = g /\ In(wire, g)) => Once(wire, g)'
  BY <1>1, AppendIn
<1>4. \A g \in Frames : /\ In(frameQ, g)' <=> In(frameQ, g)
                        /\ Once(frameQ, g)' <=> Once(frameQ, g)
                        /\ Held(g)' <=> Held(g)
  BY <1>2 DEF In, Once, Held
<1>5. CASE SendCall(c)
  <2>1. f = CallFrame(c) /\ c \notin sentCall /\ sentCall' = sentCall \cup {c}
        /\ sentCancel' = sentCancel
    BY <1>5 DEF f, SendCall
  <2>2. FramesOnce'
    BY <1>2, <1>3, <1>4, <2>1, FramesAre DEF FrameInv, FramesOnce, Underway
  <2>3. CancelsSent'
    BY <1>3, <1>4, <2>1, FramesAre DEF FrameInv, CancelsSent, Underway
  <2> QED  BY <2>2, <2>3
<1>6. CASE ~SendCall(c)
  <2>1. f = CancelFrame(c) /\ sentCall' = sentCall /\ sentCancel' = sentCancel \cup {c}
    BY <1>6 DEF f, SendCancel
  <2>2. FramesOnce'
    BY <1>2, <1>3, <1>4, <2>1, FramesAre DEF FrameInv, FramesOnce, Underway
  <2>3. CancelsSent'
    BY <1>3, <1>4, <2>1, FramesAre DEF FrameInv, CancelsSent, Underway
  <2> QED  BY <2>2, <2>3
<1> QED  BY <1>5, <1>6

(* The client sends a ping, which is neither.                              *)
LEMMA FramesPinged ==
  ASSUME FrameInv, SendPing
  PROVE  FramesOnce' /\ CancelsSent'
<1>1. /\ wire' = Append(wire, Ping) /\ Ping \in Frames /\ wire \in Seq(Frames)
      /\ UNCHANGED <<frameQ, rpc, rhold, hpc, sentCall, sentCancel>>
  BY DEF SendPing, Frames, FrameInv, TypeInv, TypeOK, clientVars, handlerVars
<1>2. \A g \in Frames \ {Ping} : /\ In(wire, g)' <=> In(wire, g)
                                 /\ Once(wire, g) => Once(wire, g)'
  BY <1>1, AppendIn
<1>3. \A g \in Frames : /\ In(frameQ, g)' <=> In(frameQ, g)
                        /\ Once(frameQ, g)' <=> Once(frameQ, g)
                        /\ Held(g)' <=> Held(g)
  BY <1>1 DEF In, Once, Held
<1>4. FramesOnce'
  BY <1>1, <1>2, <1>3, FramesAre DEF FrameInv, FramesOnce, Underway
<1>5. CancelsSent'
  BY <1>1, <1>2, <1>3, FramesAre DEF FrameInv, CancelsSent, Underway
<1> QED  BY <1>4, <1>5

(* R reads a frame, and hands it over.                                     *)
LEMMA FramesRead ==
  ASSUME FrameInv, RRead
  PROVE  FramesOnce' /\ CancelsSent'
<1>1. /\ wire \in Seq(Frames) /\ wire # <<>> /\ wire' = Tail(wire)
      /\ rhold' = Head(wire) /\ rpc' = "push" /\ rpc = "read"
      /\ UNCHANGED <<frameQ, hpc, sentCall, sentCancel>>
  BY DEF RRead, FrameInv, TypeInv, TypeOK, clientVars, handlerVars
<1>2. \A g \in Frames : /\ In(wire, g)' => In(wire, g)
                        /\ Held(g)' => In(wire, g)
                        /\ Once(wire, g) => Once(wire, g)'
                        /\ Once(wire, g) /\ Held(g)' => ~In(wire, g)'
  BY <1>1, TailIn DEF Held
<1>3. \A g \in Frames : /\ In(frameQ, g)' <=> In(frameQ, g)
                        /\ Once(frameQ, g)' <=> Once(frameQ, g)
  BY <1>1 DEF In, Once
<1>4. FramesOnce'
  BY <1>1, <1>2, <1>3, FramesAre DEF FrameInv, FramesOnce, Underway
<1>5. CancelsSent'
  BY <1>1, <1>2, <1>3, FramesAre DEF FrameInv, CancelsSent, Underway
<1> QED  BY <1>4, <1>5

LEMMA FramesPush ==
  ASSUME FrameInv, RPush
  PROVE  FramesOnce' /\ CancelsSent'
<1>1. /\ frameQ \in Seq(Frames) /\ frameQ' = Append(frameQ, rhold)
      /\ rhold \in Frames /\ rpc' = "loop" /\ rpc = "push"
      /\ UNCHANGED <<wire, hpc, sentCall, sentCancel>>
  BY DEF RPush, FrameInv, TypeInv, TypeOK, Holding, clientVars, handlerVars
<1>2. \A g \in Frames : /\ In(frameQ, g)' <=> In(frameQ, g) \/ Held(g)
                        /\ Once(frameQ, g) /\ ~(Held(g) /\ In(frameQ, g)) => Once(frameQ, g)'
                        /\ ~Held(g)'
  BY <1>1, AppendIn DEF Held
<1>3. \A g \in Frames : /\ In(wire, g)' <=> In(wire, g)
                        /\ Once(wire, g)' <=> Once(wire, g)
  BY <1>1 DEF In, Once
<1>4. FramesOnce'
  BY <1>1, <1>2, <1>3, FramesAre DEF FrameInv, FramesOnce, Underway
<1>5. CancelsSent'
  BY <1>1, <1>2, <1>3, FramesAre DEF FrameInv, CancelsSent, Underway
<1> QED  BY <1>4, <1>5

(* W handles a frame: if it is a call, it is the last time it is seen.     *)
LEMMA FramesHandled ==
  ASSUME FrameInv, WFrame
  PROVE  FramesOnce' /\ CancelsSent'
<1> DEFINE f == Head(frameQ)
<1>1. /\ frameQ \in Seq(Frames) /\ frameQ # <<>> /\ frameQ' = Tail(frameQ) /\ f \in Frames
      /\ UNCHANGED <<wire, rpc, rhold, sentCall, sentCancel>>
  BY QueueTypes DEF WFrame, FrameInv, TypeInv, TypeOK, clientVars
<1>2. \A c \in Calls : hpc'[c] = hpc[c] \/ f = CallFrame(c)
  <2>1. CASE f.kind = "call"
    <3>1. handleCall(f.call) /\ f = CallFrame(f.call)
      BY <1>1, <2>1, FramesAre DEF WFrame, Ping
    <3> HIDE DEF f
    <3> QED  BY <3>1 DEF handleCall, FrameInv, TypeInv, TypeOK
  <2>2. CASE f.kind # "call"
    BY <2>2 DEF WFrame, cancelCtx, handlerVars
  <2> QED  BY <2>1, <2>2
<1>3. \A g \in Frames : /\ In(frameQ, g)' => In(frameQ, g)
                        /\ f = g => In(frameQ, g)
                        /\ Once(frameQ, g) => Once(frameQ, g)'
                        /\ Once(frameQ, g) /\ f = g => ~In(frameQ, g)'
  BY <1>1, TailIn
<1>4. \A g \in Frames : /\ In(wire, g)' <=> In(wire, g)
                        /\ Once(wire, g)' <=> Once(wire, g)
                        /\ Held(g)' <=> Held(g)
  BY <1>1 DEF In, Once, Held
<1> HIDE DEF f
<1>5. FramesOnce'
  BY <1>1, <1>2, <1>3, <1>4, FramesAre DEF FrameInv, FramesOnce, Underway
<1>6. CancelsSent'
  BY <1>1, <1>3, <1>4, FramesAre DEF FrameInv, CancelsSent, Underway
<1> QED  BY <1>5, <1>6

LEMMA FramesStep ==
  ASSUME FrameInv, [Next]_vars
  PROVE  FrameInv'
<1>1. \/ \E c \in Calls : SendCall(c) \/ SendCancel(c)
      \/ SendPing \/ RRead \/ RPush \/ WFrame
      \/ /\ UNCHANGED <<wire, frameQ, sentCall, sentCancel>>
         /\ \A f \in Frames : Held(f)' => Held(f)
         /\ \A c \in Calls : hpc[c] = "none" => hpc'[c] = "none"
  <2>1. ASSUME NEW c \in Calls, H(c)
        PROVE  /\ UNCHANGED <<wire, frameQ, sentCall, sentCancel, rpc, rhold>>
               /\ \A d \in Calls : hpc[d] = "none" => hpc'[d] = "none"
    <3>1. UNCHANGED <<wire, frameQ, sentCall, sentCancel, rpc, rhold>>
      BY <2>1 DEF H, HReturn, HRegister, HWrite, HDone, clientVars
    <3>2. hpc[c] # "none" /\ \A d \in Calls \ {c} : hpc'[d] = hpc[d]
      BY <2>1 DEF H, HReturn, HRegister, HWrite, HDone, FrameInv, TypeInv, TypeOK
    <3> QED  BY <3>1, <3>2
  <2>2. CASE RLoop \/ RReadErr \/ RCloseInFlight \/ RReplace \/ WWrite \/ WPong \/ WLeave
             \/ Announce \/ ConnEnds \/ CtxEnds \/ UNCHANGED vars
    <3>1. UNCHANGED <<wire, frameQ, sentCall, sentCancel, rhold, hpc>>
      BY <2>2 DEF RLoop, RReadErr, RCloseInFlight, RReplace, WWrite, WPong, WLeave,
         Announce, ConnEnds, CtxEnds, vars, clientVars, handlerVars
    <3>2. rpc' = "push" => rpc = "push"
      BY <2>2 DEF RLoop, RReadErr, RCloseInFlight, RReplace, WWrite, WPong, WLeave,
         Announce, ConnEnds, CtxEnds, vars
    <3> QED  BY <3>1, <3>2 DEF Held
  <2> QED  BY <2>1, <2>2 DEF Next, R, W, Held
<1>2. FramesOnce' /\ CancelsSent'
  BY <1>1, FramesSent, FramesPinged, FramesRead, FramesPush, FramesHandled, FramesStay DEF FrameInv
<1> QED  BY <1>2, StepTypes DEF FrameInv

LEMMA FramesInit == Init => FrameInv
<1> SUFFICES ASSUME Init PROVE FrameInv
  OBVIOUS
<1>1. \A f : ~Underway(f) /\ Once(wire, f) /\ Once(frameQ, f)
  BY DEF Init, Underway, In, Once, Held
<1>2. \A c \in Calls : hpc[c] = "none"
  BY DEF Init
<1>3. FramesOnce /\ CancelsSent
  BY <1>1, <1>2 DEF FramesOnce, CancelsSent, Underway
<1> QED  BY <1>3, InitTypes DEF FrameInv

-----------------------------------------------------------------------------
(* Whose context is cancelled                                              *)

LEMMA NamedStep ==
  ASSUME FrameInv, [Next]_vars, OnlyNamedCancelled
  PROVE  OnlyNamedCancelled'
<1> USE DEF FrameInv, TypeInv
<1>1. Swept => Swept'
  BY DEF Next, R, W, H, vars, Swept, SendCall, SendCancel, SendPing, ConnEnds, CtxEnds,
     RLoop, RRead, RPush, RReadErr, RCloseInFlight, RReplace, WFrame, WWrite, WPong, WLeave,
     HReturn, HRegister, HWrite, HDone, Announce
<1>2. sentCancel \subseteq sentCancel'
  BY DEF Next, R, W, H, vars, SendCall, SendCancel, SendPing, ConnEnds, CtxEnds,
     RLoop, RRead, RPush, RReadErr, RCloseInFlight, RReplace, WFrame, WWrite, WPong, WLeave,
     HReturn, HRegister, HWrite, HDone, Announce, clientVars
<1>3. CASE WFrame
  <2> DEFINE f == Head(frameQ)
  <2>1. f \in Frames /\ In(frameQ, f)
    BY <1>3, QueueTypes, TailIn DEF WFrame, TypeOK
  <2>2. CASE f.kind = "call"
    <3>1. handleCall(f.call) /\ f = CallFrame(f.call) /\ f.call \in Calls
      BY <1>3, <2>1, <2>2, FramesAre DEF WFrame, Ping
    <3>2. hpc[f.call] = "none"
      BY <2>1, <3>1 DEF FramesOnce, Underway
    <3> HIDE DEF f
    <3>3. cancelled' = cancelled /\ \A d \in Calls : hpc[d] = "gone" => hpc'[d] = "gone"
      BY <3>1, <3>2 DEF handleCall, TypeOK
    <3> QED  BY <1>1, <1>2, <3>3 DEF OnlyNamedCancelled, TypeOK
  <2>3. CASE f.kind = "cancel"
    <3>1. cancelCtx(f.call) /\ f = CancelFrame(f.call) /\ f.call \in Calls
      BY <1>3, <2>1, <2>3, FramesAre DEF WFrame, Ping
    <3>2. f.call \in sentCancel
      BY <2>1, <3>1 DEF CancelsSent, Underway
    <3> HIDE DEF f
    <3>3. cancelled' \subseteq cancelled \cup {f.call} /\ hpc' = hpc
      BY <3>1 DEF cancelCtx
    <3> QED  BY <1>1, <1>2, <3>2, <3>3 DEF OnlyNamedCancelled
  <2>4. CASE UNCHANGED handlerVars
    BY <1>1, <1>2, <2>4 DEF OnlyNamedCancelled, handlerVars
  <2> QED  BY <1>3, <2>2, <2>3, <2>4 DEF WFrame
<1>4. CASE RCloseInFlight
  BY <1>4 DEF RCloseInFlight, Swept, OnlyNamedCancelled
<1>5. ASSUME NEW c \in Calls, HReturn(c) \/ HRegister(c) \/ HWrite(c)
      PROVE  OnlyNamedCancelled'
  <2>1. hpc[c] # "gone" /\ (\A d \in Calls \ {c} : hpc'[d] = hpc[d]) /\ cancelled' = cancelled
    BY <1>5 DEF HReturn, HRegister, HWrite, TypeOK
  <2> QED  BY <1>1, <1>2, <2>1 DEF OnlyNamedCancelled, TypeOK
<1>6. ASSUME NEW c \in Calls, HDone(c)
      PROVE  OnlyNamedCancelled'
  <2>1. /\ hpc'[c] = "gone" /\ \A d \in Calls \ {c} : hpc'[d] = hpc[d]
        /\ hpc[c] # "gone"
        /\ cancelled' = IF Keeps[c] THEN cancelled ELSE cancelled \cup {c}
    BY <1>6 DEF HDone, TypeOK
  <2> QED  BY <1>1, <1>2, <2>1 DEF OnlyNamedCancelled, TypeOK
<1>7. CASE UNCHANGED <<cancelled, hpc>>
  BY <1>1, <1>2, <1>7 DEF OnlyNamedCancelled
<1> QED
  BY <1>3, <1>4, <1>5, <1>6, <1>7
  DEF Next, R, W, H, vars, SendCall, SendCancel, SendPing, ConnEnds, CtxEnds,
      RLoop, RRead, RPush, RReadErr, RReplace, WWrite, WPong, WLeave, Announce, handlerVars

-----------------------------------------------------------------------------
(* One answer to each request                                              *)

(* The positions of c in a queue of answers, and how many they are.        *)
Pos(q, c) == {i \in DOMAIN q : q[i] = c}
Count(q, c) == Cardinality(Pos(q, c))

LEMMA CountIsNat ==
  ASSUME NEW q \in Seq(Messages), NEW c
  PROVE  IsFiniteSet(Pos(q, c)) /\ Count(q, c) \in Nat
<1> DEFINE P == Pos(q, c)
<1>1. Len(q) \in Nat /\ DOMAIN q = 1 .. Len(q)
  OBVIOUS
<1>2. IsFiniteSet(1 .. Len(q))
  BY <1>1, FS_Interval
<1>3. P \in SUBSET (1 .. Len(q))
  BY <1>1 DEF Pos
<1> HIDE DEF P
<1>4. IsFiniteSet(P)
  BY <1>2, <1>3, FS_Subset
<1>5. Cardinality(P) \in Nat
  BY <1>4, FS_CardinalityType
<1> QED  BY <1>4, <1>5 DEF P, Count

LEMMA CountAppend ==
  ASSUME NEW q \in Seq(Messages), NEW d \in Messages, NEW c
  PROVE  Count(Append(q, d), c) = Count(q, c) + (IF d = c THEN 1 ELSE 0)
<1> DEFINE P == Pos(q, c)
           P2 == Pos(Append(q, d), c)
           n == Len(q) + 1
<1>1. /\ Len(q) \in Nat /\ DOMAIN q = 1 .. Len(q)
      /\ DOMAIN Append(q, d) = 1 .. Len(q) + 1
      /\ \A i \in 1 .. Len(q) : Append(q, d)[i] = q[i]
      /\ Append(q, d)[Len(q) + 1] = d
  OBVIOUS
<1>2. P2 = IF d = c THEN P \cup {n} ELSE P
  BY <1>1 DEF Pos
<1>3. n \notin P
  BY <1>1 DEF Pos
<1>4. IsFiniteSet(P) /\ Cardinality(P) \in Nat
  BY CountIsNat DEF Count
<1> HIDE DEF P, P2, n
<1>5. Cardinality(P \cup {n}) = Cardinality(P) + 1
  BY <1>3, <1>4, FS_AddElement
<1>6. Cardinality(P2) = Cardinality(P) + (IF d = c THEN 1 ELSE 0)
  BY <1>2, <1>4, <1>5
<1> QED  BY <1>6 DEF P, P2, Count

LEMMA CountTail ==
  ASSUME NEW q \in Seq(Messages), q # <<>>, NEW c
  PROVE  Count(q, c) = Count(Tail(q), c) + (IF Head(q) = c THEN 1 ELSE 0)
<1> DEFINE P == Pos(Tail(q), c)
           P2 == Pos(q, c) \ {1}
           f == [i \in P |-> i + 1]
<1>1. /\ Len(q) \in Nat /\ Len(q) > 0 /\ DOMAIN q = 1 .. Len(q)
      /\ Tail(q) \in Seq(Messages) /\ DOMAIN Tail(q) = 1 .. Len(q) - 1
      /\ \A i \in 1 .. Len(q) - 1 : Tail(q)[i] = q[i + 1]
      /\ Head(q) = q[1]
  OBVIOUS
<1>2. f \in Bijection(P, P2)
  <2>1. P \subseteq Nat
    BY <1>1 DEF Pos
  <2>2. f \in [P -> P2]
    BY <1>1 DEF Pos
  <2>3. \A i, j \in P : f[i] = f[j] => i = j
    BY <2>1
  <2>4. \A j \in P2 : \E i \in P : f[i] = j
    <3> TAKE j \in P2
    <3>1. j \in 2 .. Len(q) /\ q[j] = c
      BY <1>1 DEF Pos
    <3>2. j - 1 \in P /\ f[j - 1] = j
      BY <1>1, <3>1 DEF Pos
    <3> QED  BY <3>2
  <2> HIDE DEF f, P, P2
  <2> QED  BY <2>2, <2>3, <2>4, Fun_IsBij
<1>3. IsFiniteSet(P) /\ IsFiniteSet(Pos(q, c)) /\ Cardinality(P) \in Nat
  BY <1>1, CountIsNat DEF Count
<1>4. 1 \in Pos(q, c) <=> Head(q) = c
  BY <1>1 DEF Pos
<1> HIDE DEF f, P
<1>5. Cardinality(P2) = Cardinality(P)
  <2> HIDE DEF P2
  <2>1. ExistsBijection(P, P2)
    BY <1>2 DEF ExistsBijection
  <2> QED  BY <1>3, <2>1, FS_Bijection
<1>6. Cardinality(P2) = IF Head(q) = c THEN Count(q, c) - 1 ELSE Count(q, c)
  BY <1>3, <1>4, FS_RemoveElement DEF Count
<1>7. Count(q, c) \in Nat /\ Count(Tail(q), c) = Cardinality(P)
  BY CountIsNat DEF Count, P
<1> QED  BY <1>3, <1>5, <1>6, <1>7

(* What the goroutine of a handler is about to send is the answer to a     *)
(* request, never to a notification; a value that was refused belongs to a *)
(* call that has no channel to register.                                   *)
Owed ==
  /\ \A c \in Calls : hpc[c] \in {"writing", "registering"} => Req[c].hasID
  /\ \A c \in garbled : hpc[c] \in {"writing", "finishing", "gone"}

(* The calls that have been answered, those included that owe no answer.   *)
Finished(c) == hpc[c] \in {"finishing", "gone"} /\ c \notin garbled

(* A step that sends and takes no answer and starts or ends no handler.    *)
LEMMA AnswersStay ==
  ASSUME OneAnswer, UNCHANGED <<answered, writeQ, registering>>,
         \A c \in Calls : Req[c].hasID => (Finished(c)' <=> Finished(c)),
         wpc' # "gone" => wpc # "gone"
  PROVE  OneAnswer'
<1>1. \A c : AnswersTo(c)' = AnswersTo(c)
  BY DEF AnswersTo
<1>2. ASSUME NEW c \in Calls
      PROVE  IF Req[c].hasID /\ Finished(c)'
               THEN AnswersTo(c)' <= 1 /\ (wpc' # "gone" => AnswersTo(c)' = 1)
               ELSE AnswersTo(c)' = 0
  <2>1. IF Req[c].hasID /\ Finished(c)
          THEN AnswersTo(c) <= 1 /\ (wpc # "gone" => AnswersTo(c) = 1)
          ELSE AnswersTo(c) = 0
    BY DEF OneAnswer, Finished
  <2> QED  BY <1>1, <2>1
<1> QED  BY <1>2 DEF OneAnswer, Finished

(* A refusal, and what doCall returned, are answered exactly when the call *)
(* is a request.                                                           *)
LEMMA AnswersOwed ==
  ASSUME NEW c \in Calls
  PROVE  /\ FirstStep(c) = "writing" => Req[c].hasID
         /\ FirstStep(c) = "finishing" => ~Req[c].hasID
         /\ \A ret \in Returns :
              /\ Answer(Handler[c], Req[c], ret) = NoAnswer <=> ~Req[c].hasID
              /\ SendsChannel(Handler[c], Req[c], ret) => Req[c].hasID
<1>1. FirstStep(c) = "writing" => Req[c].hasID
  BY DEF FirstStep, rpcError
<1>2. ASSUME Req[c].hasID, Refused[c] # "none"
      PROVE  rpcError(Req[c], Refused[c]) # NoAnswer
  <2>1. rpcError(Req[c], Refused[c]).code = Refused[c]
    BY <1>2 DEF rpcError
  <2>2. NoAnswer.code = "none"
    BY DEF NoAnswer
  <2> QED  BY <1>2, <2>1, <2>2
<1>3. FirstStep(c) = "finishing" => ~Req[c].hasID
  BY <1>2 DEF FirstStep
<1>4. ASSUME NEW ret \in Returns
      PROVE  /\ Answer(Handler[c], Req[c], ret) = NoAnswer <=> ~Req[c].hasID
             /\ SendsChannel(Handler[c], Req[c], ret) => Req[c].hasID
  <2> DEFINE a == Answer(Handler[c], Req[c], ret)
  <2>1. ret.panics \in BOOLEAN
    BY ServerAssumption
  <2>2. ~Req[c].hasID => a = NoAnswer
    BY <2>1 DEF Answer, rpcError
  <2>3. Req[c].hasID => a.code \in {"fatal", "method", "ok"}
    BY <2>1 DEF Answer, rpcError
  <2>4. NoAnswer.code = "none"
    BY DEF NoAnswer
  <2> HIDE DEF a
  <2>5. a = NoAnswer <=> ~Req[c].hasID
    BY <2>2, <2>3, <2>4
  <2>6. a.code = "ok" => Req[c].hasID
    BY <2>2, <2>4
  <2> QED  BY <2>5, <2>6 DEF a, SendsChannel
<1> QED  BY <1>1, <1>3, <1>4

(* W starts the goroutine of a call, which is not one that has answered.   *)
LEMMA AnswersStart ==
  ASSUME FrameInv, Owed, OneAnswer, WFrame
  PROVE  Owed' /\ OneAnswer'
<1> DEFINE c == Head(frameQ).call
<1>1. Head(frameQ) \in Frames /\ In(frameQ, Head(frameQ))
  BY QueueTypes, TailIn DEF WFrame, FrameInv, TypeInv, TypeOK
<1>2. /\ UNCHANGED <<answered, writeQ, garbled>>
      /\ wpc' # "gone" => wpc # "gone"
  BY DEF WFrame, clientVars, handleCall, cancelCtx, handlerVars
<1>3. CASE Head(frameQ).kind = "call"
  <2>1. handleCall(c) /\ Head(frameQ) = CallFrame(c) /\ c \in Calls
    BY <1>1, <1>3, FramesAre DEF WFrame
  <2>2. hpc[c] = "none"
    BY <1>1, <2>1 DEF FrameInv, FramesOnce, Underway
  <2> HIDE DEF c
  <2>3. hpc' = [hpc EXCEPT ![c] = FirstStep(c)] /\ registering' = registering
    BY <2>1 DEF handleCall
  <2>4. hpc \in [Calls -> {"none", "running", "registering", "writing", "finishing", "gone"}]
    BY DEF FrameInv, TypeInv, TypeOK
  <2>5. Owed'
    BY <1>2, <2>1, <2>2, <2>3, <2>4, FirstStepRange, AnswersOwed DEF Owed
  <2>6. \A d \in Calls : Req[d].hasID =>
          (hpc'[d] \in {"finishing", "gone"} <=> hpc[d] \in {"finishing", "gone"})
    BY <2>1, <2>2, <2>3, <2>4, FirstStepRange, AnswersOwed
  <2>7. \A d \in Calls : Req[d].hasID => (Finished(d)' <=> Finished(d))
    BY <1>2, <2>6 DEF Finished
  <2> QED  BY <1>2, <2>3, <2>5, <2>7, AnswersStay
<1>4. CASE Head(frameQ).kind # "call"
  <2>1. UNCHANGED <<hpc, registering>>
    BY <1>4 DEF WFrame, cancelCtx, handlerVars
  <2> QED  BY <1>2, <2>1, AnswersStay DEF Owed, Finished
<1> QED  BY <1>3, <1>4

(* W writes an answer, or finds the connection down and leaves.            *)
LEMMA AnswersWritten ==
  ASSUME TypeInv, OneAnswer, WWrite
  PROVE  OneAnswer'
<1> DEFINE h == Head(writeQ)
<1>1. /\ writeQ \in Seq(Messages) /\ writeQ # <<>> /\ writeQ' = Tail(writeQ)
      /\ wpc = "select" /\ registering' = registering /\ hpc' = hpc /\ garbled' = garbled
      /\ answered \in [Calls -> Nat]
  BY DEF WWrite, TypeInv, TypeOK, handlerVars, Messages
<1>2. /\ conn = "up" => answered' = [c \in Calls |-> answered[c] + IF c = h THEN 1 ELSE 0]
      /\ conn # "up" => answered' = answered /\ wpc' = "gone"
  BY DEF WWrite
<1> HIDE DEF h
<1>3. ASSUME NEW c \in Calls
      PROVE  /\ AnswersTo(c)' <= AnswersTo(c)
             /\ AnswersTo(c)' \in Nat /\ AnswersTo(c) \in Nat
             /\ wpc' = "select" => AnswersTo(c)' = AnswersTo(c)
  <2>1. /\ Count(writeQ, c) = Count(writeQ', c) + (IF h = c THEN 1 ELSE 0)
        /\ Count(writeQ, c) \in Nat /\ Count(writeQ', c) \in Nat
    <3>1. Tail(writeQ) \in Seq(Messages)
      BY <1>1
    <3> QED  BY <1>1, <3>1, CountTail, CountIsNat DEF h
  <2>2. /\ answered[c] \in Nat /\ answered'[c] \in Nat
        /\ conn = "up" => answered'[c] = answered[c] + (IF h = c THEN 1 ELSE 0)
        /\ conn # "up" => answered'[c] = answered[c] /\ wpc' = "gone"
    BY <1>1, <1>2
  <2>3. /\ AnswersTo(c) = answered[c] + Count(writeQ, c) + (IF registering = c THEN 1 ELSE 0)
        /\ AnswersTo(c)' = answered'[c] + Count(writeQ', c) + (IF registering = c THEN 1 ELSE 0)
    BY <1>1 DEF AnswersTo, Count, Pos
  <2> QED  BY <2>1, <2>2, <2>3
<1>4. ASSUME NEW c \in Calls
      PROVE  IF Req[c].hasID /\ Finished(c)'
               THEN AnswersTo(c)' <= 1 /\ (wpc' # "gone" => AnswersTo(c)' = 1)
               ELSE AnswersTo(c)' = 0
  <2>1. IF Req[c].hasID /\ Finished(c)
          THEN AnswersTo(c) <= 1 /\ (wpc # "gone" => AnswersTo(c) = 1)
          ELSE AnswersTo(c) = 0
    BY DEF OneAnswer, Finished
  <2>2. Finished(c)' <=> Finished(c)
    BY <1>1 DEF Finished
  <2>3. wpc' # "gone" => wpc' = "select"
    BY <1>1 DEF WWrite
  <2> QED  BY <1>1, <1>3, <2>1, <2>2, <2>3
<1> QED  BY <1>4 DEF OneAnswer, Finished

(* The handler, or handleOutChans for it, queues its one answer, which has *)
(* no text when the value was refused.                                     *)
LEMMA AnswersQueued ==
  ASSUME TypeInv, Owed, OneAnswer, NEW c \in Calls, HRegister(c) \/ HWrite(c)
  PROVE  OneAnswer'
<1>1. /\ hpc[c] \in {"registering", "writing"} /\ Req[c].hasID
      /\ UNCHANGED <<answered, wpc, garbled>>
      /\ hpc \in [Calls -> {"none", "running", "registering", "writing", "finishing", "gone"}]
  BY DEF HRegister, HWrite, Owed, clientVars, TypeInv, TypeOK
<1>2. AnswersTo(c) = 0
  BY <1>1 DEF OneAnswer
<1>3. CASE HRegister(c) /\ hpc' = [hpc EXCEPT ![c] = "writing"]
  <2>1. UNCHANGED <<registering, writeQ>>
    BY <1>1, <1>3 DEF HRegister
  <2>2. \A d \in Calls : hpc'[d] \in {"finishing", "gone"} <=> hpc[d] \in {"finishing", "gone"}
    BY <1>1, <1>3
  <2> QED  BY <1>1, <2>1, <2>2, AnswersStay DEF Finished
<1>4. CASE hpc' = [hpc EXCEPT ![c] = "finishing"]
  <2>1. ASSUME NEW d \in Calls
        PROVE  AnswersTo(d)' = IF d = c /\ c \notin garbled THEN 1 ELSE AnswersTo(d)
    <3>1. CASE HRegister(c)
      <4>1. registering = NoCall /\ registering' = c /\ writeQ' = writeQ /\ hpc[c] = "registering"
        BY <1>1, <1>4, <3>1 DEF HRegister
      <4>2. NoCall \notin Calls /\ c \notin garbled
        BY <4>1, ServerAssumption DEF Owed
      <4>3. answered[d] \in Nat /\ Count(writeQ, d) \in Nat
        BY CountIsNat DEF TypeInv, TypeOK, Messages
      <4>4. /\ AnswersTo(d) = answered[d] + Count(writeQ, d)
            /\ AnswersTo(d)' = answered[d] + Count(writeQ, d) + (IF c = d THEN 1 ELSE 0)
        BY <1>1, <4>1, <4>2, <4>3 DEF AnswersTo, Count, Pos
      <4> QED  BY <1>2, <4>2, <4>3, <4>4
    <3>2. CASE HWrite(c)
      <4> DEFINE m == IF c \in garbled THEN NoCall ELSE c
      <4>1. /\ registering' = registering /\ writeQ' = Append(writeQ, m)
            /\ writeQ \in Seq(Messages) /\ m \in Messages /\ NoCall \notin Calls
        BY <3>2, ServerAssumption DEF HWrite, TypeInv, TypeOK, Messages
      <4>2. answered[d] \in Nat /\ Count(writeQ, d) \in Nat
        BY CountIsNat DEF TypeInv, TypeOK, Messages
      <4>3. m = d <=> (d = c /\ c \notin garbled)
        BY <4>1
      <4> HIDE DEF m
      <4>4. Count(writeQ', d) = Count(writeQ, d) + (IF m = d THEN 1 ELSE 0)
        BY <4>1, CountAppend
      <4>5. /\ AnswersTo(d) = answered[d] + Count(writeQ, d) + (IF registering = d THEN 1 ELSE 0)
            /\ AnswersTo(d)' = answered[d] + Count(writeQ', d) + (IF registering = d THEN 1 ELSE 0)
        BY <1>1, <4>1 DEF AnswersTo, Count, Pos
      <4>6. m = d => AnswersTo(d) = 0
        BY <1>2, <4>3
      <4> QED  BY <4>2, <4>3, <4>4, <4>5, <4>6
    <3> QED  BY <3>1, <3>2
  <2>2. \A d \in Calls \ {c} : hpc'[d] = hpc[d]
    BY <1>1, <1>4
  <2>3. ASSUME NEW d \in Calls
        PROVE  IF Req[d].hasID /\ Finished(d)'
                 THEN AnswersTo(d)' <= 1 /\ (wpc' # "gone" => AnswersTo(d)' = 1)
                 ELSE AnswersTo(d)' = 0
    <3>1. CASE d = c
      <4>1. hpc'[c] = "finishing"
        BY <1>1, <1>4
      <4>2. AnswersTo(c)' = IF c \notin garbled THEN 1 ELSE 0
        BY <1>2, <2>1
      <4> QED  BY <1>1, <3>1, <4>1, <4>2 DEF Finished
    <3>2. CASE d # c
      <4>1. IF Req[d].hasID /\ Finished(d)
              THEN AnswersTo(d) <= 1 /\ (wpc # "gone" => AnswersTo(d) = 1)
              ELSE AnswersTo(d) = 0
        BY DEF OneAnswer, Finished
      <4>2. Finished(d)' <=> Finished(d)
        BY <1>1, <2>2, <3>2 DEF Finished
      <4> QED  BY <1>1, <2>1, <3>2, <4>1, <4>2
    <3> QED  BY <3>1, <3>2
  <2> QED  BY <2>3 DEF OneAnswer, Finished
<1> QED  BY <1>3, <1>4 DEF HRegister, HWrite

LEMMA AnswersAnnounced ==
  ASSUME TypeInv, OneAnswer, Announce
  PROVE  OneAnswer'
<1>1. /\ registering \in Calls /\ writeQ \in Seq(Messages) /\ writeQ' = Append(writeQ, registering)
      /\ registering' = NoCall /\ NoCall \notin Calls
      /\ UNCHANGED <<answered, wpc, hpc, garbled>>
  BY ServerAssumption DEF Announce, TypeInv, TypeOK, clientVars, Messages
<1>2. ASSUME NEW c \in Calls
      PROVE  AnswersTo(c)' = AnswersTo(c)
  <2>1. answered[c] \in Nat /\ Count(writeQ, c) \in Nat
    BY CountIsNat DEF TypeInv, TypeOK, Messages
  <2>2. Count(writeQ', c) = Count(writeQ, c) + (IF registering = c THEN 1 ELSE 0)
    <3>1. registering \in Messages
      BY <1>1 DEF Messages
    <3> QED  BY <1>1, <3>1, CountAppend
  <2>3. /\ AnswersTo(c) = answered[c] + Count(writeQ, c) + (IF registering = c THEN 1 ELSE 0)
        /\ AnswersTo(c)' = answered[c] + Count(writeQ', c) + 0
    BY <1>1 DEF AnswersTo, Count, Pos
  <2> QED  BY <2>1, <2>2, <2>3
<1>3. ASSUME NEW c \in Calls
      PROVE  IF Req[c].hasID /\ Finished(c)'
               THEN AnswersTo(c)' <= 1 /\ (wpc' # "gone" => AnswersTo(c)' = 1)
               ELSE AnswersTo(c)' = 0
  <2>1. Finished(c)' <=> Finished(c)
    BY <1>1 DEF Finished
  <2> QED  BY <1>1, <1>2, <2>1 DEF OneAnswer, Finished
<1> QED  BY <1>3 DEF OneAnswer, Finished

LEMMA AnswersStep ==
  ASSUME FrameInv, [Next]_vars, Owed, OneAnswer
  PROVE  Owed' /\ OneAnswer'
<1> USE DEF FrameInv, TypeInv
<1>1. ASSUME NEW c \in Calls, HReturn(c)
      PROVE  Owed' /\ OneAnswer'
  <2>1. PICK ret \in Returns :
          \/ /\ SendsChannel(Handler[c], Req[c], ret)
             /\ hpc' = [hpc EXCEPT ![c] = "registering"]
             /\ UNCHANGED garbled
          \/ /\ hpc' = [hpc EXCEPT ![c] = IF Answer(Handler[c], Req[c], ret) = NoAnswer
                                            THEN "finishing" ELSE "writing"]
             /\ garbled' = garbled \cup {d \in {c} : ~Marshals(Answer(Handler[c], Req[c], ret))}
    BY <1>1 DEF HReturn
  <2>2. /\ hpc \in [Calls -> {"none", "running", "registering", "writing", "finishing", "gone"}]
        /\ hpc[c] = "running" /\ UNCHANGED <<answered, writeQ, registering, wpc>>
    BY <1>1 DEF HReturn, TypeOK, clientVars
  <2>3. c \notin garbled
    BY <2>2 DEF Owed
  <2>4. /\ hpc'[c] \in {"registering", "writing", "finishing"}
        /\ hpc'[c] \in {"registering", "writing"} => Req[c].hasID
        /\ hpc'[c] = "finishing" => ~Req[c].hasID
        /\ c \in garbled' => hpc'[c] \in {"writing", "finishing"}
        /\ \A d \in Calls \ {c} : hpc'[d] = hpc[d]
        /\ \A d \in Calls \ {c} : d \in garbled' <=> d \in garbled
        /\ garbled' \subseteq Calls
    <3>1. /\ Answer(Handler[c], Req[c], ret) = NoAnswer <=> ~Req[c].hasID
          /\ SendsChannel(Handler[c], Req[c], ret) => Req[c].hasID
      BY AnswersOwed
    <3>2. garbled \subseteq Calls
      BY DEF TypeOK
    <3> QED  BY <2>1, <2>2, <2>3, <3>1, <3>2
  <2>5. Owed'
    BY <2>4 DEF Owed
  <2>6. ASSUME NEW d \in Calls, Req[d].hasID
        PROVE  Finished(d)' <=> Finished(d)
    <3>1. CASE d = c
      BY <2>2, <2>4, <2>6, <3>1 DEF Finished
    <3>2. CASE d # c
      BY <2>4, <3>2 DEF Finished
    <3> QED  BY <3>1, <3>2
  <2> QED  BY <2>2, <2>5, <2>6, AnswersStay
<1>2. ASSUME NEW c \in Calls, HRegister(c) \/ HWrite(c)
      PROVE  Owed' /\ OneAnswer'
  <2>1. /\ hpc[c] \in {"registering", "writing"} /\ \A d \in Calls \ {c} : hpc'[d] = hpc[d]
        /\ hpc'[c] \in {"writing", "finishing"} /\ garbled' = garbled
    BY <1>2 DEF HRegister, HWrite, TypeOK
  <2>2. Owed'
    BY <2>1 DEF Owed, TypeOK
  <2> QED  BY <1>2, <2>2, AnswersQueued
<1>3. ASSUME NEW c \in Calls, HDone(c)
      PROVE  Owed' /\ OneAnswer'
  <2>1. /\ hpc[c] = "finishing" /\ hpc'[c] = "gone"
        /\ \A d \in Calls \ {c} : hpc'[d] = hpc[d]
        /\ UNCHANGED <<answered, writeQ, registering, wpc, garbled>>
    BY <1>3 DEF HDone, TypeOK, clientVars
  <2>2. Owed'
    BY <2>1 DEF Owed, TypeOK
  <2>3. \A d \in Calls : Finished(d)' <=> Finished(d)
    BY <2>1 DEF Finished
  <2> QED  BY <2>1, <2>2, <2>3, AnswersStay
<1>4. CASE \/ \E c \in Calls : SendCall(c) \/ SendCancel(c)
           \/ SendPing \/ ConnEnds \/ CtxEnds \/ R \/ WPong \/ WLeave \/ UNCHANGED vars
  <2>1. /\ UNCHANGED <<answered, writeQ, registering, hpc, garbled>>
        /\ wpc' # "gone" => wpc # "gone"
    BY <1>4 DEF SendCall, SendCancel, SendPing, ConnEnds, CtxEnds, R, RLoop, RRead, RPush, RReadErr,
       RCloseInFlight, RReplace, WPong, WLeave, vars, clientVars, handlerVars
  <2> QED  BY <2>1, AnswersStay DEF Owed, Finished
<1>5. CASE WWrite
  <2>1. Owed'
    BY <1>5 DEF WWrite, handlerVars, Owed
  <2> QED  BY <1>5, <2>1, AnswersWritten
<1>6. CASE Announce
  <2>1. Owed'
    BY <1>6 DEF Announce, Owed
  <2> QED  BY <1>6, <2>1, AnswersAnnounced
<1> QED  BY <1>1, <1>2, <1>3, <1>4, <1>5, <1>6, AnswersStart DEF Next, W, H

LEMMA AnswersInit == Init => Owed /\ OneAnswer
<1> SUFFICES ASSUME Init PROVE Owed /\ OneAnswer
  OBVIOUS
<1>1. hpc = [c \in Calls |-> "none"] /\ writeQ = <<>> /\ answered = [c \in Calls |-> 0]
      /\ registering = NoCall /\ NoCall \notin Calls /\ garbled = {}
  BY ServerAssumption DEF Init
<1>2. ASSUME NEW c \in Calls PROVE AnswersTo(c) = 0
  <2>1. {i \in DOMAIN writeQ : writeQ[i] = c} = {}
    BY <1>1
  <2>2. Cardinality({}) = 0
    BY FS_EmptySet
  <2> QED  BY <1>1, <2>1, <2>2 DEF AnswersTo
<1> QED  BY <1>1, <1>2 DEF Owed, OneAnswer

-----------------------------------------------------------------------------
(* The theorems                                                            *)

(* Every variable keeps its type, and neither channel of the connection    *)
(* exceeds its capacity (websocket.go:467-550).                            *)
THEOREM ServerTypes == Spec => []TypeOK
<1>1. TypeInv => TypeOK
  BY DEF TypeInv
<1> QED  BY InitTypes, StepTypes, <1>1, PTL DEF Spec

(* As long as the connection is served, the table holds exactly the calls  *)
(* that a cancel could still be about (websocket.go:356-369,               *)
(* handler.go:219-220).                                                    *)
THEOREM TableAgrees == Spec => []HandlingAgrees
<1>1. Init => HandlingAgrees
  BY DEF Init, HandlingAgrees
<1>2. TypeInv /\ [Next]_vars /\ HandlingAgrees => HandlingAgrees'
  BY TableStep
<1> QED  BY InitTypes, StepTypes, <1>1, <1>2, PTL DEF Spec

(* The context of a handler that has not returned is cancelled only for    *)
(* this call's own cancel, or because the connection is being closed       *)
(* (websocket.go:228-246, 363-369, 404-413, handler.go:220).               *)
THEOREM CancelsAreNamed == Spec => []OnlyNamedCancelled
<1>1. Init => OnlyNamedCancelled
  BY DEF Init, OnlyNamedCancelled
<1>2. FrameInv /\ [Next]_vars => FrameInv'
  BY FramesStep
<1>3. FrameInv /\ [Next]_vars /\ OnlyNamedCancelled => OnlyNamedCancelled'
  BY NamedStep
<1> QED  BY FramesInit, <1>1, <1>2, <1>3, PTL DEF Spec

(* A request with an id gets one response, from whichever goroutine, and a *)
(* notification gets none, whether it was refused, failed, panicked or     *)
(* returned a value or a channel (handler.go:192-328, server.go:91-110),   *)
(* except that a value json.Marshal refuses takes its response with it     *)
(* (websocket.go:341).                                                     *)
THEOREM AnsweredOnce == Spec => []OneAnswer
<1>1. FrameInv /\ [Next]_vars => FrameInv'
  BY FramesStep
<1>2. FrameInv /\ [Next]_vars /\ Owed /\ OneAnswer => Owed' /\ OneAnswer'
  BY AnswersStep
<1> QED  BY FramesInit, AnswersInit, <1>1, <1>2, PTL DEF Spec

=============================================================================
