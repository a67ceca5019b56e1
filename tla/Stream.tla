-------------------------------- MODULE Stream --------------------------------
(***************************************************************************)
(* What a method whose result is a channel promises: the program that      *)
(* called it receives the values the handler put on its channel, in their  *)
(* order, none twice and none left out (jsonrpc/websocket.go: output       *)
(* channels; jsonrpc/client.go: makeOutChan).  The program's channel is    *)
(* closed when all values have been received and the handler closed its    *)
(* own; it is closed early only when the connection is gone or the         *)
(* context of the call is done.                                            *)
(***************************************************************************)
EXTENDS Naturals, Sequences, TLAPS

CONSTANT Streams   \* the calls whose result is a channel

VARIABLES
  made,     \* made[s]: the values the handler of s handed out
  closed,   \* has the handler of s closed its channel?
  got,      \* got[s]: the values the program received
  ended,    \* is the program's channel closed?
  broken,   \* is the connection gone?
  given     \* is the context of the call done?

vars == <<made, closed, got, ended, broken, given>>

Init ==
  /\ made = [s \in Streams |-> <<>>]
  /\ closed = [s \in Streams |-> FALSE]
  /\ got = [s \in Streams |-> <<>>]
  /\ ended = [s \in Streams |-> FALSE]
  /\ broken = FALSE
  /\ given = [s \in Streams |-> FALSE]

(* The n-th value of s stands for itself.                                  *)
Make(s) ==
  /\ ~closed[s]
  /\ made' = [made EXCEPT ![s] = Append(@, <<s, Len(@) + 1>>)]
  /\ UNCHANGED <<closed, got, ended, broken, given>>

Close(s) ==
  /\ closed' = [closed EXCEPT ![s] = TRUE]
  /\ UNCHANGED <<made, got, ended, broken, given>>

Get(s) ==
  /\ ~ended[s]
  /\ Len(got[s]) < Len(made[s])
  /\ got' = [got EXCEPT ![s] = Append(@, made[s][Len(@) + 1])]
  /\ UNCHANGED <<made, closed, ended, broken, given>>

Complete(s) == closed[s] /\ got[s] = made[s]

End(s) ==
  /\ ~ended[s]
  /\ Complete(s) \/ broken \/ given[s]
  /\ ended' = [ended EXCEPT ![s] = TRUE]
  /\ UNCHANGED <<made, closed, got, broken, given>>

Break ==
  /\ broken' = TRUE
  /\ UNCHANGED <<made, closed, got, ended, given>>

Give(s) ==
  /\ given' = [given EXCEPT ![s] = TRUE]
  /\ UNCHANGED <<made, closed, got, ended, broken>>

Next ==
  \/ Break
  \/ \E s \in Streams :
       Make(s) \/ Close(s) \/ Get(s) \/ End(s) \/ Give(s)

Spec == Init /\ [][Next]_vars

(* What the program received is a prefix of what the handler sent.         *)
PrefixReceived ==
  \A s \in Streams :
    /\ Len(got[s]) <= Len(made[s])
    /\ \A n \in 1 .. Len(got[s]) : got[s][n] = made[s][n]

(* A closed channel means that all has been received, or that the          *)
(* connection is gone or the context done.                                 *)
EndedForCause ==
  \A s \in Streams : ended[s] => Complete(s) \/ broken \/ given[s]

-----------------------------------------------------------------------------
Types ==
  /\ made \in [Streams -> Seq(Streams \X Nat)]
  /\ got \in [Streams -> Seq(Streams \X Nat)]
  /\ closed \in [Streams -> BOOLEAN] /\ ended \in [Streams -> BOOLEAN]
  /\ given \in [Streams -> BOOLEAN]

IInv == Types /\ PrefixReceived /\ EndedForCause

LEMMA MakeKeeps ==
  ASSUME IInv, NEW s \in Streams, Make(s)
  PROVE  IInv'
<1>1. /\ ~closed[s] /\ UNCHANGED <<closed, got, ended, broken, given>>
      /\ made' = [made EXCEPT ![s] = Append(@, <<s, Len(@) + 1>>)]
  BY DEF Make
<1>2. Types /\ made[s] \in Seq(Streams \X Nat) /\ Len(made[s]) \in Nat
  BY DEF IInv, Types
<1>3. /\ made' \in [Streams -> Seq(Streams \X Nat)]
      /\ made'[s] = Append(made[s], <<s, Len(made[s]) + 1>>)
      /\ \A t \in Streams \ {s} : made'[t] = made[t]
  <2>1. Append(made[s], <<s, Len(made[s]) + 1>>) \in Seq(Streams \X Nat)
    BY <1>2
  <2> QED  BY <1>1, <1>2, <2>1 DEF Types
<1>4. Types'
  BY <1>1, <1>2, <1>3 DEF Types
<1>5. PrefixReceived'
  <2> SUFFICES ASSUME NEW t \in Streams
               PROVE  /\ Len(got[t]) <= Len(made'[t])
                      /\ \A n \in 1 .. Len(got[t]) : got[t][n] = made'[t][n]
    BY <1>1 DEF PrefixReceived
  <2>1. /\ Len(got[t]) <= Len(made[t])
        /\ \A n \in 1 .. Len(got[t]) : got[t][n] = made[t][n]
    BY DEF IInv, PrefixReceived
  <2>2. CASE t # s
    BY <1>3, <2>1, <2>2
  <2>3. CASE t = s
    <3>1. PICK k \in Nat, m \in Nat : k = Len(got[s]) /\ m = Len(made[s])
      BY <1>2 DEF Types
    <3>2. Len(made'[s]) = m + 1 /\ \A n \in 1 .. m : made'[s][n] = made[s][n]
      BY <1>2, <1>3, <3>1
    <3> QED  BY <2>1, <2>3, <3>1, <3>2
  <2> QED  BY <2>2, <2>3
<1>6. EndedForCause'
  <2> SUFFICES ASSUME NEW t \in Streams, ended[t]
               PROVE  (closed[t] /\ got[t] = made'[t]) \/ broken \/ given[t]
    BY <1>1 DEF EndedForCause, Complete
  <2>1. (closed[t] /\ got[t] = made[t]) \/ broken \/ given[t]
    BY DEF IInv, EndedForCause, Complete
  <2>2. CASE t = s
    BY <1>1, <2>1, <2>2
  <2>3. CASE t # s
    BY <1>3, <2>1, <2>3
  <2> QED  BY <2>2, <2>3
<1> QED  BY <1>4, <1>5, <1>6 DEF IInv

LEMMA GetKeeps ==
  ASSUME IInv, NEW s \in Streams, Get(s)
  PROVE  IInv'
<1>1. /\ ~ended[s] /\ Len(got[s]) < Len(made[s]) /\ UNCHANGED <<made, closed, ended, broken, given>>
      /\ got' = [got EXCEPT ![s] = Append(@, made[s][Len(@) + 1])]
  BY DEF Get
<1>2. Types /\ got[s] \in Seq(Streams \X Nat) /\ made[s] \in Seq(Streams \X Nat)
  BY DEF IInv, Types
<1>3. PICK k \in Nat, m \in Nat : k = Len(got[s]) /\ m = Len(made[s]) /\ k < m
  BY <1>1, <1>2
<1>4. PICK v : v = made[s][k + 1] /\ v \in Streams \X Nat
  BY <1>2, <1>3
<1>5. /\ got' \in [Streams -> Seq(Streams \X Nat)]
      /\ got'[s] = Append(got[s], v)
      /\ \A t \in Streams \ {s} : got'[t] = got[t]
  <2>1. Append(got[s], v) \in Seq(Streams \X Nat)
    BY <1>2, <1>4
  <2> QED  BY <1>1, <1>2, <1>3, <1>4, <2>1 DEF Types
<1>6. Types'
  BY <1>1, <1>2, <1>5 DEF Types
<1>7. PrefixReceived'
  <2> SUFFICES ASSUME NEW t \in Streams
               PROVE  /\ Len(got'[t]) <= Len(made[t])
                      /\ \A n \in 1 .. Len(got'[t]) : got'[t][n] = made[t][n]
    BY <1>1 DEF PrefixReceived
  <2>1. /\ Len(got[t]) <= Len(made[t])
        /\ \A n \in 1 .. Len(got[t]) : got[t][n] = made[t][n]
    BY DEF IInv, PrefixReceived
  <2>2. CASE t # s
    BY <1>5, <2>1, <2>2
  <2>3. CASE t = s
    <3>1. Len(got'[s]) = k + 1 /\ got'[s][k + 1] = v /\ \A n \in 1 .. k : got'[s][n] = got[s][n]
      <4>1. /\ Len(Append(got[s], v)) = Len(got[s]) + 1
            /\ \A n \in 1 .. Len(got[s]) : Append(got[s], v)[n] = got[s][n]
            /\ Append(got[s], v)[Len(got[s]) + 1] = v
        BY <1>2, <1>4
      <4> QED  BY <1>3, <1>5, <4>1
    <3>2. ASSUME NEW n \in 1 .. k + 1 PROVE got'[s][n] = made[s][n]
      <4>1. CASE n = k + 1
        BY <1>4, <3>1, <4>1
      <4>2. CASE n # k + 1
        <5>1. n \in 1 .. k
          BY <4>2
        <5> QED  BY <1>3, <2>1, <2>3, <3>1, <5>1
      <4> QED  BY <4>1, <4>2
    <3> QED  BY <1>3, <2>3, <3>1, <3>2
  <2> QED  BY <2>2, <2>3
<1>8. EndedForCause'
  <2> SUFFICES ASSUME NEW t \in Streams, ended[t]
               PROVE  (closed[t] /\ got'[t] = made[t]) \/ broken \/ given[t]
    BY <1>1 DEF EndedForCause, Complete
  <2>1. t # s
    BY <1>1
  <2> QED  BY <1>5, <2>1 DEF IInv, EndedForCause, Complete
<1> QED  BY <1>6, <1>7, <1>8 DEF IInv

LEMMA RestKeeps ==
  ASSUME IInv, [Next]_vars, UNCHANGED <<made, got>>
  PROVE  IInv'
<1>1. PrefixReceived'
  BY DEF IInv, PrefixReceived
<1>2. ASSUME NEW s \in Streams, Close(s) PROVE Types' /\ EndedForCause'
  BY <1>2 DEF Close, IInv, Types, EndedForCause, Complete
<1>3. ASSUME NEW s \in Streams, End(s) PROVE Types' /\ EndedForCause'
  BY <1>3 DEF End, IInv, Types, EndedForCause, Complete
<1>4. ASSUME NEW s \in Streams, Give(s) PROVE Types' /\ EndedForCause'
  BY <1>4 DEF Give, IInv, Types, EndedForCause, Complete
<1>5. ASSUME Break PROVE Types' /\ EndedForCause'
  BY <1>5 DEF Break, IInv, Types, EndedForCause, Complete
<1>6. ASSUME NEW s \in Streams, Make(s) PROVE Types' /\ EndedForCause'
  BY <1>6, MakeKeeps DEF IInv
<1>7. ASSUME NEW s \in Streams, Get(s) PROVE Types' /\ EndedForCause'
  BY <1>7, GetKeeps DEF IInv
<1>8. ASSUME UNCHANGED vars PROVE Types' /\ EndedForCause'
  BY <1>8 DEF vars, IInv, Types, EndedForCause, Complete
<1> QED  BY <1>1, <1>2, <1>3, <1>4, <1>5, <1>6, <1>7, <1>8 DEF Next, IInv

(* A program receives a prefix of what the handler sent, in order and      *)
(* nothing twice, and its channel is closed before it has it all only if   *)
(* the connection is gone or the context of the call done (websocket.go:   *)
(* 111-170, 302-351; client.go:267-393).                                   *)
THEOREM StreamsDeliver == Spec => [](PrefixReceived /\ EndedForCause)
<1>1. Init => IInv
  BY DEF Init, IInv, Types, PrefixReceived, EndedForCause
<1>2. IInv /\ [Next]_vars => IInv'
  <2> SUFFICES ASSUME IInv, [Next]_vars PROVE IInv'
    OBVIOUS
  <2>1. CASE UNCHANGED <<made, got>>
    BY <2>1, RestKeeps
  <2>2. ASSUME NEW s \in Streams, Make(s) PROVE IInv'
    BY <2>2, MakeKeeps
  <2>3. ASSUME NEW s \in Streams, Get(s) PROVE IInv'
    BY <2>3, GetKeeps
  <2> QED
    BY <2>1, <2>2, <2>3 DEF Next, vars, Close, End, Give, Break
<1>3. IInv => PrefixReceived /\ EndedForCause
  BY DEF IInv
<1> QED  BY <1>1, <1>2, <1>3, PTL DEF Spec

=============================================================================
