------------------------------- MODULE RpcCall -------------------------------
(***************************************************************************)
(* What one method of a generated client promises to the program that      *)
(* calls it, whatever the transport does underneath                        *)
(* (jsonrpc/client.go: rpcFunc.handleRpcCall and client.sendRequest).      *)
(*                                                                         *)
(* A call is attempted once, or again and again when its method carries    *)
(* the tag retry:"true".  The remote side runs each attempt at most once,  *)
(* possibly after the caller has given up on it.  The call returns once:   *)
(* with a reply, which then comes from a run of one of its attempts, or    *)
(* with an error made on the client side.                                  *)
(***************************************************************************)
EXTENDS Integers, TLAPS

CONSTANTS
  Calls,        \* the calls a program makes, each with its own request id
  RetryCalls,   \* those whose method is tagged retry:"true"
  MaxAttempts   \* bound on the attempts of one call

Attempts == 1 .. MaxAttempts

(* A reply of the remote method, "connection closed" (code 2), or          *)
(* "websocket routine exiting".                                            *)
Outcomes == {"reply", "closed", "exiting"}

VARIABLES
  status,   \* status[c] is "idle", "pending" or the outcome c returned with
  sent,     \* sent[c] is the number of attempts of c issued so far
  runs      \* runs[c][a] is how often the remote ran attempt a of c

vars == <<status, sent, runs>>

TypeOK ==
  /\ status \in [Calls -> {"idle", "pending"} \cup Outcomes]
  /\ sent \in [Calls -> 0 .. MaxAttempts]
  /\ runs \in [Calls -> [Attempts -> Nat]]

Init ==
  /\ status = [c \in Calls |-> "idle"]
  /\ sent = [c \in Calls |-> 0]
  /\ runs = [c \in Calls |-> [a \in Attempts |-> 0]]

Issue(c) ==
  /\ status[c] = "idle"
  /\ status' = [status EXCEPT ![c] = "pending"]
  /\ sent' = [sent EXCEPT ![c] = 1]
  /\ UNCHANGED runs

Reissue(c) ==
  /\ status[c] = "pending"
  /\ c \in RetryCalls
  /\ sent[c] < MaxAttempts
  /\ sent' = [sent EXCEPT ![c] = @ + 1]
  /\ UNCHANGED <<status, runs>>

Run(c, a) ==
  /\ a <= sent[c]
  /\ runs[c][a] = 0
  /\ runs' = [runs EXCEPT ![c][a] = 1]
  /\ UNCHANGED <<status, sent>>

Return(c, o) ==
  /\ status[c] = "pending"
  /\ o = "reply" => \E a \in Attempts : runs[c][a] > 0
  /\ status' = [status EXCEPT ![c] = o]
  /\ UNCHANGED <<sent, runs>>

Next ==
  \E c \in Calls :
    \/ Issue(c)
    \/ Reissue(c)
    \/ \E a \in Attempts : Run(c, a)
    \/ \E o \in Outcomes : Return(c, o)

Spec == Init /\ [][Next]_vars

(* A method without the retry tag runs at most once, and an attempt of the *)
(* others at most once each, whatever happens to the connection            *)
(* (client.go:417-431, 527-560).                                           *)
AtMostOnce ==
  /\ \A c \in Calls, a \in Attempts : runs[c][a] <= 1
  /\ \A c \in Calls \ RetryCalls, a \in Attempts : a > 1 => runs[c][a] = 0

(* A call that returned a reply was run (client.go:531-562).               *)
ReplyMeansRun ==
  \A c \in Calls : status[c] = "reply" => \E a \in Attempts : runs[c][a] > 0

-----------------------------------------------------------------------------
(* An attempt runs only after it was issued, and only retried methods are  *)
(* issued more than once.                                                  *)
IInv ==
  /\ status \in [Calls -> {"idle", "pending"} \cup Outcomes]
  /\ sent \in [Calls -> Nat]
  /\ runs \in [Calls -> [Attempts -> {0, 1}]]
  /\ \A c \in Calls : status[c] = "idle" => sent[c] = 0
  /\ \A c \in Calls \ RetryCalls : sent[c] <= 1
  /\ \A c \in Calls, a \in Attempts : runs[c][a] > 0 => a <= sent[c]
  /\ ReplyMeansRun

LEMMA IInvStep ==
  ASSUME IInv, [Next]_vars
  PROVE  IInv'
<1> USE DEF IInv, ReplyMeansRun, Attempts, Outcomes
<1>1. ASSUME NEW c \in Calls, Issue(c)
      PROVE  IInv'
  BY <1>1 DEF Issue
<1>2. ASSUME NEW c \in Calls, Reissue(c)
      PROVE  IInv'
  BY <1>2 DEF Reissue
<1>3. ASSUME NEW c \in Calls, NEW a \in Attempts, Run(c, a)
      PROVE  IInv'
  <2>1. /\ runs' \in [Calls -> [Attempts -> {0, 1}]]
        /\ runs'[c][a] = 1
        /\ \A d \in Calls, b \in Attempts :
             (d # c \/ b # a) => runs'[d][b] = runs[d][b]
    BY <1>3 DEF Run
  <2>2. UNCHANGED <<status, sent>> /\ a <= sent[c]
    BY <1>3 DEF Run
  <2>3. \A d \in Calls, b \in Attempts : runs[d][b] > 0 => runs'[d][b] > 0
    BY <2>1
  <2> QED BY <2>1, <2>2, <2>3
<1>4. ASSUME NEW c \in Calls, NEW o \in Outcomes, Return(c, o)
      PROVE  IInv'
  BY <1>4 DEF Return
<1>5. CASE UNCHANGED vars
  BY <1>5 DEF vars
<1> QED BY <1>1, <1>2, <1>3, <1>4, <1>5 DEF Next

(* A method runs at most once per attempt, and without the retry tag at    *)
(* most once; a reply means that it ran (client.go:527-562).               *)
THEOREM CallsRunAtMostOnce ==
  ASSUME MaxAttempts \in Nat
  PROVE  Spec => [](AtMostOnce /\ ReplyMeansRun)
<1>1. Init => IInv
  BY DEF Init, IInv, ReplyMeansRun, Outcomes, Attempts
<1>2. IInv /\ [Next]_vars => IInv'
  BY IInvStep
<1>3. IInv => AtMostOnce /\ ReplyMeansRun
  <2>1. ASSUME IInv, NEW c \in Calls \ RetryCalls, NEW a \in Attempts, a > 1
        PROVE  runs[c][a] = 0
    <3>1. sent[c] <= 1 /\ sent[c] \in Nat
      BY <2>1 DEF IInv
    <3>2. runs[c][a] \in {0, 1} /\ (runs[c][a] > 0 => a <= sent[c])
      BY <2>1 DEF IInv
    <3>3. a \in Nat
      BY <2>1 DEF Attempts
    <3> QED BY <2>1, <3>1, <3>2, <3>3
  <2>2. ASSUME IInv, NEW c \in Calls, NEW a \in Attempts
        PROVE  runs[c][a] <= 1
    BY <2>2 DEF IInv
  <2> QED BY <2>1, <2>2 DEF AtMostOnce, IInv
<1> QED BY <1>1, <1>2, <1>3, PTL DEF Spec

=============================================================================
