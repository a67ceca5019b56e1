-------------------------------- MODULE Backoff --------------------------------
(***************************************************************************)
(* The pauses between the attempts of a retried call: backoff.next         *)
(* (jsonrpc/util.go) in the loop of handleRpcCall (client.go).             *)
(*                                                                         *)
(* The product of floats is taken without its rounding, and rand.Float64   *)
(* is one of Jitters fractions.                                            *)
(***************************************************************************)
EXTENDS Floats

CONSTANTS
  MinDelay,   \* methodMinRetryDelay
  MaxDelay,   \* methodMaxRetryDelay
  Jitters,    \* values of rand.Float64: 0 / Jitters .. (Jitters - 1) / Jitters
  MaxAttempts \* bound on the attempts of a call

ASSUME BackoffAssumption ==
  /\ MinDelay \in Ints("int64") /\ MaxDelay \in Ints("int64")
  /\ 0 < MinDelay /\ MinDelay <= MaxDelay
  /\ Jitters \in Nat \ {0}
  /\ MaxAttempts \in Nat

VARIABLES
  attempt, \* attempts that failed
  delay    \* the last pause

backoffVars == <<attempt, delay>>

BackoffInit == attempt = 0 /\ delay = 0

(* 3 ^ n.                                                                  *)
Threes[n \in Nat] == IF n = 0 THEN 1 ELSE 3 * Threes[n - 1]

(* The delay of that attempt and jitter, as a fraction.                    *)
Num(n, r) == MinDelay * (Threes[n] * Jitters + r * 2 ^ n)
Den(n) == 2 ^ n * Jitters

(* Mutant: without the limit.                                              *)
next_NoLimit(n) ==
  UNION {Converted("int64", Num(n, r), Den(n)) : r \in 0 .. Jitters - 1}

next(n) ==
  {IF d > MaxDelay THEN MaxDelay ELSE d :
     d \in UNION {Converted("int64", Num(n, r), Den(n)) : r \in 0 .. Jitters - 1}}

(* The connection was lost, so the call pauses and is sent again.          *)
Pause ==
  /\ attempt < MaxAttempts
  /\ delay' \in next(attempt)
  /\ attempt' = attempt + 1

BackoffSpec == BackoffInit /\ [][Pause]_backoffVars

-----------------------------------------------------------------------------
(* Has the delay of that attempt left time.Duration?                       *)
Overflows(n) == Truncated(Num(n, Jitters - 1), Den(n)) \notin Ints("int64")

(* No pause is longer than methodMaxRetryDelay; and until the exponential  *)
(* leaves time.Duration, none is shorter than methodMinRetryDelay, and     *)
(* from the fourth on none is shorter than the one before, whatever the    *)
(* random part (util.go:65-81, client.go:522-559).                         *)
PausesGrow ==
  [][attempt' = attempt + 1 =>
       /\ delay' <= MaxDelay
       /\ ~Overflows(attempt) => /\ MinDelay <= delay'
                                 /\ attempt >= 3 => delay <= delay']_backoffVars

=============================================================================
