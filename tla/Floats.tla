-------------------------------- MODULE Floats --------------------------------
(***************************************************************************)
(* What Go does between float64 and its integer types, with numbers of     *)
(* fewer bits.  A number is an integer count of some unit the using module *)
(* chooses, so that it may have a fraction.                                *)
(***************************************************************************)
EXTENDS Integers

CONSTANTS
  Mant,  \* significant bits of a float (53 in a float64)
  Short, \* bits of int32 and uint32
  Long   \* bits of int64, uint64 and time.Duration

ASSUME FloatsAssumption ==
  /\ Mant \in Nat \ {0} /\ Short \in Nat \ {0} /\ Long \in Nat
  /\ Short <= Mant /\ Mant < Long

Magnitude(v) == IF v < 0 THEN -v ELSE v

IntTypes == {"int32", "uint32", "int64", "uint64"}

Ints(t) ==
  CASE t = "int32"  -> -(2 ^ (Short - 1)) .. 2 ^ (Short - 1) - 1
    [] t = "uint32" -> 0 .. 2 ^ Short - 1
    [] t = "int64"  -> -(2 ^ (Long - 1)) .. 2 ^ (Long - 1) - 1
    [] t = "uint64" -> 0 .. 2 ^ Long - 1

(* An integer converted to a type of fewer bits keeps its low ones, read   *)
(* as a number of that type.                                               *)
Bits(t) == IF t \in {"int32", "uint32"} THEN Short ELSE Long
Least(t) == IF t \in {"int32", "int64"} THEN -(2 ^ (Bits(t) - 1)) ELSE 0
Wrapped(t, i) == Least(t) + ((i - Least(t)) % 2 ^ Bits(t))

(* That number with so many significant bits: to nearest, a tie to even.   *)
Rounded(bits, v) ==
  LET a == Magnitude(v)
      u == 2 ^ (CHOOSE e \in 0 .. a : /\ a < 2 ^ (bits + e)
                                      /\ e = 0 \/ a >= 2 ^ (bits + e - 1))
      q == a \div u
      r == a % u
      n == u * (IF 2 * r > u \/ (2 * r = u /\ q % 2 = 1) THEN q + 1 ELSE q)
  IN  IF v < 0 THEN -n ELSE n

(* float64 of that number.                                                 *)
Float(v) == Rounded(Mant, v)

(* num / den without its fraction, den > 0.                                *)
Truncated(num, den) ==
  IF num < 0 THEN -((-num) \div den) ELSE num \div den

(* What the conversion of that number to an integer type may give.  The    *)
(* language leaves it to the implementation when the number is not one of  *)
(* the type's, and builds for different processors do differ.              *)
Converted(t, num, den) ==
  LET i == Truncated(num, den) IN IF i \in Ints(t) THEN {i} ELSE Ints(t)

==============================================================================
