------------------------------- MODULE ToNumber -------------------------------
(***************************************************************************)
(* ToFloat, ToInt32, ToUint32, ToInt64 and ToUint64 (to_float.go): every   *)
(* argument goes through a float64.                                        *)
(*                                                                         *)
(* An argument is [kind, v] with v its value in halves: "whole" for the    *)
(* integer kinds, "text" for a string that parses, "float", and "other"    *)
(* for a string that does not and for all other kinds.  A pointer is what  *)
(* it points to.                                                           *)
(***************************************************************************)
EXTENDS Floats

VARIABLES
  arg,  \* the argument
  into, \* the type it was converted to, "none" before
  num   \* the result

toVars == <<arg, into, num>>

Halves == -(2 ^ Long) .. 2 ^ (Long + 1)
Args ==
  [kind : {"whole"}, v : {2 * i : i \in Ints("int64") \cup Ints("uint64")}]
    \cup [kind : {"text"}, v : Halves]
    \cup [kind : {"float"}, v : {v \in Halves : Float(v) = v}]
    \cup [kind : {"other"}, v : {0}]

ToInit ==
  /\ arg = [kind |-> "other", v |-> 0]
  /\ into = "none"
  /\ num = 0

(* Mutant: by way of a float32.                                            *)
ToFloat_Single(x) ==
  CASE x.kind \in {"whole", "text"} -> Rounded(Mant - 1, x.v)
    [] x.kind = "float" -> x.v
    [] OTHER -> 0

ToFloat(x) ==
  CASE x.kind \in {"whole", "text"} -> Float(x.v)
    [] x.kind = "float" -> x.v
    [] OTHER -> 0

To(t) ==
  /\ into = "none"
  /\ into' = t
  /\ \E x \in Args : /\ arg' = x
                      /\ num' \in Converted(t, ToFloat(x), 2)

ToNext == \E t \in IntTypes : To(t)

ToSpec == ToInit /\ [][ToNext]_toVars

-----------------------------------------------------------------------------
(* The whole numbers a float can be.                                       *)
Exact ==
  {i \in -(2 ^ Long) .. 2 ^ Long :
     \E e \in 0 .. Long : \E m \in 0 .. 2 ^ Mant : Magnitude(i) = m * 2 ^ e}

Nearest(y, i) == y \in Exact /\ \A z \in Exact : Magnitude(y - i) <= Magnitude(z - i)

(* A whole number, or the text of one, that the type can hold comes back   *)
(* as the nearest number of 53 significant bits, so small ones come back   *)
(* unchanged and int32 and uint32 always do.  It may be anything if that   *)
(* number is too large for the type, as it is for the largest int64        *)
(* (to_float.go:9-47).                                                     *)
WholeKept ==
  LET i == arg.v \div 2 IN
    (into # "none" /\ arg.kind \in {"whole", "text"} /\ arg.v % 2 = 0 /\ i \in Ints(into))
      => \/ Nearest(num, i)
         \/ /\ into \in {"int64", "uint64"}
            /\ \E y \in Exact \ Ints(into) : Nearest(y, i)

=============================================================================
