------------------------------ MODULE MCOutChans ------------------------------
(* Small instances of OutChans for TLC. *)
EXTENDS OutChans

CONSTANTS s1, s2   \* the streams

Both == {s1, s2}
First == {s1}
Nobody == {}
OneEach == [s \in Streams |-> 1]
ThreeEach == [s \in Streams |-> 3]
OneAndThree == [s \in Streams |-> IF s = s1 THEN 1 ELSE 3]

==============================================================================
