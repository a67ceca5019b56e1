----------------------------- MODULE MCLibrary -----------------------------
(***************************************************************************)
(* Small instances of RpcHttp, SqlRows, ToNumber and Backoff for TLC, in   *)
(* one run.  They share no state, so each is explored with the others at   *)
(* rest.                                                                   *)
(***************************************************************************)
EXTENDS RpcHttp, SqlRows, ToNumber, Backoff

CONSTANTS g1, g2, g3, c1   \* goroutines that register, a call

RegistrarSet == {g1, g2, g3}
CallSet == {c1}

(* Two receivers for one name, with a method each, one of them with two    *)
(* names that differ in case; a third that fits under no name.             *)
Find == [name |-> "Find", ins |-> <<"ptr", "done">>]
FIND == [name |-> "FIND", ins |-> <<"ptr", "done">>]
Size == [name |-> "Size", ins |-> <<"ptr">>]
LowerMethod == [m \in {"find", "Find", "FIND", "size", "Size"} |->
  IF m \in {"size", "Size"} THEN "size" ELSE "find"]
ReceiverOf == [g \in RegistrarSet |->
  CASE g = g1 -> [name |-> "Db", exported |-> TRUE, methods |-> <<FIND, Find, Size>>]
    [] g = g2 -> [name |-> "Store", exported |-> TRUE, methods |-> <<Find>>]
    [] g = g3 -> [name |-> "cache", exported |-> FALSE, methods |-> <<Find>>]]
NameGiven == [g \in RegistrarSet |-> IF g = g2 THEN "Db" ELSE NoName]

RequestSet ==
  {[verb |-> "POST", json |-> TRUE, path |-> <<"Db", m>>, params |-> p] :
     m \in {"Find", "size"}, p \in {"good", "null"}}
  \cup {[verb |-> "GET", json |-> FALSE, path |-> <<"Db", "find">>, params |-> "none"],
        [verb |-> "POST", json |-> FALSE, path |-> <<"Db", "find">>, params |-> "none"]}
AnswerSet == {[val |-> "v", err |-> FALSE, text |-> FALSE, fits |-> TRUE],
              [val |-> "w", err |-> TRUE, text |-> TRUE, fits |-> TRUE],
              [val |-> "w", err |-> TRUE, text |-> FALSE, fits |-> TRUE],
              [val |-> "u", err |-> FALSE, text |-> FALSE, fits |-> FALSE]}

ColumnSeq == <<"ID", "Name", "id">>
LowerCase == [c \in {"ID", "Name", "id"} |-> IF c = "Name" THEN "name" ELSE "id"]
(* Numbers on both sides of what the smaller types hold: 12 is beyond 3    *)
(* bits, 60 beyond a signed 6, and 21 is rounded twice in a float32.       *)
CellsOfColumn == [c \in {"ID", "Name", "id"} |->
  CASE c = "ID"   -> {Content("null", 0), Content("whole", 3)}
    [] c = "Name" -> {Content("null", 0), Content("empty", 0), Content("text", 0), Content("truth", 1)}
    [] c = "id"   -> {Content("null", 0), Content("empty", 0), Content("float", 21)}
                     \cup {Content("whole", v) : v \in {-1, 1, 12, 60}}]
(* Structs with every kind of field that can be set, one of them without a *)
(* column; one with a field of a type that is not supported; one with a    *)
(* field that is not exported.                                             *)
Field(col, kind) == [col |-> col, kind |-> kind]
FieldListSet ==
  {<<Field("name", "string"), Field("id", "int32"), Field("name", "slice"), Field("age", "private")>>,
   <<Field("id", "int64"), Field("name", "bool")>>,
   <<Field("id", "uint32"), Field("id", "uint64"), Field("id", "float32")>>,
   <<Field("id", "float64"), Field("name", "other")>>,
   <<Field("name", "string"), Field("id", "private")>>}

numberVars == <<toVars, backoffVars>>

Init == HttpInit /\ SqlInit /\ ToInit /\ BackoffInit

SqlAtRest == spc = "rows" /\ rows = <<>>
HttpAtRest == services = <<>> /\ cpc = [c \in HttpCalls |-> "idle"]
NumbersAtRest == into = "none" /\ attempt = 0

Next ==
  \/ SqlAtRest /\ NumbersAtRest /\ HttpNext /\ UNCHANGED <<sqlVars, numberVars>>
  \/ HttpAtRest /\ NumbersAtRest /\ SqlNext /\ UNCHANGED <<httpVars, numberVars>>
  \/ /\ HttpAtRest /\ SqlAtRest
     /\ \/ attempt = 0 /\ ToNext /\ UNCHANGED backoffVars
        \/ into = "none" /\ Pause /\ UNCHANGED toVars
     /\ UNCHANGED <<httpVars, sqlVars>>

Spec == Init /\ [][Next]_<<httpVars, sqlVars, numberVars>>

=============================================================================
