------------------------------ MODULE SqlRows ------------------------------
(***************************************************************************)
(* SQLDecoder (sql_unmarshal.go): a result set is turned into a table of   *)
(* rows by lower-case column name (ToMap) and the table into a struct or a *)
(* slice of structs (UnMarshal).                                           *)
(*                                                                         *)
(* The rows come from the driver one at a time.  The code scans each into  *)
(* the same buffer, as strings: Scan fills it from the left and stops at   *)
(* the first value a string cannot take (NULL), or fills nothing when the  *)
(* rows have been closed since Next; its error is printed.  Nor is an      *)
(* error of Next looked at after the last row.                             *)
(*                                                                         *)
(* A column is its name, with its lower-case form in Lower.  A cell is     *)
(* [kind, v]: NULL, the empty string, or a text by what can parse it: a    *)
(* whole number v in decimal digits ("whole"), a number v written with a   *)
(* point or an exponent ("float"), a word for a truth value v ("truth"),   *)
(* and the rest ("text").  A field is [col, kind]: the lower-case name of  *)
(* its tag and what the code tells apart: a field any text can be stored   *)
(* in ("string"), the types whose text is parsed, a slice of anything but  *)
(* bytes ("slice"), a field that cannot be set ("private"), and the rest   *)
(* ("other").  The integer types of Floats stand for Go's, int32 for       *)
(* every one of fewer than 64 bits.  The content of a field is a cell, a   *)
(* parsed value, or what was there before.                                 *)
(* database/sql and strconv are external.                                  *)
(***************************************************************************)
EXTENDS Floats, Sequences

CONSTANTS
  Columns,    \* the columns of the result set, in order
  Lower,      \* Lower[col]: its name in lower case
  CellsOf,    \* CellsOf[col]: the cells the driver may deliver for it
  FieldLists, \* structs the program may decode into: the fields, in order
  SingleMant, \* significant bits of a float32
  MaxRows     \* bound on the rows of the result set

TextKinds == {"empty", "whole", "float", "truth", "text"}
Texts == [kind : TextKinds, v : Int]
Empty == [kind |-> "empty", v |-> 0]
Kinds == IntTypes \cup {"float32", "float64", "bool", "string", "slice", "private", "other"}

ASSUME SqlAssumption ==
  /\ MaxRows \in Nat
  /\ SingleMant \in 1 .. Mant
  /\ Columns \in Seq(DOMAIN Lower)
  /\ \A i \in DOMAIN Columns : \A c \in CellsOf[Columns[i]] :
       c \in [kind : TextKinds \cup {"null"}, v : Int]
  /\ FieldLists \subseteq Seq([col : STRING, kind : Kinds])

VARIABLES
  rows,    \* the rows the driver has delivered
  closed,  \* the last of them was closed before Scan
  values,  \* the buffer values
  tbm,     \* tableData: the rows of the table
  spc,     \* where UnMarshal is
  target,  \* what UnMarshal was given: a struct, a slice, or neither
  fields,  \* the fields of the struct, or of the elements of the slice
  out,     \* its content: a sequence of structs
  err      \* what UnMarshal returned

sqlVars == <<rows, closed, values, tbm, spc, target, fields, out, err>>

Rows ==
  {row \in [DOMAIN Columns -> UNION {CellsOf[Columns[i]] : i \in DOMAIN Columns}] :
     \A i \in DOMAIN Columns : row[i] \in CellsOf[Columns[i]]}
Names == {Lower[Columns[i]] : i \in DOMAIN Columns}

Content(kind, v) == [kind |-> kind, v |-> v]
Structs(fs) == [DOMAIN fs -> Texts \cup [kind : {"zero", "old", "value"}, v : Int]]
Fresh(fs) == [i \in DOMAIN fs |-> Content("zero", 0)]  \* what reflect.MakeSlice holds
Given(fs) == [i \in DOMAIN fs |-> Content("old", 0)]   \* what the program put there

SqlTypeOK ==
  /\ rows \in Seq(Rows) /\ Len(rows) <= MaxRows
  /\ closed \in BOOLEAN
  /\ values \in [DOMAIN Columns -> Texts]
  /\ \A i \in DOMAIN tbm : tbm[i] \in [Names -> Texts]
  /\ spc \in {"rows", "table", "fields", "done"}
  /\ target \in {"none", "struct", "slice", "other"}
  /\ fields \in FieldLists \cup {<<>>}
  /\ out \in Seq(Structs(fields))
  /\ err \in BOOLEAN

SqlInit ==
  /\ rows = <<>>
  /\ closed = FALSE
  /\ values = [i \in DOMAIN Columns |-> Empty]
  /\ tbm = <<>>
  /\ spc = "rows"
  /\ target = "none"
  /\ fields = <<>>
  /\ out = <<>>
  /\ err = FALSE

-----------------------------------------------------------------------------
(* ToMap.                                                                  *)

(* The buffer after Scan(row): filled up to the first NULL, or as it was   *)
(* when the rows are closed.                                               *)
Scan(row, shut) ==
  [i \in DOMAIN Columns |->
     IF shut \/ \E j \in 1 .. i : row[j].kind = "null" THEN values[i] ELSE row[i]]

(* The map of a row: of two columns with the same lower-case name the last *)
(* one counts.                                                             *)
entry(vals) ==
  [n \in Names |->
     vals[CHOOSE i \in DOMAIN Columns :
            /\ Lower[Columns[i]] = n
            /\ \A j \in DOMAIN Columns : Lower[Columns[j]] = n => j <= i]]

NextRow_Skip ==          \* Mutant: a row that Scan fails on is skipped.
  /\ spc = "rows" /\ ~closed /\ Len(rows) < MaxRows
  /\ closed' \in BOOLEAN
  /\ \E row \in Rows :
       /\ rows' = Append(rows, row)
       /\ values' = Scan(row, closed')
       /\ tbm' = IF closed' \/ \E i \in DOMAIN Columns : row[i].kind = "null" THEN tbm
                 ELSE Append(tbm, entry(Scan(row, closed')))
  /\ UNCHANGED <<spc, target, fields, out, err>>

(* Next finds a row unless the rows are closed; they may be closed, by the *)
(* context of the query, before Scan.                                      *)
NextRow ==
  /\ spc = "rows" /\ ~closed /\ Len(rows) < MaxRows
  /\ closed' \in BOOLEAN
  /\ \E row \in Rows :
       /\ rows' = Append(rows, row)
       /\ values' = Scan(row, closed')
       /\ tbm' = Append(tbm, entry(Scan(row, closed')))
  /\ UNCHANGED <<spc, target, fields, out, err>>

(* Next returns false, at the end or because of an error.                  *)
RowsEnd ==
  /\ spc = "rows"
  /\ spc' = "table"
  /\ UNCHANGED <<rows, closed, values, tbm, target, fields, out, err>>

(* The columns of rows that are closed cannot be had.                      *)
ColumnsFail ==
  /\ spc = "rows" /\ rows = <<>>
  /\ spc' = "done"
  /\ err' = TRUE
  /\ UNCHANGED <<rows, closed, values, tbm, target, fields, out>>

-----------------------------------------------------------------------------
(* UnMarshal.                                                              *)

(* Whether the text can be parsed for a field of that kind: an integer of  *)
(* 64 bits, a float of 64 bits, or a truth value, for which 0 and 1 do.    *)
Parses(kind, cell) ==
  CASE kind \in {"int32", "int64"}     -> cell.kind = "whole" /\ cell.v \in Ints("int64")
    [] kind \in {"uint32", "uint64"}   -> cell.kind = "whole" /\ cell.v \in Ints("uint64")
    [] kind \in {"float32", "float64"} -> cell.kind \in {"whole", "float"}
    [] kind = "bool" -> cell.kind = "truth" \/ (cell.kind = "whole" /\ cell.v \in {0, 1})
    [] kind \in {"private", "other"}   -> FALSE
    [] kind \in {"string", "slice"}     -> TRUE

(* What the field holds then: of an integer the bits that the type has, of *)
(* a number the nearest float64 and, in a float32, the nearest to that.    *)
Stored(kind, cell) ==
  CASE kind \in IntTypes  -> Content("value", Wrapped(kind, cell.v))
    [] kind = "float64"   -> Content("value", Float(cell.v))
    [] kind = "float32"   -> Content("value", Rounded(SingleMant, Float(cell.v)))
    [] kind = "bool"      -> Content("value", cell.v)
    [] kind \in {"string", "slice"} -> cell

(* A column that is missing or empty leaves the field f alone, and so does *)
(* a field that is a slice of anything but bytes.                          *)
Leaves(f, m) == f.col \notin DOMAIN m \/ m[f.col].kind = "empty" \/ f.kind = "slice"

Fails(f, m) ==
  /\ f.col \in DOMAIN m
  /\ f.kind = "private" \/ (m[f.col].kind # "empty" /\ ~Parses(f.kind, m[f.col]))

RowFails(m) == \E j \in DOMAIN fields : Fails(fields[j], m)

(* mapSingle2interface: the fields before the first that fails are set.    *)
mapSingle2interface_Zero(m, struct) ==  \* Mutant: an empty column sets the zero value.
  [i \in DOMAIN fields |->
     IF \E j \in 1 .. i : Fails(fields[j], m) THEN struct[i]
     ELSE IF Leaves(fields[i], m) THEN Content("zero", 0)
     ELSE Stored(fields[i].kind, m[fields[i].col])]

mapSingle2interface(m, struct) ==
  [i \in DOMAIN fields |->
     IF Leaves(fields[i], m) \/ \E j \in 1 .. i : Fails(fields[j], m)
       THEN struct[i] ELSE Stored(fields[i].kind, m[fields[i].col])]

(* The kind of the target, which ToMap does not look at: a struct wants    *)
(* exactly one row, and a slice is replaced by one of as many structs as   *)
(* there are rows, if there are any.                                       *)
Choose ==
  /\ spc = "table"
  /\ fields' \in FieldLists
  /\ \/ /\ target' = "struct"
        /\ err' = (Len(tbm) # 1)
        /\ spc' = IF Len(tbm) = 1 THEN "fields" ELSE "done"
        /\ out' = <<Given(fields')>>
     \/ /\ target' = "slice"
        /\ spc' = IF tbm = <<>> THEN "done" ELSE "fields"
        /\ out' = IF tbm = <<>> THEN <<Given(fields')>> ELSE [i \in DOMAIN tbm |-> Fresh(fields')]
        /\ UNCHANGED err
     \/ /\ target' = "other"
        /\ err' = TRUE
        /\ spc' = "done"
        /\ UNCHANGED out
  /\ UNCHANGED <<rows, closed, values, tbm>>

(* mapSlice2interface stops at the first row that fails.                   *)
Fill ==
  /\ spc = "fields"
  /\ out' = [i \in DOMAIN out |->
               IF \E j \in 1 .. (i - 1) : RowFails(tbm[j]) THEN out[i]
               ELSE mapSingle2interface(tbm[i], out[i])]
  /\ err' = \E i \in DOMAIN tbm : RowFails(tbm[i])
  /\ spc' = "done"
  /\ UNCHANGED <<rows, closed, values, tbm, target, fields>>

SqlNext == NextRow \/ RowsEnd \/ ColumnsFail \/ Choose \/ Fill

SqlSpec == SqlInit /\ [][SqlNext]_sqlVars

-----------------------------------------------------------------------------
(* The column that a field is filled from: the last of its name.           *)
SourceOf(name) ==
  CHOOSE i \in DOMAIN Columns :
    /\ Lower[Columns[i]] = name
    /\ \A j \in DOMAIN Columns : Lower[Columns[j]] = name => j <= i

(* Every row of the result set is a row of the table, and a cell holds the *)
(* value of its own row unless that row has a NULL in or before its column *)
(* or was closed before Scan, as only the last can be; then it holds what  *)
(* the row before it had there (empty in the first row)                    *)
(* (sql_unmarshal.go:40-56).                                               *)
TableHoldsRows ==
  /\ Len(tbm) = Len(rows)
  /\ \A k \in DOMAIN rows, name \in Names :
       LET i == SourceOf(name)
           scanned == /\ closed => k # Len(rows)
                      /\ \A j \in 1 .. i : rows[k][j].kind # "null"
       IN tbm[k][name] = IF scanned THEN rows[k][i]
                         ELSE IF k = 1 THEN Empty ELSE tbm[k - 1][name]

(* What a field of that kind may hold for that cell: the text itself, the  *)
(* truth value, the number as a float of the field's size, or an integer   *)
(* of the field's type that differs from the number by a multiple of the   *)
(* type's size.  So an integer the type can hold is exact, and another one *)
(* is not reported.                                                        *)
Holds(kind, cell, x) ==
  CASE kind = "string"    -> x = cell
    [] kind \in IntTypes  -> /\ cell.kind = "whole" /\ x.kind = "value"
                             /\ x.v \in Ints(kind)
                             /\ (x.v - cell.v) % 2 ^ Bits(kind) = 0
    [] kind = "float64"   -> x = Content("value", Float(cell.v))
    [] kind = "float32"   -> x = Content("value", Rounded(SingleMant, Float(cell.v)))
    [] kind = "bool"      -> x = Content("value", cell.v) /\ cell.kind \in {"truth", "whole"}
    [] kind \in {"slice", "private", "other"} -> FALSE

(* When UnMarshal returns nil, every struct has in its fields the          *)
(* non-empty cells of its own row, as far as their types can hold them,    *)
(* and keeps what it had in the others; an empty result set leaves a slice *)
(* as it was (sql_unmarshal.go:60-175).                                    *)
NilMeansFilled ==
  (spc = "done" /\ ~err) =>
    LET before == Content(IF target = "struct" THEN "old" ELSE "zero", 0)
    IN IF tbm = <<>> THEN out = <<Given(fields)>>
       ELSE /\ Len(out) = Len(tbm)
            /\ \A k \in DOMAIN tbm, i \in DOMAIN fields :
                 LET f == fields[i]
                 IN IF f.col \in Names /\ tbm[k][f.col].kind # "empty" /\ f.kind # "slice"
                      THEN Holds(f.kind, tbm[k][f.col], out[k][i])
                      ELSE out[k][i] = before

=============================================================================
