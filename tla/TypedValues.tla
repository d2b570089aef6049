----------------------------- MODULE TypedValues -----------------------------
(***************************************************************************)
(* Columns of a table: CVariant, DataStructure and DataType of             *)
(* data_structures.h.  A row is a buffer, seen as what its columns hold.   *)
(***************************************************************************)
EXTENDS Integers, Sequences, FiniteSetsExt

CONSTANTS
  Number,                      \* [texts -> Int]: what strtod reads, in halves
  StringBytes                  \* [names that start with STRING -> Nat]: the n of STRINGn

\* GetType: the type of a column by its name in the query.
Numeric == {"SHORT", "INT", "INT64", "DOUBLE", "BOOL"}
GetType(name) ==
  IF name \in Numeric THEN name
  ELSE IF name \in DOMAIN StringBytes THEN "STRING" ELSE "t_ntypes"

SizeOf == [SHORT |-> 2, INT |-> 4, INT64 |-> 8, DOUBLE |-> 8, BOOL |-> 1]
VariantStringSize == 16
\* GetSize: the bytes a column has.
GetSize(name) ==
  IF name \in Numeric THEN SizeOf[name]
  ELSE IF name \in DOMAIN StringBytes THEN StringBytes[name] + VariantStringSize + 8 ELSE 0

\* What a column may hold: a number in halves, a VariantString whose buf points
\* at an object that is gone, or bytes nobody stored.
number(h) == <<"number", h>>
dangling  == <<"string", 0>>
garbage   == <<"garbage", 0>>

\* atoi and atoll stop at the point; a short keeps the low 16 bits.
truncated(h) == IF h >= 0 THEN h \div 2 ELSE -((-h) \div 2)
wrapped(n) == ((n + 32768) % 65536) - 32768

\* CVariant::SetData: what the column holds afterwards, and the bytes it stores.
converted(type, text) ==
  LET n == truncated(Number[text])
  IN CASE type = "DOUBLE" -> number(Number[text])
       [] type = "SHORT"  -> number(2 * wrapped(n))
       [] type \in {"INT", "INT64"} -> number(2 * n)
       [] type = "BOOL"   -> number(IF n = 0 THEN 0 ELSE 2)
       [] type = "STRING" -> dangling
       [] OTHER           -> garbage
stored(type) == IF type \in Numeric THEN SizeOf[type] ELSE VariantStringSize

\* A DataStructure is the sequence of the column names it was made of.
offset(columns, idx) == MapThenSumSet(LAMBDA i : GetSize(columns[i]), 1 .. idx - 1)
TotalSize(columns) == offset(columns, Len(columns) + 1)

\* DataType::SetData: the columns the stored bytes reach into are overwritten.
SetData(columns, row, idx, text) ==
  LET first == offset(columns, idx)
      end == first + stored(GetType(columns[idx]))
  IN [i \in DOMAIN row |->
        IF i = idx THEN converted(GetType(columns[i]), text)
        ELSE IF offset(columns, i) < end /\ first < offset(columns, i + 1) THEN garbage
        ELSE row[i]]
\* They may reach beyond the buffer.
Overruns(columns, idx) ==
  offset(columns, idx) + stored(GetType(columns[idx])) > TotalSize(columns)

\* CVariant's operators, on two columns of one type; the switch has no case for
\* t_ntypes.
variant_differs(type, a, b) == type = "t_ntypes" \/ a # b
variant_less(type, a, b) == type = "t_ntypes" \/ a[2] < b[2]

\* DataType::operator<, which makes both sides from the left operand.
row_less(columns, row, other) ==
  LET type(i) == GetType(columns[i])
      Differ == {i \in DOMAIN columns : variant_differs(type(i), row[i], row[i])}
  IN Differ # {} /\ variant_less(type(Min(Differ)), row[Min(Differ)], row[Min(Differ)])
row_equal(columns, row, other) ==
  ~row_less(columns, row, other) /\ ~row_less(columns, other, row)
=============================================================================
