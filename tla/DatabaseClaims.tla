--------------------------- MODULE DatabaseClaims ---------------------------
(***************************************************************************)
(* What README.md and the comment of database.cpp say of a query, as a     *)
(* property of Database; it is violated.                                   *)
(***************************************************************************)
EXTENDS MC_Database

\* A table with two columns of data, one row, and a GET with another key.
TwoColumns ==
  {Q("CREATE") \o Q(A) \o In("INT64") \o Quoted2("INT64", "DOUBLE"),
   Q("INSERT") \o Q(A) \o In("seven") \o Quoted2("half", "big"),
   Q("GET") \o Q(A) \o In("word")}

VARIABLE asked                 \* history: the INSERTs asked, with their texts

claimVars == <<vars, asked>>

ClaimInit == Init /\ asked = {}

ClaimNext ==
  \/ \E q \in Query :
       /\ Asked(q) /\ Ask(q)
       /\ asked' = IF kind(q) # <<"INSERT">> THEN asked
                   ELSE asked \cup {[name |-> name(q), key |-> texts(keyStr(q)),
                                     data |-> texts(dataStr(q))]}
  \/ Killed /\ UNCHANGED asked

ClaimSpec == ClaimInit /\ [][ClaimNext]_claimVars

-----------------------------------------------------------------------------
\* README.md:11, "allows searches", and database.cpp:4-8, "(key_types)
\* (data_types)" and "(key) (data)": what a GET finds was inserted under the key
\* it asks for, each text of its data in the column of its place.  Every key
\* equals every other (data_structures.h:391), and each text goes to column 0
\* (database.cpp:65-73).
Answers(e, t) ==
  /\ e.name = got.name /\ e.key = got.key
  /\ \A i \in DOMAIN e.data :
       got.row[i] = converted(GetType(t.dataColumns[i]), e.data[i][1])
GetAnswersInserts ==
  got # Nothing /\ got.hit => \E e \in asked : Answers(e, tables[got.name])
=============================================================================
