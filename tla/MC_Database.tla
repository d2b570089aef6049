---------------------------- MODULE MC_Database -----------------------------
(* Tables, texts and queries for TLC. *)
EXTENDS Database

Strings == [STRING64 |-> 64, STRING8 |-> 8]
\* Halves: 1.5, 7, 70000 and nothing that is a number.
Numbers == [half |-> 3, seven |-> 14, big |-> 140000, word |-> 0]

A == "t"
B == "u"
Q(w) == <<w, " ">>
In(x) == <<"(", x, ")", " ">>
In2(x, y) == <<"(", x, " ", y, ")", " ">>
Quoted2(x, y) == <<"'", "(", x, " ", y, ")", "'", " ">>

CreateQueries ==
  {Q("CREATE") \o Q(A) \o Quoted2("STRING64", "INT") \o Quoted2("SHORT", "INT"),
   Q("CREATE") \o Q(A) \o In("INT") \o In("INT"),
   Q("CREATE") \o Q(B) \o Quoted2("LONGLONG", "STRING64") \o In("BOOL"),
   Q("CREATE") \o Q(B) \o In("STRING64") \o Quoted2("DOUBLE", "STRING64"),
   Q("CREATE") \o Q(B) \o In("INT") \o <<"(", ")", " ">>,
   Q("CREATE") \o Q(B) \o In("INT")}
InsertQueries ==
  {Q("INSERT") \o Q(n) \o In("seven") \o In(x) : n \in {A, B}, x \in {"half", "big"}}
  \cup {Q("INSERT") \o Q(A) \o In("half") \o Quoted2("seven", "big"),
        Q("INSERT") \o Q(A) \o In2("seven", "seven") \o In("half"),
        Q("INSERT") \o Q(A) \o In("half")}
GetQueries ==
  {Q("GET") \o Q(A) \o In(x) : x \in {"seven", "word"}}
  \cup {Q("GET") \o Q(B) \o In("seven"), Q("GET") \o Q(A)}

Queries == CreateQueries \cup InsertQueries \cup GetQueries
\* All strings of up to four of these characters.
ShortStrings == UNION {[1 .. n -> {" ", "'", "t", "("}] : n \in 0 .. 4}

Tables == {<<A>>, <<B>>}
AlnumChars == DOMAIN Strings \cup DOMAIN Numbers \cup Numeric
              \cup {A, B, "CREATE", "INSERT", "GET", "LONGLONG"}
=============================================================================
