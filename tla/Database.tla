------------------------------ MODULE Database ------------------------------
(***************************************************************************)
(* Database::query of database.cpp.  A query is a sequence of characters,  *)
(* where a word such as INSERT and a text of digits count as one.  It      *)
(* opens its table anew, so the process keeps nothing from one query to    *)
(* the next but the descriptors that open leaks.  The stores of an insert  *)
(* inside the tree are in PersistentTree: here a row is put into slot 0,   *)
(* and an INSERT that dies leaves what a prefix of those stores leaves.  A *)
(* find returns slot 0 if key_equal holds there, and the place behind the  *)
(* last pair if not.  A death inside CREATE is in MemoryPageManager only.  *)
(***************************************************************************)
EXTENDS StringParser, TypedValues, SequencesExt

CONSTANTS
  Query,                       \* the queries asked
  Name,                        \* names of tables, sequences of characters
  Text,                        \* strings the parser is compared on
  AreaSize, LimitSize,         \* bytes for slots in a page, and as InitHeader assumes
  MaxFiles,                    \* descriptors a process may have open
  MaxInserts                   \* bound: inserts into a table

ASSUME BoundAssumption == MaxFiles \in Nat /\ MaxInserts \in Nat
\* A query is a sequence, of whatever characters.
ASSUME QueryAssumption == \A q \in Query : q \in Seq(ToSet(q))

NoTable == [kind |-> "none"]
Nothing == <<>>
NoInsert == [key |-> <<>>, data |-> <<>>]

VARIABLES
  tables,                      \* the files: per name its columns, its root page and slot 0
  files,                       \* descriptors the process has open
  got,                         \* what the last GET asked for and found
  \* history, per table
  given,                       \* the texts of the last INSERT, if none was interrupted since
  inserted                     \* the INSERTs that returned

vars == <<tables, files, got, given, inserted>>

Row(columns) == [i \in DOMAIN columns |-> garbage]

\* How far a table has come to a root: no page; room for one in the page file; a
\* page that is free; pages that no reference names; pages that end every open;
\* and a root, which is the only leaf.
PageStates == {"none", "sized", "free", "leaked", "broken", "root"}

TypeOK ==
  /\ \A n \in Name : tables[n] # NoTable =>
       /\ DOMAIN tables[n].data = DOMAIN tables[n].dataColumns
       /\ tables[n].page \in PageStates /\ tables[n].tail \in BOOLEAN
       /\ tables[n].count \in 0 .. MaxInserts
  /\ files \in 0 .. MaxFiles
  /\ got # Nothing => got.name \in Name /\ tables[got.name] # NoTable

Init ==
  /\ tables = [n \in Name |-> NoTable]
  /\ files = 0
  /\ got = Nothing
  /\ given = [n \in Name |-> NoInsert]
  /\ inserted = [n \in Name |-> 0]

-----------------------------------------------------------------------------
\* The word of a query that parser.next() returns at its nth call.
parsed == [q \in Query |-> words(q)]
word(q, n) == IF n <= Len(parsed[q]) THEN parsed[q][n] ELSE <<>>
kind(q) == word(q, 1)
name(q) == word(q, 2)
keyStr(q)  == word(q, 3)
dataStr(q) == word(q, 4)

\* substr(1, length - 2), and the words in it.
inner(w) == SubSeq(w, 2, Len(w) - 1)
texts(w) == words(inner(w))

\* The loop over the texts never advances i: each goes to column 0.
filled(columns, ts) ==
  LET after[n \in 0 .. Len(ts)] ==
        IF n = 0 THEN Row(columns) ELSE SetData(columns, after[n - 1], 1, ts[n][1])
  IN after[Len(ts)]
\* A store beyond the buffer, which is in the heap of the process.
smashes(columns, ts) == ts # <<>> /\ (columns # <<>> => Overruns(columns, 1))

\* InitHeader and get_node: the data lies as many bytes behind the keys as the
\* page is said to have slots, in the page or not.
nSlots(t) == LimitSize \div (TotalSize(t.keyColumns) + Max({TotalSize(t.dataColumns), 4}))
Fits(t) == nSlots(t) + TotalSize(t.dataColumns) <= AreaSize

\* The process dies, and the next query is asked of a new one.
NewProcess == files' = 0 /\ got' = Nothing
Die == NewProcess /\ UNCHANGED <<tables, given, inserted>>

\* mutant: there is always a descriptor
CanOpenAlways(q) == name(q) \in Name /\ tables[name(q)] # NoTable
CanOpen(q) == name(q) \in Name /\ tables[name(q)] # NoTable /\ files < MaxFiles
\* Each page that is mapped takes a descriptor until its handle is dropped.
CanMapPage == files + 1 < MaxFiles
\* open maps every page the header counts.
HasPages(t) == t.page \notin {"none", "sized"}
OpensPages(t) == t.page # "broken" /\ (HasPages(t) => CanMapPage)
Opened == files' = files + 1

Asked(q) == q \in Query /\ ~(kind(q) = <<"INSERT">> /\ CanOpen(q)
                             /\ tables[name(q)].count = MaxInserts)

-----------------------------------------------------------------------------
(* CREATE *)

\* Without a descriptor CreateHeader fails and nobody is told; a second
\* CREATE fails the assertion of InitHeader.
CreateTable(q) ==
  /\ kind(q) = <<"CREATE">>
  /\ keyStr(q) # <<>> /\ dataStr(q) # <<>> /\ name(q) \in Name
  /\ tables[name(q)] = NoTable /\ files < MaxFiles
  /\ LET columns == [n \in DOMAIN tokenize(dataStr(q)) |-> tokenize(dataStr(q))[n][1]]
         keys == [n \in DOMAIN tokenize(keyStr(q)) |-> tokenize(keyStr(q))[n][1]]
     IN tables' = [tables EXCEPT ![name(q)] =
                     [kind |-> "table", keyColumns |-> keys, dataColumns |-> columns,
                      page |-> "none", tail |-> FALSE, count |-> 0, data |-> Row(columns)]]
  /\ Opened
  /\ got' = Nothing
  /\ UNCHANGED <<given, inserted>>

CreateAgain(q) ==
  /\ kind(q) = <<"CREATE">>
  /\ keyStr(q) # <<>> /\ dataStr(q) # <<>>
  /\ name(q) \in Name /\ tables[name(q)] # NoTable /\ files < MaxFiles
  /\ Die

-----------------------------------------------------------------------------
(* Opening a table                                                         *)

\* open of a table that does not exist, or without a descriptor.
OpenFails(q) ==
  /\ kind(q) \in {<<"INSERT">>, <<"GET">>}
  /\ ~CanOpen(q)
  /\ Die

\* Its pages cannot be mapped, or the last of them has no id or is not in the file.
OpenDies(q) ==
  /\ kind(q) \in {<<"INSERT">>, <<"GET">>} /\ CanOpen(q)
  /\ ~OpensPages(tables[name(q)])
  /\ Die

Opens(q) == CanOpen(q) /\ OpensPages(tables[name(q)])

\* A word is missing: the table is opened and left.
OpensOnly(q) ==
  /\ \/ kind(q) = <<"INSERT">> /\ (keyStr(q) = <<>> \/ dataStr(q) = <<>>)
     \/ kind(q) = <<"GET">> /\ keyStr(q) = <<>>
  /\ Opens(q)
  /\ Opened
  /\ got' = Nothing
  /\ UNCHANGED <<tables, given, inserted>>

-----------------------------------------------------------------------------
(* INSERT                                                                  *)

Inserts(q) == kind(q) = <<"INSERT">> /\ keyStr(q) # <<>> /\ dataStr(q) # <<>> /\ Opens(q)

\* InsertPage without a descriptor: the file is not made longer and nobody is
\* told, the header counts the page, and the process dies when it maps it.
PageFails(q) ==
  /\ Inserts(q) /\ ~CanMapPage
  /\ tables' = [tables EXCEPT ![name(q)].page = IF @ = "none" THEN "broken" ELSE "free"]
  /\ NewProcess
  /\ UNCHANGED <<given, inserted>>

\* mutant: open does not read the root of the header
AllocatesPageAlways(t) == TRUE
AllocatesPage(t) == t.page # "root"

\* The table when its root is there with all references.
Rooted(t) == IF AllocatesPage(t)
             THEN [t EXCEPT !.page = "root", !.tail = TRUE, !.count = 0] ELSE t

\* What SetData leaves in slot 0: what lies beyond the page may be kept or not.
Stored(t, row) == IF Fits(t) THEN {row} ELSE {row, Row(t.dataColumns)}

\* mutant: a pair is put behind those with an equal key
InsertPairBehind(q) ==
  /\ Inserts(q) /\ CanMapPage
  /\ LET t == Rooted(tables[name(q)])
         row == filled(t.dataColumns, texts(dataStr(q)))
     IN tables' = [tables EXCEPT ![name(q)] =
                     [t EXCEPT !.count = @ + 1, !.data = IF t.count > 0 THEN @ ELSE row]]
  /\ given' = [given EXCEPT ![name(q)] = [key |-> texts(keyStr(q)), data |-> texts(dataStr(q))]]
  /\ inserted' = [inserted EXCEPT ![name(q)] = @ + 1]
  /\ Opened
  /\ got' = Nothing
InsertPair(q) ==
  /\ Inserts(q) /\ CanMapPage
  /\ LET t == Rooted(tables[name(q)])
     IN \E data \in Stored(t, filled(t.dataColumns, texts(dataStr(q)))) :
          tables' = [tables EXCEPT ![name(q)] = [t EXCEPT !.count = @ + 1, !.data = data]]
  /\ given' = [given EXCEPT ![name(q)] = [key |-> texts(keyStr(q)), data |-> texts(dataStr(q))]]
  /\ inserted' = [inserted EXCEPT ![name(q)] = @ + 1]
  /\ Opened
  /\ got' = Nothing

\* How far InsertPage may have come: file length, nPages, isInit and, for any
\* page but the first, its id.
PageSteps ==
  [none |-> {"none", "sized", "free", "leaked"}, sized |-> {"sized", "free", "leaked"},
   free |-> {"free", "leaked"}, leaked |-> {"leaked", "broken"}, root |-> {"root"}]

\* The stores of an INSERT that may have been made: in InsertPage, then the root
\* and the tail in the header, then in slot 0, then the count.
Outcomes(t, row) ==
  LET rooted == Rooted(t)
      blank  == Row(t.dataColumns)
  IN {[t EXCEPT !.page = p] : p \in PageSteps[t.page]}
     \cup {[rooted EXCEPT !.tail = t.tail], rooted}
     \cup {[rooted EXCEPT !.data = d] : d \in {blank, row}}
     \cup {[rooted EXCEPT !.data = d, !.count = @ + 1] : d \in Stored(t, row)}

\* The process is killed inside an INSERT, maybe by a store of a text beyond its
\* buffer or of the pair beyond its page.
Interrupted(q) ==
  /\ Inserts(q) /\ CanMapPage
  /\ LET t == tables[name(q)]
     IN \E u \in Outcomes(t, filled(t.dataColumns, texts(dataStr(q)))) :
          tables' = [tables EXCEPT ![name(q)] = u]
  /\ given' = [given EXCEPT ![name(q)] = NoInsert]
  /\ NewProcess
  /\ UNCHANGED inserted

-----------------------------------------------------------------------------
(* GET                                                                     *)

Gets(q) == kind(q) = <<"GET">> /\ keyStr(q) # <<>> /\ Opens(q)

hits(q) ==
  LET t == tables[name(q)]
      key == filled(t.keyColumns, texts(keyStr(q)))
  IN t.page = "root" /\ t.count > 0 /\ row_equal(t.keyColumns, key, Row(t.keyColumns))

\* A text beyond its buffer, or a slot beyond the page.
Smashes(q) ==
  /\ Gets(q)
  /\ \/ smashes(tables[name(q)].keyColumns, texts(keyStr(q)))
     \/ ~Fits(tables[name(q)])
  /\ Die

\* find copies a null handle for End(): of a tree without a root, and where it
\* finds nothing of one without a tail.
FindDies(q) ==
  /\ Gets(q)
  /\ LET t == tables[name(q)] IN t.page # "root" \/ (~hits(q) /\ ~t.tail)
  /\ Die

\* Otherwise the data at End() is read, which is slot 0 of an empty leaf.
Find(q) ==
  /\ Gets(q)
  /\ LET t == tables[name(q)]
         other == Row(t.dataColumns)
     IN /\ t.page = "root" /\ (hits(q) \/ t.tail)
        /\ \E row \in IF hits(q) \/ t.count = 0
                      THEN (IF Fits(t) THEN {t.data} ELSE {t.data, other}) ELSE {other} :
             got' = [name |-> name(q), key |-> texts(keyStr(q)), hit |-> hits(q), row |-> row]
  /\ Opened
  /\ UNCHANGED <<tables, given, inserted>>

-----------------------------------------------------------------------------
\* Not a query, or a CREATE with a word missing or without a descriptor.
NoEffect(q) ==
  /\ \/ kind(q) \notin {<<"CREATE">>, <<"INSERT">>, <<"GET">>}
     \/ kind(q) = <<"CREATE">> /\ (keyStr(q) = <<>> \/ dataStr(q) = <<>> \/ files = MaxFiles)
  /\ got' = Nothing
  /\ UNCHANGED <<tables, files, given, inserted>>

Ask(q) ==
  \/ CreateTable(q) \/ CreateAgain(q)
  \/ OpenFails(q) \/ OpenDies(q) \/ OpensOnly(q)
  \/ PageFails(q) \/ InsertPair(q) \/ Interrupted(q)
  \/ Smashes(q) \/ FindDies(q) \/ Find(q)
  \/ NoEffect(q)

\* A death between two queries, or in one that has stored nothing.
Killed == Die

Next == (\E q \in Query : Asked(q) /\ Ask(q)) \/ Killed

Spec == Init /\ [][Next]_vars

-----------------------------------------------------------------------------
(* Properties *)

\* The row with the known types of its columns.
KnownTypes(columns) == \A i \in DOMAIN columns : GetType(columns[i]) # "t_ntypes"

\* A GET with the key of the last INSERT into a table finds what that inserted,
\* as the type of the column keeps it: for one text of data and a first column of
\* numbers, whatever queries, processes and deaths were in between, unless an
\* INSERT into the table was interrupted; if the types of the key are known to
\* GetType and the columns wide enough for the places in the page.
GetFindsLastInsert ==
  got # Nothing =>
    LET t == tables[got.name]
        last == given[got.name]
    IN /\ got.key = last.key /\ Len(last.data) = 1
       /\ KnownTypes(t.keyColumns) /\ Fits(t)
       /\ 1 \in DOMAIN t.dataColumns /\ t.dataColumns[1] \in Numeric
       => /\ got.hit
          /\ got.row[1] = converted(t.dataColumns[1], last.data[1][1])

\* Once an INSERT has returned, no death at any store of a later one and no
\* missing descriptor costs the table a pair it has counted, its root, or the
\* possibility to open it.
InsertsSurvive ==
  \A n \in Name : inserted[n] > 0 =>
    tables[n] # NoTable /\ tables[n].page = "root" /\ tables[n].count >= inserted[n]

\* The maximal runs of characters that are no blanks, in their order.
Runs(s) ==
  LET Within(a, b) == \A j \in a .. b : s[j] # Blank
      Starts == {a \in DOMAIN s : s[a] # Blank /\ (a = 1 \/ s[a - 1] = Blank)}
      EndOf(a) == CHOOSE b \in a .. Len(s) :
                    Within(a, b) /\ (b = Len(s) \/ s[b + 1] = Blank)
  IN [n \in DOMAIN SetToSortSeq(Starts, <) |->
        LET a == SetToSortSeq(Starts, <)[n] IN SubSeq(s, a, EndOf(a))]

\* Without quotes the words are the runs between blanks; a text in quotes is
\* one word with its blanks, also when it is empty or followed by anything at
\* once; tokenize finds the runs of letters and digits; and a string with
\* quotes anywhere, closed or not, loses no character to them.
WordsAreRuns ==
  LET Letters(s) == SelectSeq(s, LAMBDA c : c \notin {Blank, Quote})
      Plain == {s \in Text : Quote \notin ToSet(s)}
  IN /\ \A s \in Plain : words(s) = Runs(s)
     /\ \A t \in Plain, s \in Text :
          words(<<Quote>> \o t \o <<Quote>> \o s) = <<t>> \o words(s)
     /\ \A s \in Text :
          /\ tokenize(s) = Runs(blanked(s))
          /\ Letters(FlattenSeq(words(s))) = Letters(s)

\* However hasNext and next move m_idx, the parser cuts a string at its blanks
\* and nowhere else, in any short string (WordsAreRuns) and in key and data of an
\* INSERT, which two parsers cut one after the other: written again with
\* blanks between them, its texts are cut into the same texts.
Joined(ts) == FlattenSeq([n \in DOMAIN ts |-> ts[n] \o <<Blank>>])
WordsAreTheInput ==
  /\ WordsAreRuns
  /\ \A n \in Name : \A ts \in {given[n].key, given[n].data} : words(Joined(ts)) = ts
=============================================================================
