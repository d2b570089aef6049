--------------------------- MODULE PersistentTree ---------------------------
(***************************************************************************)
(* PersistentBTree of persistentbtree.h as every program that opens a      *)
(* table runs it: open() sets nodeslotmax from the header, no code sets    *)
(* page->nSlots, so isfull never holds and the tree is one leaf.  The      *)
(* slots of a page are its bytes behind the MemoryPage, addressed as       *)
(* MemoryPage.cpp does it.                                                 *)
(*                                                                         *)
(* Pages and header are shared mappings: each action below makes one store *)
(* (a memcpy is one, also when its ranges overlap) and the process may die *)
(* between any two.  What happens inside Create and InsertPage is in       *)
(* MemoryPageManager: here a table is one whose creation was completed.    *)
(***************************************************************************)
EXTENDS Integers

CONSTANTS Key, Data,           \* what is stored
          Blank,               \* a byte nobody wrote; no data known
          KeySize, DataSize,   \* bytes of a key and of its data
          IntSize,             \* sizeof(int)
          AreaSize,            \* bytes of a mapped page behind its MemoryPage
          LimitSize,           \* the same, for the page size InitHeader assumes
          MaxInserts,          \* bound: inserts that are started
          MaxDeaths            \* bound: how often the process dies

ASSUME SizeAssumption ==
  /\ KeySize \in Nat \ {0} /\ DataSize \in Nat \ {0} /\ IntSize \in Nat \ {0}
  /\ AreaSize \in Nat /\ LimitSize \in Nat
  \* InitHeader counts a slot at least; with none isfull would hold.
  /\ KeySize + DataSize <= LimitSize /\ KeySize + IntSize <= LimitSize
ASSUME BoundAssumption == MaxInserts \in Nat /\ MaxDeaths \in Nat
ASSUME BlankAssumption == Blank \notin Key \cup Data

Max2(a, b) == IF a < b THEN b ELSE a

PageId == 0 .. MaxDeaths       \* a process allocates one page at most
NoPage == -1

VARIABLES
  \* the header file
  created,                     \* the table exists
  rootPage, headLeaf, tailLeaf, nPages,
  \* the page file
  slotuse, area,               \* per page; area maps the bytes written so far
  \* the process
  isOpen,
  m_rootId, m_headleafId, m_tailleafId, itemcount,
  pc, key, data, i,            \* insert: where it is, its arguments, loop counter
  \* history
  last,                        \* data of the last insert, Blank while unknown,
  lastKey,                     \* and the key of the last one that returned
  done, deaths,                \* inserts that returned; deaths of the process
  strayed                      \* a store missed the page

headerVars  == <<created, rootPage, headLeaf, tailLeaf, nPages>>
pageVars    == <<slotuse, area>>
memberVars  == <<m_rootId, m_headleafId, m_tailleafId>>
insertVars  == <<pc, key, data, i>>
processVars == <<isOpen, memberVars, itemcount, insertVars>>
historyVars == <<last, lastKey, done, deaths, strayed>>
vars        == <<headerVars, pageVars, processVars, historyVars>>

Byte == (Key \cup Data \cup {Blank}) \X Nat

TypeOK ==
  /\ created \in BOOLEAN
  /\ rootPage \in PageId \cup {NoPage}
  /\ headLeaf \in PageId \cup {NoPage} /\ tailLeaf \in PageId \cup {NoPage}
  /\ nPages \in 0 .. MaxDeaths + 1
  /\ slotuse \in [PageId -> Nat]
  /\ DOMAIN area = PageId
  /\ \A n \in PageId :
       /\ DOMAIN area[n] \subseteq 0 .. AreaSize - 1
       /\ \A a \in DOMAIN area[n] : area[n][a] \in Byte
  /\ isOpen \in BOOLEAN
  /\ m_rootId \in PageId \cup {NoPage}
  /\ m_headleafId \in PageId \cup {NoPage} /\ m_tailleafId \in PageId \cup {NoPage}
  /\ itemcount \in Nat
  /\ pc \in {"idle", "allocate", "setRoot", "setHead", "setTail",
             "copyKeys", "copyData", "setKey", "setData", "count"}
  /\ key \in Key \cup {Blank} /\ data \in Data \cup {Blank}
  /\ i \in Nat
  /\ last \in Data \cup {Blank} /\ lastKey \in Key \cup {Blank}
  /\ done \in 0 .. MaxInserts /\ deaths \in 0 .. MaxDeaths
  /\ strayed \in BOOLEAN

Init ==
  /\ created = FALSE /\ nPages = 0
  /\ rootPage = NoPage /\ headLeaf = NoPage /\ tailLeaf = NoPage
  /\ slotuse = [n \in PageId |-> 0]
  /\ area = [n \in PageId |-> [a \in {} |-> Blank]]
  /\ isOpen = FALSE
  /\ m_rootId = NoPage /\ m_headleafId = NoPage /\ m_tailleafId = NoPage
  /\ itemcount = 0
  /\ pc = "idle" /\ key = Blank /\ data = Blank /\ i = 0
  /\ last = Blank /\ lastKey = Blank /\ done = 0 /\ deaths = 0 /\ strayed = FALSE

-----------------------------------------------------------------------------
(* The page: where slots are read and written                              *)

\* InitHeader: the number of slots of a page, and get_node: data starts as
\* many bytes behind the keys as there are slots.
nSlots == LimitSize \div (KeySize + Max2(DataSize, IntSize))
slotdata == nSlots

GetKeyAt(slot)  == KeySize * slot
GetDataAt(slot) == slotdata + DataSize * slot
\* SetKey stores among the data, SetData at the place of a child id.
SetKeyAt(slot)  == slotdata + DataSize * slot
SetDataAtNext(slot) == slotdata + IntSize * (slot + 1)   \* mutant: slots from one
SetDataAt(slot) == slotdata + IntSize * slot

\* The image of a key or of data in memory, and n bytes read from a page;
\* what lies behind its end is nothing the program wrote there.
Image(v, n) == [b \in 0 .. n - 1 |-> <<v, b>>]
Read(page, at, n) ==
  [b \in 0 .. n - 1 |->
     IF at + b \in DOMAIN area[page] THEN area[page][at + b] ELSE <<Blank, 0>>]

OverlayBeyond(bytes, at, n, new) ==   \* mutant: the page has no end
  [a \in DOMAIN bytes \cup at .. at + n - 1 |->
     IF a \in at .. at + n - 1 THEN new[a - at] ELSE bytes[a]]
\* Store n bytes; those beyond the mapping are in no file.
Overlay(bytes, at, n, new) ==
  [a \in DOMAIN bytes \cup {x \in at .. at + n - 1 : x < AreaSize} |->
     IF a \in at .. at + n - 1 THEN new[a - at] ELSE bytes[a]]
Store(at, n, new) ==
  /\ area' = [area EXCEPT ![m_rootId] = Overlay(@, at, n, new)]
  /\ strayed' = (strayed \/ at + n > AreaSize)

-----------------------------------------------------------------------------
(* Comparing and searching                                                 *)

\* DataType's operators: <= is yet to be written, and < makes both sides of
\* every field comparison from the left operand.
key_lessequal(a, b) == TRUE
key_less(a, b) == a # a
key_equalBoth(a, b) == a = b   \* mutant: both operands are looked at
key_equal(a, b) == ~key_less(a, b) /\ ~key_less(b, a)

keyAt(slot) == Read(m_rootId, GetKeyAt(slot), KeySize)

Use == slotuse[m_rootId]

\* Binary search, by what it ends at: the first slot whose key k is not above
\* (key_lessequal has one answer for all slots), slotuse if there is none.
find_lower(k) ==
  LET left(slot) == key_lessequal(Image(k, KeySize), keyAt(slot))
  IN CHOOSE s \in 0 .. Use : (s = Use \/ left(s)) /\ \A t \in 0 .. s - 1 : ~left(t)

KeyEqual(k, slot) == key_equal(Image(k, KeySize), keyAt(slot))
Hit(k) == find_lower(k) < Use /\ KeyEqual(k, find_lower(k))

\* get_node of anything else is a null MemoryNode, and to copy one is to
\* dereference it.
Mapped(n) == n \in 0 .. nPages - 1

\* What find returns on a tree with a root: the data, or Blank for End().
found(k) == IF Hit(k) THEN Read(m_rootId, GetDataAt(find_lower(k)), DataSize)
                      ELSE Image(Blank, DataSize)

\* The calls that kill the process, by the handles they copy.
FindDies(k) == Mapped(m_rootId) => ~Hit(k) /\ ~Mapped(m_tailleafId)
SearchDies  == ~Mapped(m_rootId)          \* exists, lower_bound, upper_bound
\* count runs over all equal keys up to the end of the leaf, then goes on in
\* leaf->nextleaf, which is -1.
CountDies(k) ==
  Mapped(m_rootId) =>
     /\ find_lower(k) < Use
     /\ \A slot \in find_lower(k) .. Use - 1 : KeyEqual(k, slot)
BeginDies == ~Mapped(m_headleafId)
EndDies   == ~Mapped(m_tailleafId)
\* erase_one and erase(iterator) pass node() for the parents.
EraseDies == m_rootId # NoPage

-----------------------------------------------------------------------------
(* The process                                                             *)

Idle == pc = "idle"

\* The process ends, and a new one starts with an object that has no table.
Die ==
  /\ deaths < MaxDeaths
  /\ deaths' = deaths + 1
  /\ isOpen' = FALSE
  /\ m_rootId' = NoPage /\ m_headleafId' = NoPage /\ m_tailleafId' = NoPage
  /\ itemcount' = 0
  /\ pc' = "idle" /\ key' = Blank /\ data' = Blank /\ i' = 0
  /\ UNCHANGED <<headerVars, pageVars, last, lastKey, done, strayed>>

\* It is killed at any time, maybe by a store or a load beyond the page.
Killed == Die

\* create, to its end; a second one fails the assertion of InitHeader.
Create ==
  /\ Idle /\ ~isOpen /\ ~created
  /\ created' = TRUE
  /\ UNCHANGED <<rootPage, headLeaf, tailLeaf, nPages, pageVars, processVars, historyVars>>
CreateAgain == Idle /\ ~isOpen /\ created /\ Die

\* open: the references are read once; without a table the header is null.
Open ==
  /\ Idle /\ ~isOpen /\ created
  /\ isOpen' = TRUE
  /\ m_rootId' = rootPage /\ m_headleafId' = headLeaf /\ m_tailleafId' = tailLeaf
  /\ UNCHANGED <<headerVars, pageVars, itemcount, insertVars, historyVars>>
OpenMissing == Idle /\ ~isOpen /\ ~created /\ Die

\* clear: only the manager is closed, the members stay as they are.
Clear ==
  /\ Idle /\ isOpen
  /\ isOpen' = FALSE
  /\ UNCHANGED <<headerVars, pageVars, memberVars, itemcount, insertVars, historyVars>>

\* A call that copies a null handle (or, without an open table, reads the
\* null header).  The other calls return and change nothing.
FatalCall ==
  /\ Idle
  /\ \/ ~isOpen
     \/ \E k \in Key : FindDies(k) \/ CountDies(k)
     \/ SearchDies
     \/ BeginDies \/ EndDies
     \/ EraseDies
  /\ Die

-----------------------------------------------------------------------------
(* insert                                                                  *)

At(label) == pc = label
Goto(label) == pc' = label /\ i' = 0

InsertStart ==
  /\ Idle /\ isOpen
  /\ done < MaxInserts
  /\ \E k \in Key, d \in Data : key' = k /\ data' = d
  /\ Goto(IF m_rootId = NoPage THEN "allocate" ELSE "copyKeys")
  /\ UNCHANGED <<headerVars, pageVars, isOpen, memberVars, itemcount, historyVars>>

\* allocate_leaf: InsertPage, then initialize.
AllocateLeaf ==
  /\ At("allocate")
  /\ nPages' = nPages + 1
  /\ slotuse' = [slotuse EXCEPT ![nPages] = 0]
  /\ m_rootId' = nPages /\ m_headleafId' = nPages /\ m_tailleafId' = nPages
  /\ Goto("setRoot")
  /\ UNCHANGED <<created, rootPage, headLeaf, tailLeaf, area, isOpen, itemcount,
                 key, data, historyVars>>

\* mutant: the head is stored before the root
SetHeadFirst ==
  /\ At("setRoot")
  /\ headLeaf' = m_headleafId
  /\ Goto("setHead")
  /\ UNCHANGED <<created, rootPage, tailLeaf, nPages, pageVars, isOpen,
                 memberVars, itemcount, key, data, historyVars>>
SetRootId ==
  /\ At("setRoot")
  /\ rootPage' = m_rootId
  /\ Goto("setHead")
  /\ UNCHANGED <<created, headLeaf, tailLeaf, nPages, pageVars, isOpen,
                 memberVars, itemcount, key, data, historyVars>>

SetHeadLeafId ==
  /\ At("setHead")
  /\ headLeaf' = m_headleafId
  /\ Goto("setTail")
  /\ UNCHANGED <<created, rootPage, tailLeaf, nPages, pageVars, isOpen,
                 memberVars, itemcount, key, data, historyVars>>

SetTailLeafId ==
  /\ At("setTail")
  /\ tailLeaf' = m_tailleafId
  /\ Goto("copyKeys")
  /\ UNCHANGED <<created, rootPage, headLeaf, nPages, pageVars, isOpen,
                 memberVars, itemcount, key, data, historyVars>>

\* insert_descend: the keys and then the data of the slots from find_lower on
\* (which is slot 0) are copied behind slotuse, forwards and one by one.
Slot == find_lower(key)
From == Slot + i
ToLater == Use + 2 + i   \* mutant: one slot too far
To == Use + 1 + i

insertUnchanged == <<headerVars, slotuse, isOpen, memberVars, itemcount, key, data,
                     lastKey, done, deaths>>

CopyKey ==
  /\ At("copyKeys") /\ From < Use
  /\ Store(SetKeyAt(To), KeySize, Read(m_rootId, GetKeyAt(From), KeySize))
  /\ i' = i + 1
  /\ UNCHANGED <<insertUnchanged, pc, last>>

\* From here on the data in slot 0 is being overwritten.
KeysCopied ==
  /\ At("copyKeys") /\ From >= Use
  /\ Goto("copyData")
  /\ last' = Blank
  /\ UNCHANGED <<insertUnchanged, area, strayed>>

CopyData ==
  /\ At("copyData") /\ From < Use
  /\ Store(SetDataAt(To), DataSize, Read(m_rootId, GetDataAt(From), DataSize))
  /\ i' = i + 1
  /\ UNCHANGED <<insertUnchanged, pc, last>>

DataCopied ==
  /\ At("copyData") /\ From >= Use
  /\ Goto("setKey")
  /\ UNCHANGED <<insertUnchanged, area, strayed, last>>

SetKey ==
  /\ At("setKey")
  /\ Store(SetKeyAt(Slot), KeySize, Image(key, KeySize))
  /\ Goto("setData")
  /\ UNCHANGED <<insertUnchanged, last>>

SetData ==
  /\ At("setData")
  /\ Store(SetDataAt(Slot), DataSize, Image(data, DataSize))
  /\ Goto("count")
  /\ UNCHANGED <<insertUnchanged, last>>

\* mutant: the leaf does not count the pair
InsertReturnUncounted ==
  /\ At("count")
  /\ itemcount' = itemcount + 1
  /\ last' = data /\ lastKey' = key /\ done' = done + 1
  /\ Goto("idle")
  /\ key' = Blank /\ data' = Blank
  /\ UNCHANGED <<headerVars, pageVars, isOpen, memberVars, deaths, strayed>>
\* leaf->slotuse++, and m_stats.itemcount on return.
InsertReturn ==
  /\ At("count")
  /\ slotuse' = [slotuse EXCEPT ![m_rootId] = @ + 1]
  /\ itemcount' = itemcount + 1
  /\ last' = data /\ lastKey' = key /\ done' = done + 1
  /\ Goto("idle")
  /\ key' = Blank /\ data' = Blank
  /\ UNCHANGED <<headerVars, area, isOpen, memberVars, deaths, strayed>>

Insert ==
  \/ InsertStart
  \/ AllocateLeaf \/ SetRootId \/ SetHeadLeafId \/ SetTailLeafId
  \/ CopyKey \/ KeysCopied \/ CopyData \/ DataCopied
  \/ SetKey \/ SetData \/ InsertReturn

Next ==
  \/ Create \/ CreateAgain \/ Open \/ OpenMissing \/ Clear
  \/ FatalCall \/ Killed
  \/ Insert

Spec == Init /\ [][Next]_vars

-----------------------------------------------------------------------------
(* Properties                                                              *)

\* The references of the header are stored one after the other, after the page
\* they name was allocated: at each store the header names pages that exist,
\* the head leaf only after the root and the tail only after the head, all of
\* them one leaf, and an open tree has read them or is about to store them.
RefsInOrder ==
  /\ rootPage \in 0 .. nPages - 1 \cup {NoPage}
  /\ headLeaf \in {rootPage, NoPage} /\ tailLeaf \in {headLeaf, NoPage}
  /\ isOpen /\ pc \notin {"setRoot", "setHead", "setTail"} =>
       <<m_rootId, m_headleafId, m_tailleafId>> = <<rootPage, headLeaf, tailLeaf>>
  /\ deaths = 0 /\ pc \notin {"setHead", "setTail"} => tailLeaf = rootPage

\* However often the process dies, a death costs at most one page, and no
\* insert that returned is lost from the count in the leaf, nor one that did
\* not counted; size() counts those of the process itself.
InsertsCounted ==
  /\ LET leaked == 0 .. nPages - 1 \ {rootPage, m_rootId}
     IN /\ \A n \in leaked : slotuse[n] = 0
        /\ nPages <= deaths + 1
  /\ done = IF rootPage = NoPage THEN 0 ELSE slotuse[rootPage]
  /\ itemcount <= done

\* Once an insert has returned, a search never meets a null handle, also when
\* the process died before the head and tail references were stored.
SearchSurvives ==
  done > 0 /\ isOpen => ~SearchDies /\ \A k \in Key : ~FindDies(k)

\* Between two calls a search for the key of the insert that returned last, in
\* this process or in one before it, finds the data of that insert, unless an
\* insert was interrupted since; also when earlier data was copied over that
\* place, and earlier keys with it.
LastInsertFound ==
  Idle /\ isOpen /\ last # Blank /\ nSlots + DataSize <= AreaSize =>
    found(lastKey) = Image(last, DataSize)

\* The stores of an insert into a leaf of n pairs stay inside the page.
Room(n) ==
  /\ nSlots + DataSize * (2 * n) + KeySize <= AreaSize
  /\ nSlots + IntSize * (2 * n) + DataSize <= AreaSize

\* No store leaves the page as long as the number of pairs says so: the leaf,
\* which is never split, overflows its page only with later inserts.
InsideWhileRoom == strayed => ~Room(done)
=============================================================================
