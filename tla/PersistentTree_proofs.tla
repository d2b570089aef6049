----------------------- MODULE PersistentTree_proofs -----------------------
(***************************************************************************)
(* What PersistentTree promises, for all sizes of keys, data and pages and *)
(* any number of inserts and deaths.                                       *)
(***************************************************************************)
EXTENDS PersistentTree, TLAPS

USE SizeAssumption, BoundAssumption, BlankAssumption

Storing == {"copyKeys", "copyData", "setKey", "setData", "count"}

\* What each step of an insert relies on.
Steps ==
  /\ pc # "idle" => isOpen /\ done < MaxInserts /\ key \in Key /\ data \in Data
  /\ pc = "allocate" => m_rootId = NoPage
  /\ pc \in {"setRoot", "setHead", "setTail"} =>
       /\ m_rootId # NoPage
       /\ m_headleafId = m_rootId /\ m_tailleafId = m_rootId
       /\ tailLeaf = NoPage
       /\ slotuse[m_rootId] = 0
       /\ rootPage = IF pc = "setRoot" THEN NoPage ELSE m_rootId
       /\ headLeaf = IF pc = "setTail" THEN m_rootId ELSE NoPage
  /\ pc \in Storing => m_rootId # NoPage /\ m_rootId = rootPage
  /\ pc \in {"copyKeys", "copyData"} => i <= slotuse[m_rootId]
  /\ m_rootId \in 0 .. nPages - 1 \cup {NoPage}
  /\ pc # "setRoot" => m_rootId \in {rootPage, NoPage}
  /\ rootPage = NoPage => nPages <= deaths + IF pc = "setRoot" THEN 1 ELSE 0
  /\ \A n \in PageId : n >= nPages => slotuse[n] = 0

\* The data in slot 0 of the root while its insert is known to be the last.
FirstData ==
  /\ last # Blank => rootPage # NoPage /\ slotuse[rootPage] > 0
                     /\ pc \in {"idle", "copyKeys"}
  /\ last # Blank /\ nSlots + DataSize <= AreaSize =>
       Read(rootPage, nSlots, DataSize) = Image(last, DataSize)
  /\ pc = "count" /\ nSlots + DataSize <= AreaSize =>
       Read(m_rootId, nSlots, DataSize) = Image(data, DataSize)

IInv == TypeOK /\ RefsInOrder /\ InsertsCounted /\ InsideWhileRoom /\ Steps /\ FirstData

-----------------------------------------------------------------------------
(* The operators                                                           *)

\* nSlots is a number of bytes.
LEMMA SlotsNat == nSlots \in Nat
BY DEF nSlots, Max2

\* <= of DataType is true and < is false: the search ends at slot 0, whatever
\* the keys, and takes the key there for equal.
LEMMA SearchEndsAtFirst ==
  ASSUME NEW k, Use \in Nat
  PROVE  find_lower(k) = 0
<1> DEFINE P(s) == /\ s = Use \/ key_lessequal(Image(k, KeySize), keyAt(s))
                   /\ \A t \in 0 .. s - 1 : ~key_lessequal(Image(k, KeySize), keyAt(t))
<1>1. find_lower(k) = CHOOSE s \in 0 .. Use : P(s)
  BY DEF find_lower
<1>2. P(0) /\ 0 \in 0 .. Use
  BY DEF key_lessequal
<1>3. \A s \in 0 .. Use : P(s) => s = 0
  BY DEF key_lessequal
<1> QED
  <2> HIDE DEF P
  <2> QED BY <1>1, <1>2, <1>3

\* Any stored byte is a byte, and what is read from a page is an image of them.
LEMMA ReadBytes ==
  ASSUME TypeOK, NEW page \in PageId, NEW at \in Nat, NEW n \in Nat
  PROVE  /\ DOMAIN Read(page, at, n) = 0 .. n - 1
         /\ \A b \in 0 .. n - 1 : Read(page, at, n)[b] \in Byte
BY DEF TypeOK, Read, Byte

\* A store keeps a page a page.
LEMMA OverlayTyped ==
  ASSUME NEW bytes, NEW at \in Nat, NEW n \in Nat, NEW new,
         DOMAIN bytes \subseteq 0 .. AreaSize - 1,
         \A a \in DOMAIN bytes : bytes[a] \in Byte,
         \A b \in 0 .. n - 1 : new[b] \in Byte
  PROVE  /\ DOMAIN Overlay(bytes, at, n, new) \subseteq 0 .. AreaSize - 1
         /\ \A a \in DOMAIN Overlay(bytes, at, n, new) : Overlay(bytes, at, n, new)[a] \in Byte
<1> DEFINE O == Overlay(bytes, at, n, new)
<1>1. DOMAIN O \subseteq 0 .. AreaSize - 1
  BY DEF Overlay
<1>2. ASSUME NEW a \in DOMAIN O
      PROVE  O[a] \in Byte
  <2>1. CASE a \in at .. at + n - 1
    <3>1. a - at \in 0 .. n - 1
      BY <2>1
    <3> QED
      BY <2>1, <3>1 DEF Overlay
  <2>2. CASE a \notin at .. at + n - 1
    BY <2>2 DEF Overlay
  <2> QED
    BY <2>1, <2>2
<1> QED
  BY <1>1, <1>2

\* Products grow with their factor.
LEMMA ProductGrows ==
  ASSUME NEW d \in Nat, NEW a \in Nat, NEW b \in Nat, a <= b
  PROVE  d * a \in Nat /\ d * b \in Nat /\ d * a <= d * b
<1>1. b - a \in Nat /\ d * (b - a) \in Nat
  OBVIOUS
<1>2. d * b = d * a + d * (b - a)
  OBVIOUS
<1> QED
  BY <1>1, <1>2

\* A leaf with room for the stores of a later insert had room for those of an
\* earlier one.
LEMMA RoomShrinks ==
  ASSUME NEW m \in Nat, NEW n \in Nat, m <= n, Room(n)
  PROVE  Room(m)
<1>1. DataSize * (2 * m) \in Nat /\ DataSize * (2 * n) \in Nat
      /\ DataSize * (2 * m) <= DataSize * (2 * n)
  BY ProductGrows
<1>2. IntSize * (2 * m) \in Nat /\ IntSize * (2 * n) \in Nat
      /\ IntSize * (2 * m) <= IntSize * (2 * n)
  BY ProductGrows
<1>3. nSlots \in Nat
  BY SlotsNat
<1> QED
  BY <1>1, <1>2, <1>3 DEF Room

\* A store into slot s of a leaf of n pairs stays inside while there is room.
LEMMA StoreInside ==
  ASSUME NEW n \in Nat, NEW s \in Nat, s <= 2 * n, Room(n)
  PROVE  /\ SetKeyAt(s) + KeySize <= AreaSize
         /\ SetDataAt(s) + DataSize <= AreaSize
<1>1. DataSize * s \in Nat /\ DataSize * (2 * n) \in Nat /\ DataSize * s <= DataSize * (2 * n)
  BY ProductGrows
<1>2. IntSize * s \in Nat /\ IntSize * (2 * n) \in Nat /\ IntSize * s <= IntSize * (2 * n)
  BY ProductGrows
<1>3. nSlots \in Nat
  BY SlotsNat
<1> QED
  BY <1>1, <1>2, <1>3 DEF Room, SetKeyAt, SetDataAt, slotdata

\* A store changes the root page only; what it stored inside is read back, and
\* bytes below it stay.
LEMMA StoreEffect ==
  ASSUME TypeOK, m_rootId \in PageId, NEW at \in Nat, NEW n \in Nat, NEW new,
         \A b \in 0 .. n - 1 : new[b] \in Byte, Store(at, n, new)
  PROVE  /\ DOMAIN area' = PageId
         /\ \A p \in PageId :
              /\ DOMAIN area'[p] \subseteq 0 .. AreaSize - 1
              /\ \A a \in DOMAIN area'[p] : area'[p][a] \in Byte
         /\ strayed' \in BOOLEAN
         /\ at + n <= AreaSize => strayed' = strayed
         /\ area'[m_rootId] = Overlay(area[m_rootId], at, n, new)
<1>1. DOMAIN area = PageId /\ strayed \in BOOLEAN
  BY DEF TypeOK
<1>2. area' = [area EXCEPT ![m_rootId] = Overlay(area[m_rootId], at, n, new)]
  BY DEF Store
<1>3. area'[m_rootId] = Overlay(area[m_rootId], at, n, new)
  BY <1>1, <1>2
<1>4. ASSUME NEW p \in PageId
      PROVE  /\ DOMAIN area'[p] \subseteq 0 .. AreaSize - 1
             /\ \A a \in DOMAIN area'[p] : area'[p][a] \in Byte
  <2>1. CASE p = m_rootId
    <3>1. /\ DOMAIN area[m_rootId] \subseteq 0 .. AreaSize - 1
          /\ \A a \in DOMAIN area[m_rootId] : area[m_rootId][a] \in Byte
      BY DEF TypeOK
    <3> QED
      BY <2>1, <3>1, <1>3, OverlayTyped
  <2>2. CASE p # m_rootId
    <3>1. area'[p] = area[p]
      BY <1>1, <1>2, <2>2
    <3> QED
      BY <3>1 DEF TypeOK
  <2> QED
    BY <2>1, <2>2
<1>5. strayed' \in BOOLEAN /\ (at + n <= AreaSize => strayed' = strayed)
  BY <1>1 DEF Store
<1>6. DOMAIN area' = PageId
  BY <1>1, <1>2
<1> QED
  BY <1>3, <1>4, <1>5, <1>6

LEMMA ReadStored ==
  ASSUME NEW at \in Nat, NEW n \in Nat, NEW v, at + n <= AreaSize,
         area'[m_rootId] = Overlay(area[m_rootId], at, n, Image(v, n)),
         rootPage' = m_rootId
  PROVE  Read(rootPage, at, n)' = Image(v, n)
<1> DEFINE O == Overlay(area[m_rootId], at, n, Image(v, n))
<1>1. ASSUME NEW b \in 0 .. n - 1
      PROVE  at + b \in DOMAIN O /\ O[at + b] = <<v, b>>
  <2>1. at + b \in at .. at + n - 1 /\ at + b < AreaSize /\ at + b - at = b
    OBVIOUS
  <2>2. Image(v, n)[b] = <<v, b>>
    BY DEF Image
  <2> QED
    BY <2>1, <2>2 DEF Overlay
<1>2. Read(rootPage, at, n)' =
        [b \in 0 .. n - 1 |-> IF at + b \in DOMAIN O THEN O[at + b] ELSE <<Blank, 0>>]
  BY DEF Read
<1> QED
  <2>1. Read(rootPage, at, n)' = [b \in 0 .. n - 1 |-> <<v, b>>]
    <3> HIDE DEF O
    <3> QED BY <1>1, <1>2
  <2> QED
    BY <2>1 DEF Image

LEMMA ReadBelow ==
  ASSUME NEW at \in Nat, NEW n \in Nat, NEW new, NEW off \in Nat, NEW m \in Nat,
         off + m <= at,
         area'[m_rootId] = Overlay(area[m_rootId], at, n, new),
         rootPage = m_rootId, rootPage' = m_rootId
  PROVE  Read(rootPage, off, m)' = Read(rootPage, off, m)
<1> DEFINE O == Overlay(area[m_rootId], at, n, new)
           A == area[m_rootId]
<1>1. ASSUME NEW b \in 0 .. m - 1
      PROVE  /\ off + b \in DOMAIN O <=> off + b \in DOMAIN A
             /\ off + b \in DOMAIN A => O[off + b] = A[off + b]
  <2>1. off + b \notin at .. at + n - 1
    OBVIOUS
  <2> QED
    BY <2>1 DEF Overlay
<1>2. Read(rootPage, off, m)' =
        [b \in 0 .. m - 1 |-> IF off + b \in DOMAIN O THEN O[off + b] ELSE <<Blank, 0>>]
  BY DEF Read
<1>3. Read(rootPage, off, m) =
        [b \in 0 .. m - 1 |-> IF off + b \in DOMAIN A THEN A[off + b] ELSE <<Blank, 0>>]
  BY DEF Read
<1> HIDE DEF O, A
<1> QED
  BY <1>1, <1>2, <1>3

-----------------------------------------------------------------------------
(* The inductive invariant                                                 *)

LEMMA InitInvariant == Init => IInv
<1> SUFFICES ASSUME Init PROVE IInv
  OBVIOUS
<1>1. TypeOK
  BY DEF Init, TypeOK, PageId, NoPage
<1>2. RefsInOrder /\ InsertsCounted /\ InsideWhileRoom
  BY DEF Init, RefsInOrder, InsertsCounted, InsideWhileRoom, PageId, NoPage
<1>3. Steps /\ FirstData
  BY DEF Init, Steps, FirstData, Storing, PageId, NoPage
<1> QED
  BY <1>1, <1>2, <1>3 DEF IInv

\* The death of the process keeps what is in the files.
LEMMA DieKeeps == IInv /\ Die => IInv'
<1> SUFFICES ASSUME IInv, Die PROVE IInv'
  OBVIOUS
<1> USE DEF IInv, Die, headerVars, pageVars, memberVars
<1>1. TypeOK'
  <2>1. area' = area
    OBVIOUS
  <2>2. /\ DOMAIN area' = PageId
        /\ \A n \in PageId :
             /\ DOMAIN area'[n] \subseteq 0 .. AreaSize - 1
             /\ \A a \in DOMAIN area'[n] : area'[n][a] \in Byte
    BY <2>1 DEF TypeOK
  <2>3. /\ created' \in BOOLEAN /\ nPages' \in 0 .. MaxDeaths + 1
        /\ slotuse' \in [PageId -> Nat]
        /\ rootPage' \in PageId \cup {NoPage}
        /\ headLeaf' \in PageId \cup {NoPage} /\ tailLeaf' \in PageId \cup {NoPage}
        /\ deaths' \in 0 .. MaxDeaths /\ strayed' \in BOOLEAN
        /\ last' \in Data \cup {Blank} /\ lastKey' \in Key \cup {Blank}
        /\ done' \in 0 .. MaxInserts
    BY DEF TypeOK
  <2> QED
    BY <2>2, <2>3 DEF TypeOK
<1>2. RefsInOrder'
  BY DEF TypeOK, RefsInOrder, Steps, NoPage
<1>3. InsertsCounted'
  <2>1. nPages' <= deaths' + 1
    BY DEF InsertsCounted, TypeOK
  <2>2. \A n \in 0 .. nPages - 1 \ {rootPage} : slotuse[n] = 0
    BY DEF InsertsCounted, Steps, RefsInOrder, Storing, TypeOK, NoPage
  <2> QED
    BY <2>1, <2>2 DEF InsertsCounted, TypeOK
<1>4. InsideWhileRoom'
  BY DEF InsideWhileRoom, Room, nSlots, Max2
<1>5. Steps'
  BY DEF Steps, TypeOK, Storing, PageId, NoPage
<1>6. FirstData'
  BY DEF FirstData, Read, Image, nSlots, Max2
<1> QED
  BY <1>1, <1>2, <1>3, <1>4, <1>5, <1>6

\* A store of an insert keeps all but what slot 0 holds.
LEMMA StoreKeeps ==
  ASSUME IInv, NEW at \in Nat, NEW n \in Nat, NEW new,
         \A b \in 0 .. n - 1 : new[b] \in Byte, Store(at, n, new),
         Room(slotuse[m_rootId]) => at + n <= AreaSize,
         pc \in Storing, pc' \in Storing,
         i' \in Nat, pc' \in {"copyKeys", "copyData"} => i' <= slotuse[m_rootId],
         insertUnchanged' = insertUnchanged,
         last' \in Data \cup {Blank}
  PROVE  TypeOK' /\ RefsInOrder' /\ InsertsCounted' /\ InsideWhileRoom' /\ Steps'
<1> USE DEF IInv, insertUnchanged, headerVars, memberVars
<1>1. m_rootId \in PageId /\ m_rootId = rootPage /\ done = slotuse[m_rootId]
  BY DEF TypeOK, Steps, InsertsCounted, NoPage
<1>2. /\ DOMAIN area' = PageId
      /\ \A p \in PageId :
           /\ DOMAIN area'[p] \subseteq 0 .. AreaSize - 1
           /\ \A a \in DOMAIN area'[p] : area'[p][a] \in Byte
      /\ strayed' \in BOOLEAN
      /\ at + n <= AreaSize => strayed' = strayed
  BY <1>1, StoreEffect
<1>3. TypeOK'
  BY <1>2 DEF TypeOK, Storing, Byte
<1>4. RefsInOrder'
  BY DEF RefsInOrder, Storing
<1>5. InsertsCounted'
  BY DEF InsertsCounted
<1>6. InsideWhileRoom'
  <2>1. Room(done)' = Room(done)
    BY DEF Room, nSlots, Max2
  <2> QED
    BY <1>1, <1>2, <2>1 DEF InsideWhileRoom
<1>7. Steps'
  BY DEF Steps, Storing, TypeOK
<1> QED
  BY <1>3, <1>4, <1>5, <1>6, <1>7

\* What a step of an insert into the leaf knows.
LEMMA InLeaf ==
  ASSUME IInv, pc \in Storing
  PROVE  /\ m_rootId \in PageId /\ m_rootId = rootPage /\ Use \in Nat
         /\ Slot = 0 /\ From = i /\ To = Use + 1 + i
<1>1. m_rootId \in PageId /\ m_rootId = rootPage /\ Use \in Nat
  BY DEF IInv, Steps, TypeOK, Use, NoPage
<1>2. Slot = 0
  BY <1>1, SearchEndsAtFirst DEF Slot
<1> QED
  BY <1>1, <1>2 DEF From, To, IInv, TypeOK

\* Opening and closing a table, between calls.
LEMMA TableKeeps ==
  ASSUME IInv, Create \/ Open \/ Clear
  PROVE  IInv'
<1> USE DEF IInv, Create, Open, Clear, Idle, headerVars, pageVars, memberVars,
            insertVars, processVars, historyVars
<1>1. area' = area /\ UNCHANGED <<rootPage, headLeaf, tailLeaf, nPages, slotuse, pc,
                                  key, data, i, itemcount, last, lastKey, done, deaths, strayed>>
  OBVIOUS
<1>2. TypeOK'
  <2>1. /\ created' \in BOOLEAN /\ isOpen' \in BOOLEAN
        /\ m_rootId' \in PageId \cup {NoPage}
        /\ m_headleafId' \in PageId \cup {NoPage} /\ m_tailleafId' \in PageId \cup {NoPage}
    BY DEF TypeOK
  <2> QED
    BY <1>1, <2>1 DEF TypeOK
<1>3. RefsInOrder'
  BY DEF RefsInOrder
<1>4. InsertsCounted'
  <2>1. m_rootId \in {rootPage, NoPage}
    BY DEF Steps
  <2>2. \A n \in 0 .. nPages - 1 \ {rootPage} : slotuse[n] = 0
    BY <2>1 DEF InsertsCounted, TypeOK, NoPage
  <2> QED
    BY <1>1, <2>2 DEF InsertsCounted
<1>5. InsideWhileRoom'
  BY <1>1 DEF InsideWhileRoom, Room, nSlots, Max2
<1>6. Steps'
  BY <1>1 DEF Steps, Storing, RefsInOrder
<1>7. FirstData'
  BY <1>1 DEF FirstData, Read, Image, nSlots, Max2
<1> QED
  BY <1>2, <1>3, <1>4, <1>5, <1>6, <1>7

\* The steps of an insert that store nothing in the slots.
LEMMA ReferencesKeep ==
  ASSUME IInv, InsertStart \/ SetRootId \/ SetHeadLeafId \/ SetTailLeafId
  PROVE  IInv'
<1> USE DEF IInv, InsertStart, SetRootId, SetHeadLeafId, SetTailLeafId, Idle, At, Goto,
            headerVars, pageVars, memberVars, historyVars
<1>1. area' = area /\ UNCHANGED <<created, nPages, slotuse, isOpen, itemcount, memberVars,
                                  last, lastKey, done, deaths, strayed>>
  OBVIOUS
<1>2. TypeOK'
  <2>1. /\ pc' \in {"allocate", "setHead", "setTail", "copyKeys"} /\ i' = 0
        /\ key' \in Key \cup {Blank} /\ data' \in Data \cup {Blank}
        /\ rootPage' \in PageId \cup {NoPage}
        /\ headLeaf' \in PageId \cup {NoPage} /\ tailLeaf' \in PageId \cup {NoPage}
    BY DEF TypeOK
  <2> QED
    BY <1>1, <2>1 DEF TypeOK
<1>3. RefsInOrder'
  BY DEF RefsInOrder, Steps, TypeOK, NoPage
<1>4. InsertsCounted'
  BY DEF InsertsCounted, Steps, TypeOK, NoPage
<1>5. InsideWhileRoom'
  BY <1>1 DEF InsideWhileRoom, Room, nSlots, Max2
<1>6. Steps'
  BY DEF Steps, Storing, RefsInOrder, TypeOK, NoPage
<1>7. FirstData'
  <2>1. CASE last # Blank
    <3>1. rootPage' = rootPage /\ pc' = "copyKeys"
      BY <2>1 DEF FirstData, Steps, TypeOK, NoPage, RefsInOrder
    <3>2. Read(rootPage, nSlots, DataSize)' = Read(rootPage, nSlots, DataSize)
      BY <1>1, <3>1 DEF Read, nSlots, Max2
    <3> QED
      BY <1>1, <2>1, <3>1, <3>2 DEF FirstData, Image, nSlots, Max2
  <2>2. CASE last = Blank
    <3>1. pc' # "count"
      OBVIOUS
    <3> QED
      BY <1>1, <2>2, <3>1 DEF FirstData
  <2> QED
    BY <2>1, <2>2
<1> QED
  BY <1>2, <1>3, <1>4, <1>5, <1>6, <1>7

LEMMA AllocateKeeps ==
  ASSUME IInv, AllocateLeaf
  PROVE  IInv'
<1> USE DEF IInv, AllocateLeaf, At, Goto, historyVars
<1>1. /\ rootPage = NoPage /\ headLeaf = NoPage /\ tailLeaf = NoPage
      /\ nPages <= deaths /\ nPages \in PageId /\ nPages \in Nat
      /\ done = 0 /\ last = Blank
  BY DEF RefsInOrder, Steps, InsertsCounted, FirstData, TypeOK, PageId
<1>2. slotuse' = slotuse
  BY <1>1 DEF Steps, TypeOK
<1>3. TypeOK'
  <2>1. nPages' \in 0 .. MaxDeaths + 1 /\ m_rootId' \in PageId /\ m_headleafId' \in PageId
        /\ m_tailleafId' \in PageId /\ i' \in Nat
    BY <1>1 DEF TypeOK
  <2>2. UNCHANGED <<created, area, isOpen, itemcount, key, data, last, lastKey, done, deaths, strayed,
                    rootPage, headLeaf, tailLeaf>>
    OBVIOUS
  <2>3. pc' = "setRoot"
    OBVIOUS
  <2> HIDE DEF AllocateLeaf
  <2> QED
    BY <1>2, <2>1, <2>2, <2>3 DEF TypeOK
<1>4. RefsInOrder'
  BY <1>1 DEF RefsInOrder, NoPage
<1>5. InsertsCounted'
  BY <1>1, <1>2 DEF InsertsCounted, Steps, TypeOK, PageId, NoPage
<1>6. InsideWhileRoom'
  BY DEF InsideWhileRoom, Room, nSlots, Max2
<1>7. Steps'
  BY <1>1, <1>2 DEF Steps, Storing, NoPage, TypeOK
<1>8. FirstData'
  BY <1>1 DEF FirstData
<1> QED
  BY <1>3, <1>4, <1>5, <1>6, <1>7, <1>8

\* Where a store of an insert ends.
LEMMA StoreAt ==
  ASSUME IInv, pc \in Storing, NEW s \in Nat, s <= 2 * Use
  PROVE  /\ SetKeyAt(s) \in Nat /\ SetDataAt(s) \in Nat
         /\ Room(slotuse[m_rootId]) => SetKeyAt(s) + KeySize <= AreaSize
         /\ Room(slotuse[m_rootId]) => SetDataAt(s) + DataSize <= AreaSize
<1>1. Use \in Nat /\ slotuse[m_rootId] = Use
  BY InLeaf DEF Use
<1>2. SetKeyAt(s) \in Nat /\ SetDataAt(s) \in Nat
  BY SlotsNat DEF SetKeyAt, SetDataAt, slotdata
<1> QED
  BY <1>1, <1>2, StoreInside

\* The copies land behind the first slot, so they keep what the last insert left
\* there; from KeysCopied on nothing is known of it.
LEMMA CopiesKeep ==
  ASSUME IInv, CopyKey \/ CopyData
  PROVE  IInv'
<1> USE DEF CopyKey, CopyData, At
<1>1. pc \in Storing /\ pc' = pc /\ last' = last /\ i' = i + 1
      /\ insertUnchanged' = insertUnchanged /\ last \in Data \cup {Blank} /\ i \in Nat
  BY DEF Storing, IInv, TypeOK
<1>2. /\ m_rootId \in PageId /\ m_rootId = rootPage /\ Use \in Nat
      /\ From = i /\ i < Use /\ To = Use + 1 + i /\ To \in Nat /\ To <= 2 * Use /\ 0 < To
      /\ i + 1 <= slotuse[m_rootId]
  BY <1>1, InLeaf DEF Use
<1>3. TypeOK' /\ RefsInOrder' /\ InsertsCounted' /\ InsideWhileRoom' /\ Steps'
  <2>1. CASE CopyKey
    <3> DEFINE new == Read(m_rootId, GetKeyAt(From), KeySize)
    <3>1. GetKeyAt(From) \in Nat
      BY <1>1, <1>2 DEF GetKeyAt
    <3>2. \A b \in 0 .. KeySize - 1 : new[b] \in Byte
      BY <1>2, <3>1, ReadBytes DEF IInv
    <3>3. Store(SetKeyAt(To), KeySize, new)
      BY <2>1
    <3> HIDE DEF new, CopyKey, CopyData
    <3> QED
      BY <1>1, <1>2, <3>2, <3>3, StoreAt, StoreKeeps
  <2>2. CASE CopyData
    <3> DEFINE new == Read(m_rootId, GetDataAt(From), DataSize)
    <3>1. GetDataAt(From) \in Nat
      BY <1>1, <1>2, SlotsNat DEF GetDataAt, slotdata
    <3>2. \A b \in 0 .. DataSize - 1 : new[b] \in Byte
      BY <1>2, <3>1, ReadBytes DEF IInv
    <3>3. Store(SetDataAt(To), DataSize, new)
      BY <2>2
    <3> HIDE DEF new, CopyKey, CopyData
    <3> QED
      BY <1>1, <1>2, <3>2, <3>3, StoreAt, StoreKeeps
  <2> QED
    BY <2>1, <2>2
<1>4. FirstData'
  <2>1. UNCHANGED <<rootPage, m_rootId, slotuse, data, pc, last>> /\ pc # "count"
    BY <1>1 DEF insertUnchanged, headerVars, memberVars
  <2>2. ASSUME CopyKey
        PROVE  Read(rootPage, nSlots, DataSize)' = Read(rootPage, nSlots, DataSize)
    <3> DEFINE new == Read(m_rootId, GetKeyAt(From), KeySize)
    <3>1. area'[m_rootId] = Overlay(area[m_rootId], SetKeyAt(To), KeySize, new)
      BY <1>2, <2>2 DEF Store, IInv, TypeOK
    <3>2. nSlots + DataSize <= SetKeyAt(To) /\ SetKeyAt(To) \in Nat
      <4>1. DataSize * 1 <= DataSize * To /\ DataSize * To \in Nat
        BY <1>2, ProductGrows
      <4> QED
        BY <4>1, SlotsNat DEF SetKeyAt, slotdata
    <3> HIDE DEF new, CopyKey, CopyData
    <3>3. Read(rootPage, nSlots, DataSize)' = Read(rootPage, nSlots, DataSize)
      BY <1>2, <2>1, <3>1, <3>2, ReadBelow, SlotsNat
    <3> QED
      BY <3>3
  <2>3. last # Blank => CopyKey
    BY DEF IInv, FirstData
  <2> HIDE DEF CopyKey, CopyData
  <2> QED
    BY <2>1, <2>2, <2>3 DEF IInv, FirstData, Image, nSlots, Max2
<1> QED
  BY <1>3, <1>4 DEF IInv

LEMMA CopiedKeeps ==
  ASSUME IInv, KeysCopied \/ DataCopied
  PROVE  IInv'
<1> USE DEF IInv, KeysCopied, DataCopied, At, Goto, insertUnchanged, headerVars, memberVars
<1>1. UNCHANGED <<headerVars, slotuse, area, isOpen, memberVars, itemcount, key, data,
                  done, deaths, strayed>>
      /\ pc' \in {"copyData", "setKey"} /\ i' = 0 /\ last' \in Data \cup {Blank}
  BY DEF TypeOK
<1>2. last' = Blank
  BY DEF FirstData
<1>3. TypeOK'
  BY <1>1 DEF TypeOK
<1>4. RefsInOrder' /\ InsertsCounted'
  BY DEF RefsInOrder, InsertsCounted
<1>5. InsideWhileRoom'
  BY DEF InsideWhileRoom, Room, nSlots, Max2
<1>6. Steps'
  BY DEF Steps, Storing, TypeOK, NoPage
<1>7. FirstData'
  BY <1>1, <1>2 DEF FirstData
<1> QED
  BY <1>3, <1>4, <1>5, <1>6, <1>7

\* The last two stores put the new pair where the search ends.
LEMMA PairKeeps ==
  ASSUME IInv, SetKey \/ SetData
  PROVE  IInv'
<1> USE DEF SetKey, SetData, At, Goto
<1>1. pc \in Storing /\ pc' \in {"setData", "count"} /\ last' = last /\ i' = 0
      /\ insertUnchanged' = insertUnchanged /\ last = Blank
      /\ key \in Key /\ data \in Data
  BY DEF Storing, IInv, TypeOK, Steps, FirstData
<1>2. m_rootId \in PageId /\ m_rootId = rootPage /\ Use \in Nat /\ Slot = 0
  BY <1>1, InLeaf
<1>3. \A n \in Nat : /\ \A b \in 0 .. n - 1 : Image(key, n)[b] \in Byte
                     /\ \A b \in 0 .. n - 1 : Image(data, n)[b] \in Byte
  BY <1>1 DEF Image, Byte
<1>4. TypeOK' /\ RefsInOrder' /\ InsertsCounted' /\ InsideWhileRoom' /\ Steps'
  <2>1. CASE SetKey
    <3>1. Store(SetKeyAt(Slot), KeySize, Image(key, KeySize))
      BY <2>1
    <3>2. pc' = "setData" /\ pc' \in Storing
      BY <2>1 DEF Storing
    <3> HIDE DEF SetKey, SetData
    <3> QED
      BY <1>1, <1>2, <1>3, <3>1, <3>2, StoreAt, StoreKeeps
  <2>2. CASE SetData
    <3>1. Store(SetDataAt(Slot), DataSize, Image(data, DataSize))
      BY <2>2
    <3>2. pc' = "count" /\ pc' \in Storing
      BY <2>2 DEF Storing
    <3> HIDE DEF SetKey, SetData
    <3> QED
      BY <1>1, <1>2, <1>3, <3>1, <3>2, StoreAt, StoreKeeps
  <2> QED
    BY <2>1, <2>2
<1>5. FirstData'
  <2>1. ASSUME pc' = "count", nSlots + DataSize <= AreaSize
        PROVE  Read(m_rootId, nSlots, DataSize)' = Image(data, DataSize)
    <3>1. SetData
      BY <2>1
    <3>2. SetDataAt(Slot) = nSlots
      BY <1>2, SlotsNat DEF SetDataAt, slotdata
    <3>3. area'[m_rootId] = Overlay(area[m_rootId], nSlots, DataSize, Image(data, DataSize))
      BY <1>2, <3>1, <3>2 DEF Store, IInv, TypeOK
    <3>4. rootPage' = m_rootId /\ m_rootId' = m_rootId
      BY <1>1, <1>2 DEF insertUnchanged, headerVars, memberVars
    <3> HIDE DEF SetKey, SetData
    <3>5. Read(rootPage, nSlots, DataSize)' = Image(data, DataSize)
      BY <2>1, <3>3, <3>4, ReadStored, SlotsNat
    <3> QED
      BY <3>4, <3>5 DEF Read
  <2>2. data' = data /\ last' = Blank
    BY <1>1 DEF insertUnchanged
  <2> QED
    BY <2>1, <2>2 DEF FirstData, Image, nSlots, Max2
<1> QED
  BY <1>4, <1>5 DEF IInv

LEMMA ReturnKeeps ==
  ASSUME IInv, InsertReturn
  PROVE  IInv'
<1> USE DEF IInv, InsertReturn, At, Goto, headerVars, memberVars
<1>1. /\ m_rootId \in PageId /\ m_rootId = rootPage /\ isOpen
      /\ done = slotuse[rootPage] /\ done \in Nat /\ done < MaxInserts
      /\ slotuse[rootPage] \in Nat /\ data \in Data
  BY DEF Steps, Storing, InsertsCounted, TypeOK, NoPage
<1>2. /\ slotuse' \in [PageId -> Nat] /\ slotuse'[rootPage] = done + 1
      /\ \A n \in PageId \ {rootPage} : slotuse'[n] = slotuse[n]
      /\ done' = done + 1
  BY <1>1 DEF TypeOK
<1>3. TypeOK'
  <2>1. UNCHANGED <<headerVars, area, isOpen, memberVars, deaths, strayed>>
        /\ pc' = "idle" /\ i' = 0 /\ key' = Blank /\ data' = Blank
        /\ last' \in Data /\ lastKey' \in Key \cup {Blank}
        /\ done' \in 0 .. MaxInserts /\ itemcount' \in Nat
    BY <1>1 DEF TypeOK
  <2> HIDE DEF InsertReturn
  <2> QED
    BY <1>2, <2>1 DEF TypeOK
<1>4. RefsInOrder'
  BY DEF RefsInOrder
<1>5. InsertsCounted'
  BY <1>1, <1>2 DEF InsertsCounted, TypeOK, PageId, NoPage
<1>6. InsideWhileRoom'
  <2>1. Room(done') => Room(done)
    BY <1>1, <1>2, RoomShrinks
  <2> QED
    BY <2>1 DEF InsideWhileRoom, Room, nSlots, Max2
<1>7. Steps'
  BY <1>1, <1>2 DEF Steps, Storing, TypeOK, PageId, NoPage
<1>8. FirstData'
  <2>1. pc = "count" /\ pc' = "idle" /\ last' = data /\ rootPage' = m_rootId /\ area' = area
    BY <1>1
  <2>2. Read(rootPage, nSlots, DataSize)' = Read(m_rootId, nSlots, DataSize)
    BY <2>1 DEF Read, nSlots, Max2
  <2>3. rootPage' # NoPage /\ slotuse'[rootPage'] > 0
    BY <1>1, <1>2 DEF PageId, NoPage
  <2> HIDE DEF InsertReturn
  <2> QED
    BY <2>1, <2>2, <2>3 DEF FirstData, Image, nSlots, Max2
<1> QED
  BY <1>3, <1>4, <1>5, <1>6, <1>7, <1>8

LEMMA StepInvariant == IInv /\ [Next]_vars => IInv'
<1> SUFFICES ASSUME IInv, [Next]_vars PROVE IInv'
  OBVIOUS
<1>1. CASE Create \/ Open \/ Clear
  BY <1>1, TableKeeps
<1>2. CASE CreateAgain \/ OpenMissing \/ FatalCall \/ Killed
  BY <1>2, DieKeeps DEF CreateAgain, OpenMissing, FatalCall, Killed
<1>3. CASE Insert
  BY <1>3, ReferencesKeep, AllocateKeeps, CopiesKeep, CopiedKeeps, PairKeeps, ReturnKeeps
  DEF Insert
<1>4. CASE UNCHANGED vars
  <2>1. area' = area /\ UNCHANGED <<headerVars, slotuse, isOpen, memberVars, itemcount,
                                    insertVars, historyVars>>
    BY <1>4 DEF vars, pageVars, processVars
  <2>2. TypeOK' /\ RefsInOrder' /\ InsertsCounted'
    BY <2>1 DEF IInv, TypeOK, RefsInOrder, InsertsCounted, headerVars, memberVars,
                insertVars, historyVars
  <2>3. InsideWhileRoom' /\ FirstData'
    BY <2>1 DEF IInv, InsideWhileRoom, FirstData, Read, Image, Room, nSlots, Max2,
                headerVars, memberVars, insertVars, historyVars
  <2>4. Steps'
    BY <2>1 DEF IInv, Steps, headerVars, memberVars, insertVars, historyVars
  <2> QED
    BY <2>2, <2>3, <2>4 DEF IInv
<1> QED
  BY <1>1, <1>2, <1>3, <1>4 DEF Next

LEMMA Invariant == Spec => []IInv
BY InitInvariant, StepInvariant, PTL DEF Spec

-----------------------------------------------------------------------------
(* The theorems                                                            *)

\* What is written stays inside the files, at the places and in the forms that
\* the insert of a leaf uses (persistentbtree.h, insert_start).
THEOREM TypeCorrect == Spec => []TypeOK
BY Invariant, PTL DEF IInv

\* The references of the header are stored in their order, for any number of
\* deaths between the stores (persistentbtree.h, insert_start).
THEOREM RefsCorrect == Spec => []RefsInOrder
BY Invariant, PTL DEF IInv

\* The count in the leaf is the number of inserts that returned, and a death
\* costs at most one page (persistentbtree.h, allocate_leaf, insert_descend).
THEOREM CountsCorrect == Spec => []InsertsCounted
BY Invariant, PTL DEF IInv

\* The number of pairs that overflows the page, for all sizes (MemoryPage.h,
\* InitHeader; MemoryPage.cpp, SetKey and SetData).
THEOREM CapacityCorrect == Spec => []InsideWhileRoom
BY Invariant, PTL DEF IInv

\* Searches on a tree with a pair copy no null handle (persistentbtree.h, find,
\* exists, lower_bound, upper_bound).
THEOREM SearchesSurvive == Spec => []SearchSurvives
<1>1. IInv => SearchSurvives
  <2> SUFFICES ASSUME IInv, done > 0, isOpen
               PROVE  ~SearchDies /\ \A k \in Key : ~FindDies(k)
    BY DEF SearchSurvives
  <2>1. rootPage # NoPage /\ slotuse[rootPage] > 0 /\ rootPage \in PageId
    BY DEF IInv, InsertsCounted, TypeOK
  <2>2. m_rootId = rootPage
    BY <2>1 DEF IInv, RefsInOrder, Steps, InsertsCounted, TypeOK, NoPage
  <2>3. Mapped(m_rootId)
    BY <2>1, <2>2 DEF Mapped, IInv, RefsInOrder
  <2>4. \A k \in Key : Hit(k)
    BY <2>1, <2>2, SearchEndsAtFirst DEF Hit, Use, KeyEqual, key_equal, key_less, IInv, TypeOK
  <2> QED
    BY <2>3, <2>4 DEF SearchDies, FindDies
<1> QED
  BY <1>1, Invariant, PTL

\* find of the key inserted last returns what it was inserted with, whatever the
\* process died in before and whatever other inserts copied over one another
\* (persistentbtree.h, find and insert_descend).
THEOREM LastInsertIsFound == Spec => []LastInsertFound
<1>1. IInv => LastInsertFound
  <2> SUFFICES ASSUME IInv, Idle, isOpen, last # Blank, nSlots + DataSize <= AreaSize
               PROVE  found(lastKey) = Image(last, DataSize)
    BY DEF LastInsertFound
  <2>1. rootPage # NoPage /\ slotuse[rootPage] > 0 /\ rootPage = m_rootId
    BY DEF IInv, FirstData, RefsInOrder, Idle
  <2>2. find_lower(lastKey) = 0 /\ Use > 0
    BY <2>1, SearchEndsAtFirst DEF Use, IInv, TypeOK
  <2>3. Hit(lastKey)
    BY <2>2 DEF Hit, KeyEqual, key_equal, key_less
  <2>4. GetDataAt(0) = nSlots
    BY SlotsNat DEF GetDataAt, slotdata
  <2>5. found(lastKey) = Read(rootPage, nSlots, DataSize)
    BY <2>1, <2>2, <2>3, <2>4 DEF found
  <2> QED
    BY <2>5 DEF IInv, FirstData
<1> QED
  BY <1>1, Invariant, PTL
=============================================================================
