---------------------- MODULE MemoryPageManager_proofs ----------------------
(***************************************************************************)
(* Proofs about MemoryPageManager, for any number of pages, handles and    *)
(* crashes.                                                                *)
(***************************************************************************)
EXTENDS MemoryPageManager, FiniteSetTheorems, TLAPS

USE MaxPagesAssumption, MaxCrashesAssumption, HandlesAssumption, NoneAssumption
    DEF MaxPagesAssumption, MaxCrashesAssumption, HandlesAssumption, NoneAssumption

\* The inductive invariant: the properties, and what each step relies on.
IInv ==
  /\ TypeOK
  /\ RefCountExact
  /\ PagesBacked
  /\ FreeListDurable
  /\ OwnedPagesKept
  /\ ProgressInv

-----------------------------------------------------------------------------
(* Counting handles                                                        *)

LEMMA HoldersFinite ==
  ASSUME NEW n
  PROVE  IsFiniteSet(Holders(n)) /\ Cardinality(Holders(n)) \in Nat
<1>1. Holders(n) \subseteq Handles  BY DEF Holders
<1> QED  BY <1>1, FS_Subset, FS_CardinalityType

\* One more, or one fewer, handle on a page.
LEMMA OneMoreHolder ==
  ASSUME NEW S, IsFiniteSet(S), NEW x, x \notin S
  PROVE  Cardinality(S \cup {x}) = Cardinality(S) + 1
BY FS_AddElement

LEMMA OneHolderLess ==
  ASSUME NEW S, IsFiniteSet(S), NEW x \in S
  PROVE  Cardinality(S \ {x}) = Cardinality(S) - 1
BY FS_RemoveElement

\* A count of zero means nobody, a count of one means nobody else.
LEMMA FewHolders ==
  ASSUME NEW S, IsFiniteSet(S), NEW x \in S
  PROVE  /\ Cardinality(S) \in Nat /\ Cardinality(S) > 0
         /\ Cardinality(S) = 1 <=> S \ {x} = {}
<1>1. Cardinality(S) \in Nat /\ Cardinality(S) # 0
  BY FS_CardinalityType, FS_EmptySet
<1>2. IsFiniteSet(S \ {x}) /\ Cardinality(S \ {x}) = Cardinality(S) - 1
  BY FS_RemoveElement
<1>3. Cardinality(S \ {x}) = 0 <=> S \ {x} = {}
  BY <1>2, FS_EmptySet
<1> QED  BY <1>1, <1>2, <1>3

-----------------------------------------------------------------------------
\* The pages of the table are the first nPages pages of the file.
LEMMA InUseType ==
  ASSUME TypeOK
  PROVE  /\ InUse \subseteq PageId
         /\ \A n : n \in InUse <=> n \in Nat /\ n < nPages
BY DEF TypeOK, InUse, PageId

LEMMA InitIInv == Init => IInv
<1> SUFFICES ASSUME Init PROVE IInv
  OBVIOUS
<1>1. TypeOK
  <2>1. id \in [PageId -> PageId]
    BY DEF Init, PageId
  <2>2. nPages \in 0 .. MaxPages /\ crashes \in 0 .. MaxCrashes
    BY DEF Init
  <2>3. m_count \in [PageId -> Nat] /\ isInit \in [PageId -> BOOLEAN]
    BY DEF Init
  <2>4. node \in [Handles -> PageId \cup {None}]
    BY DEF Init
  <2>5. refs \in [HeaderRefs -> PageId \cup {-1, 0}]
    BY DEF Init
  <2> QED  BY <2>1, <2>2, <2>3, <2>4, <2>5 DEF Init, TypeOK
<1>2. RefCountExact
  <2>1. \A n \in PageId : Holders(n) = {}
    BY DEF Init, Holders, PageId
  <2> QED  BY <2>1, FS_EmptySet DEF Init, RefCountExact
<1>3. PagesBacked
  BY DEF Init, PagesBacked
<1>4. FreeListDurable /\ OwnedPagesKept
  BY DEF Init, FreeListDurable, OwnedPagesKept
<1>5. ProgressInv
  BY DEF Init, ProgressInv, HeaderBlank, CreateProgress, Creating, InsertProgress,
         Inserting, PagesNamed, Idle, InUse
<1> QED  BY <1>1, <1>2, <1>3, <1>4, <1>5 DEF IInv

LEMMA CreateHeaderStep == ASSUME IInv, CreateHeader PROVE IInv'
<1>1. TypeOK'
  BY DEF IInv, TypeOK, CreateHeader, fileVars, cacheVars, historyVars
<1>2. RefCountExact'
  BY DEF IInv, RefCountExact, CreateHeader, cacheVars, Holders
<1>3. PagesBacked'
  BY DEF IInv, PagesBacked, CreateHeader, fileVars, cacheVars, InUse
<1>4. FreeListDurable'
  BY DEF FreeListDurable, CreateHeader
<1>5. OwnedPagesKept'
  BY DEF IInv, OwnedPagesKept, CreateHeader, fileVars, historyVars, InUse
<1>6. HeaderBlank'
  BY DEF IInv, HeaderBlank, CreateHeader, ProgressInv
<1>7. CreateProgress'
  BY DEF CreateProgress, Creating, CreateHeader, cacheVars, NoHandles
<1>8. InsertProgress'
  BY DEF InsertProgress, Inserting, CreateHeader
<1>9. PagesNamed'
  BY DEF IInv, PagesNamed, CreateHeader, fileVars, cacheVars, InUse, NoHandles, ProgressInv
<1> QED  BY <1>1, <1>2, <1>3, <1>4, <1>5, <1>6, <1>7, <1>8, <1>9 DEF IInv, ProgressInv

LEMMA SizeHeaderStep == ASSUME IInv, SizeHeader PROVE IInv'
<1>1. TypeOK'
  BY DEF IInv, TypeOK, SizeHeader, fileVars, cacheVars, historyVars
<1>2. RefCountExact'
  BY DEF IInv, RefCountExact, SizeHeader, cacheVars, Holders
<1>3. PagesBacked'
  BY DEF IInv, PagesBacked, SizeHeader, fileVars, cacheVars, InUse
<1>4. FreeListDurable'
  BY DEF FreeListDurable, SizeHeader, Idle
<1>5. OwnedPagesKept'
  BY DEF IInv, OwnedPagesKept, SizeHeader, fileVars, historyVars, InUse
<1>6. HeaderBlank'
  BY DEF IInv, HeaderBlank, SizeHeader, ProgressInv
<1>7. CreateProgress'
  BY DEF IInv, ProgressInv, CreateProgress, Creating, SizeHeader, cacheVars, NoHandles
<1>8. InsertProgress'
  BY DEF InsertProgress, Inserting, SizeHeader
<1>9. PagesNamed'
  BY DEF IInv, PagesNamed, SizeHeader, fileVars, cacheVars, InUse, Idle, ProgressInv
<1> QED  BY <1>1, <1>2, <1>3, <1>4, <1>5, <1>6, <1>7, <1>8, <1>9 DEF IInv, ProgressInv

LEMMA InitHeaderStep == ASSUME IInv, InitHeader PROVE IInv'
<1>1. TypeOK'
  <2>1. nPages' \in 0 .. MaxPages
    BY DEF IInv, TypeOK, InitHeader
  <2>2. status' \in {"running", "createAssert", "cacheAssert", "busError"} /\ init' \in BOOLEAN
    BY DEF InitHeader
  <2>3. pc' \in {"initRoot", "header"}
    BY DEF InitHeader
  <2> QED  BY <2>1, <2>2, <2>3 DEF IInv, TypeOK, InitHeader, fileVars, cacheVars, historyVars
<1>2. RefCountExact'
  BY DEF IInv, RefCountExact, InitHeader, cacheVars, Holders
<1>3. PagesBacked'
  BY DEF IInv, PagesBacked, InitHeader, fileVars, cacheVars, InUse, ProgressInv, HeaderBlank,
         CreateProgress
<1>4. FreeListDurable'
  BY DEF FreeListDurable, InitHeader, Idle
<1>5. OwnedPagesKept'
  BY DEF IInv, OwnedPagesKept, InitHeader, fileVars, historyVars, InUse, ProgressInv,
         HeaderBlank
<1>6. HeaderBlank'
  BY DEF HeaderBlank, InitHeader
<1>7. CreateProgress'
  BY DEF IInv, CreateProgress, Creating, InitHeader, cacheVars, ProgressInv, HeaderBlank,
         NoHandles
<1>8. InsertProgress'
  BY DEF InsertProgress, Inserting, InitHeader
<1>9. PagesNamed'
  BY DEF IInv, PagesNamed, InitHeader, fileVars, cacheVars, InUse, Idle, ProgressInv,
         HeaderBlank
<1> QED  BY <1>1, <1>2, <1>3, <1>4, <1>5, <1>6, <1>7, <1>8, <1>9 DEF IInv, ProgressInv

LEMMA InitHeaderRefsStep == ASSUME IInv, InitHeaderRefs PROVE IInv'
<1>1. TypeOK'
  BY DEF IInv, TypeOK, InitHeaderRefs, InitRef, fileVars, cacheVars, historyVars
<1>2. RefCountExact'
  BY DEF IInv, RefCountExact, InitHeaderRefs, InitRef, fileVars, cacheVars, processVars,
         historyVars, Holders, Idle
<1>3. PagesBacked'
  BY DEF IInv, PagesBacked, InitHeaderRefs, InitRef, fileVars, cacheVars, ProgressInv,
         CreateProgress, Creating, NoHandles
<1>4. FreeListDurable'
  BY DEF FreeListDurable, InitHeaderRefs, InitRef, Idle
<1>5. OwnedPagesKept'
  BY DEF IInv, OwnedPagesKept, InitHeaderRefs, InitRef, fileVars, historyVars, InUse
<1>6. HeaderBlank'
  BY DEF IInv, HeaderBlank, InitHeaderRefs, InitRef, ProgressInv, CreateProgress, Creating
<1>7. CreateProgress'
  BY DEF IInv, TypeOK, CreateProgress, Creating, InitHeaderRefs, InitRef, cacheVars,
         HeaderRefs, ProgressInv, NoHandles
<1>8. InsertProgress'
  BY DEF InsertProgress, Inserting, InitHeaderRefs, InitRef
<1>9. PagesNamed'
  BY DEF IInv, PagesNamed, InitHeaderRefs, InitRef, fileVars, cacheVars, InUse, ProgressInv,
         CreateProgress, Creating
<1> QED  BY <1>1, <1>2, <1>3, <1>4, <1>5, <1>6, <1>7, <1>8, <1>9 DEF IInv, ProgressInv

LEMMA InitLayoutStep == ASSUME IInv, InitLayout PROVE IInv'
<1>1. TypeOK'
  BY DEF IInv, TypeOK, InitLayout, fileVars, cacheVars, historyVars
<1>2. RefCountExact'
  BY DEF IInv, RefCountExact, InitLayout, cacheVars, Holders
<1>3. PagesBacked'
  BY DEF IInv, PagesBacked, InitLayout, fileVars, cacheVars, HeaderRefs, ProgressInv,
         CreateProgress, Creating, NoHandles
<1>4. FreeListDurable'
  BY DEF FreeListDurable, InitLayout
<1>5. OwnedPagesKept'
  BY DEF IInv, OwnedPagesKept, InitLayout, fileVars, historyVars, InUse
<1>6. HeaderBlank'
  BY DEF IInv, HeaderBlank, InitLayout, ProgressInv, CreateProgress, Creating
<1>7. CreateProgress'
  BY DEF CreateProgress, Creating, InitLayout
<1>8. InsertProgress'
  BY DEF InsertProgress, Inserting, InitLayout
<1>9. PagesNamed'
  BY DEF IInv, PagesNamed, InitLayout, fileVars, cacheVars, InUse, ProgressInv
<1> QED  BY <1>1, <1>2, <1>3, <1>4, <1>5, <1>6, <1>7, <1>8, <1>9 DEF IInv, ProgressInv

LEMMA OpenStep == ASSUME IInv, Open PROVE IInv'
<1>1. TypeOK'
  <2>1. m_deletePages' \in SUBSET PageId
    BY InUseType DEF IInv, TypeOK, Open
  <2>2. status' \in {"running", "createAssert", "cacheAssert", "busError"}
    BY DEF IInv, TypeOK, Open
  <2> QED  BY <2>1, <2>2 DEF IInv, TypeOK, Open, headerVars, fileVars, cacheVars, historyVars
<1>2. RefCountExact'
  BY DEF IInv, RefCountExact, Open, cacheVars, Holders
<1>3. PagesBacked'
  BY DEF IInv, PagesBacked, Open, headerVars, fileVars, cacheVars, InUse
<1>4. FreeListDurable'
  BY DEF FreeListDurable, Open, headerVars, fileVars, InUse, Idle
<1>5. OwnedPagesKept'
  BY DEF IInv, OwnedPagesKept, Open, headerVars, fileVars, historyVars, InUse
<1>6. HeaderBlank'
  BY DEF IInv, HeaderBlank, Open, headerVars, ProgressInv
<1>7. CreateProgress'
  BY DEF CreateProgress, Creating, Open, Idle
<1>8. InsertProgress'
  BY DEF InsertProgress, Inserting, Open, Idle
<1>9. PagesNamed'
  BY DEF IInv, PagesNamed, Open, headerVars, fileVars, cacheVars, InUse, Idle, ProgressInv
<1> QED  BY <1>1, <1>2, <1>3, <1>4, <1>5, <1>6, <1>7, <1>8, <1>9 DEF IInv, ProgressInv

LEMMA CloseStep == ASSUME IInv, Close PROVE IInv'
<1>1. TypeOK'
  BY DEF IInv, TypeOK, Close, headerVars, fileVars, cacheVars, historyVars
<1>2. RefCountExact'
  BY DEF IInv, RefCountExact, Close, cacheVars, Holders
<1>3. PagesBacked'
  BY DEF IInv, PagesBacked, Close, headerVars, fileVars, cacheVars, InUse
<1>4. FreeListDurable'
  BY DEF FreeListDurable, Close
<1>5. OwnedPagesKept'
  BY DEF IInv, OwnedPagesKept, Close, headerVars, fileVars, historyVars, InUse
<1>6. HeaderBlank'
  BY DEF IInv, HeaderBlank, Close, headerVars, ProgressInv
<1>7. CreateProgress'
  BY DEF CreateProgress, Creating, Close, Idle
<1>8. InsertProgress'
  BY DEF InsertProgress, Inserting, Close, Idle
<1>9. PagesNamed'
  BY DEF IInv, PagesNamed, Close, headerVars, fileVars, cacheVars, InUse, ProgressInv
<1> QED  BY <1>1, <1>2, <1>3, <1>4, <1>5, <1>6, <1>7, <1>8, <1>9 DEF IInv, ProgressInv

LEMMA SetRefStep == ASSUME IInv, NEW f \in HeaderRefs, NEW n \in PageId, SetRef(f, n) PROVE IInv'
<1>1. TypeOK'
  BY DEF IInv, TypeOK, SetRef, fileVars, cacheVars, processVars, historyVars
<1>2. RefCountExact'
  BY DEF IInv, RefCountExact, SetRef, cacheVars, processVars, Holders
<1>3. PagesBacked'
  BY DEF IInv, PagesBacked, SetRef, fileVars, cacheVars, processVars, InUse, OwnedPagesKept
<1>4. FreeListDurable'
  BY DEF IInv, FreeListDurable, SetRef, fileVars, processVars, InUse
<1>5. OwnedPagesKept'
  BY DEF IInv, OwnedPagesKept, SetRef, fileVars, processVars, historyVars, InUse
<1>6. HeaderBlank'
  BY DEF IInv, HeaderBlank, SetRef, InUse, OwnedPagesKept, ProgressInv
<1>7. CreateProgress'
  BY DEF CreateProgress, Creating, SetRef, processVars, Idle
<1>8. InsertProgress'
  BY DEF InsertProgress, Inserting, SetRef, processVars, Idle
<1>9. PagesNamed'
  BY DEF IInv, PagesNamed, SetRef, fileVars, cacheVars, processVars, InUse, ProgressInv
<1> QED  BY <1>1, <1>2, <1>3, <1>4, <1>5, <1>6, <1>7, <1>8, <1>9 DEF IInv, ProgressInv

LEMMA InsertResizeStep == ASSUME IInv, NEW h \in Handles, InsertResize(h) PROVE IInv'
<1>1. TypeOK'
  <2>1. fileLen' \in Nat
    BY DEF IInv, TypeOK, InsertResize
  <2> QED  BY <2>1 DEF IInv, TypeOK, InsertResize, headerVars, cacheVars, historyVars
<1>2. RefCountExact'
  BY DEF IInv, RefCountExact, InsertResize, cacheVars, Holders
<1>3. PagesBacked'
  BY DEF IInv, TypeOK, PagesBacked, InsertResize, headerVars, cacheVars, InUse
<1>4. FreeListDurable'
  BY DEF FreeListDurable, InsertResize, Idle
<1>5. OwnedPagesKept'
  BY DEF IInv, OwnedPagesKept, InsertResize, headerVars, historyVars, InUse
<1>6. HeaderBlank'
  BY DEF IInv, HeaderBlank, InsertResize, headerVars, ProgressInv
<1>7. CreateProgress'
  BY DEF CreateProgress, Creating, InsertResize
<1>8. InsertProgress'
  <2>1. init
    BY InUseType DEF IInv, InsertResize, RootReadable, ProgressInv, HeaderBlank, HeaderRefs
  <2>2. \A n \in InUse : isInit[n] /\ id[n] = n
    BY DEF IInv, InsertResize, FreeListDurable, ProgressInv, PagesNamed
  <2>3. Finished' = InUse /\ UNCHANGED <<isInit, id>>
    BY DEF InsertResize, headerVars, Finished, InUse
  <2>4. fileLen' >= size' + 1
    BY DEF IInv, TypeOK, InsertResize, headerVars
  <2> QED
    BY <2>1, <2>2, <2>3, <2>4 DEF InsertResize, InsertProgress, headerVars, cacheVars, Idle
<1>9. PagesNamed'
  BY DEF IInv, PagesNamed, InsertResize, headerVars, cacheVars, InUse, Idle, ProgressInv
<1> QED  BY <1>1, <1>2, <1>3, <1>4, <1>5, <1>6, <1>7, <1>8, <1>9 DEF IInv, ProgressInv

LEMMA InsertSizeStep == ASSUME IInv, InsertSize PROVE IInv'
<1>1. TypeOK'
  <2>1. size' \in Nat
    BY DEF IInv, TypeOK, InsertSize
  <2> QED  BY <2>1 DEF IInv, TypeOK, InsertSize, fileVars, cacheVars, historyVars
<1>2. RefCountExact'
  BY DEF IInv, RefCountExact, InsertSize, cacheVars, Holders
<1>3. PagesBacked'
  BY DEF IInv, TypeOK, PagesBacked, InsertSize, fileVars, cacheVars, InUse, ProgressInv,
         InsertProgress, Inserting
<1>4. FreeListDurable'
  BY DEF FreeListDurable, InsertSize, Idle
<1>5. OwnedPagesKept'
  BY DEF IInv, OwnedPagesKept, InsertSize, fileVars, historyVars, InUse
<1>6. HeaderBlank'
  BY DEF IInv, HeaderBlank, InsertSize, ProgressInv, InsertProgress, Inserting
<1>7. CreateProgress'
  BY DEF CreateProgress, Creating, InsertSize
<1>8. InsertProgress'
  BY DEF IInv, TypeOK, InsertProgress, Inserting, Finished, InsertSize, fileVars, cacheVars,
         InUse, PagesBacked, ProgressInv
<1>9. PagesNamed'
  BY DEF IInv, PagesNamed, InsertSize, fileVars, cacheVars, InUse, ProgressInv,
         InsertProgress, Inserting, Finished
<1> QED  BY <1>1, <1>2, <1>3, <1>4, <1>5, <1>6, <1>7, <1>8, <1>9 DEF IInv, ProgressInv

LEMMA InsertCountStep == ASSUME IInv, InsertCount PROVE IInv'
<1>1. TypeOK'
  <2>1. nPages' \in 0 .. MaxPages
    BY DEF IInv, TypeOK, InsertCount, ProgressInv, InsertProgress, Inserting
  <2> QED  BY <2>1 DEF IInv, TypeOK, InsertCount, fileVars, cacheVars, historyVars
<1>2. RefCountExact'
  BY DEF IInv, RefCountExact, InsertCount, cacheVars, Holders
<1>3. PagesBacked'
  BY DEF IInv, TypeOK, PagesBacked, InsertCount, headerVars, fileVars, cacheVars,
         processVars, historyVars, InUse, PageId, Idle, HeaderRefs, ProgressInv, HeaderBlank,
         CreateProgress, Creating, InsertProgress, Inserting, OwnedPagesKept, NoHandles
<1>4. FreeListDurable'
  BY DEF FreeListDurable, InsertCount, Idle
<1>5. OwnedPagesKept'
  BY DEF IInv, TypeOK, OwnedPagesKept, InsertCount, fileVars, historyVars, InUse
<1>6. HeaderBlank'
  BY DEF IInv, HeaderBlank, InsertCount, ProgressInv, InsertProgress, Inserting
<1>7. CreateProgress'
  BY DEF CreateProgress, Creating, InsertCount
<1>8. InsertProgress'
  <2> USE InsertCount DEF IInv, ProgressInv, InsertProgress, Inserting
  <2>1. Finished' = InUse /\ Finished = InUse /\ nPages \notin InUse /\ nPages \in PageId
    BY DEF TypeOK, InsertCount, Finished, InUse, PageId
  <2>2. nPages' = nPages + 1 /\ nPages' > 0 /\ nPages' - 1 = nPages
    BY DEF TypeOK, InsertCount
  <2>3. \A n \in Finished' : isInit'[n] /\ id'[n] = n
    BY <2>1 DEF InsertCount, fileVars
  <2>4. nPages \notin alloc /\ ~isInit[nPages] /\ \A h \in Handles : node[h] # nPages
    <3>1. nPages \notin alloc /\ ~isInit[nPages]
      BY <2>1 DEF OwnedPagesKept, PagesNamed
    <3>2. \A h \in Handles : node[h] # nPages
      BY <2>1 DEF PagesBacked, PageId
    <3> QED  BY <3>1, <3>2
  <2> QED
    BY <2>2, <2>3, <2>4 DEF InsertCount, fileVars, cacheVars, historyVars
<1>9. PagesNamed'
  BY DEF IInv, TypeOK, PagesNamed, InsertCount, fileVars, cacheVars, InUse, Idle, ProgressInv
<1> QED  BY <1>1, <1>2, <1>3, <1>4, <1>5, <1>6, <1>7, <1>8, <1>9 DEF IInv, ProgressInv

LEMMA InsertIdStep == ASSUME IInv, InsertId PROVE IInv'
<1>1. TypeOK'
  <2>1. nPages - 1 \in PageId
    BY DEF IInv, TypeOK, InsertId, PageId, ProgressInv, InsertProgress, Inserting
  <2>2. id' \in [PageId -> PageId] /\ alloc' \in SUBSET PageId
    BY <2>1 DEF IInv, TypeOK, InsertId
  <2> QED  BY <2>2 DEF IInv, TypeOK, InsertId, headerVars, cacheVars
<1>2. RefCountExact'
  BY DEF IInv, RefCountExact, InsertId, cacheVars, Holders
<1>3. PagesBacked'
  BY DEF IInv, PagesBacked, InsertId, headerVars, cacheVars, InUse
<1>4. FreeListDurable'
  <2>1. \A n \in InUse : isInit[n]
    BY DEF IInv, InsertId, ProgressInv, InsertProgress, Inserting, Finished
  <2> QED  BY <2>1 DEF IInv, InsertId, FreeListDurable, headerVars, ProgressInv,
         InsertProgress, Inserting, InUse
<1>5. OwnedPagesKept'
  <2> DEFINE last == nPages - 1
  <2>1. last \in InUse /\ last \in PageId /\ isInit[last] /\ m_deletePages = {}
    BY InUseType DEF IInv, TypeOK, InsertId, ProgressInv, InsertProgress, Inserting
  <2>2. id' = [id EXCEPT ![last] = last] /\ alloc' = alloc \cup {last}
    BY DEF InsertId
  <2> HIDE DEF last
  <2>3. \A n \in alloc' : n \in InUse /\ isInit[n] /\ id'[n] = n
    BY <2>1, <2>2 DEF IInv, TypeOK, OwnedPagesKept
  <2> QED  BY <2>1, <2>3 DEF InsertId, OwnedPagesKept, headerVars, InUse
<1>6. HeaderBlank'
  BY DEF IInv, HeaderBlank, InsertId, headerVars, ProgressInv
<1>7. CreateProgress'
  BY DEF CreateProgress, Creating, InsertId
<1>8. InsertProgress'
  BY DEF InsertProgress, Inserting, InsertId
<1>9. PagesNamed'
  <2> DEFINE last == nPages - 1
  <2>1. last \in PageId /\ \A n \in InUse \ {last} : id[n] = n
    BY InUseType DEF IInv, TypeOK, InsertId, ProgressInv, InsertProgress, Inserting, Finished
  <2>2. id' = [id EXCEPT ![last] = last]
    BY DEF InsertId
  <2>3. \A h \in Handles : node[h] # None => id[node[h]] = node[h] \/ node[h] = last
    BY DEF IInv, ProgressInv, PagesNamed
  <2> HIDE DEF last
  <2>4. \A n \in InUse : id'[n] = n
    BY <2>1, <2>2, InUseType DEF IInv, TypeOK
  <2>5. \A h \in Handles : node[h] # None => id'[node[h]] = node[h]
    BY <2>1, <2>2, <2>3 DEF IInv, TypeOK
  <2>6. InUse' = InUse /\ UNCHANGED <<isInit, node>>
    BY DEF InsertId, headerVars, cacheVars, InUse
  <2> QED  BY <2>4, <2>5, <2>6 DEF IInv, ProgressInv, PagesNamed
<1> QED  BY <1>1, <1>2, <1>3, <1>4, <1>5, <1>6, <1>7, <1>8, <1>9 DEF IInv, ProgressInv

-----------------------------------------------------------------------------
(* The steps that move handles                                             *)

\* A handle that refers to something refers to a page under its own id.
LEMMA HeldPage ==
  ASSUME IInv, Idle, NEW h \in Handles, node[h] # None
  PROVE  node[h] \in PageId /\ node[h] \in InUse /\ id[node[h]] = node[h]
BY DEF IInv, TypeOK, PagesBacked, ProgressInv, PagesNamed, Idle

\* Taking a reference keeps the counts exact.
LEMMA AcquireCounts ==
  ASSUME IInv, status = "running", status' = status,
         NEW h \in Handles, NEW n \in PageId, node[h] = None, Acquire(h, n)
  PROVE  /\ RefCountExact'
         /\ m_count' \in [PageId -> Nat]
         /\ node' \in [Handles -> PageId \cup {None}]
         /\ m_memoryPageCache' \in SUBSET PageId
<1>1. Holders(n)' = Holders(n) \cup {h} /\ h \notin Holders(n)
  BY DEF Acquire, Holders, IInv, TypeOK, PageId
<1>2. \A m \in PageId \ {n} : Holders(m)' = Holders(m)
  BY DEF Acquire, Holders, IInv, TypeOK, PageId
<1>3. Cardinality(Holders(n)') = Cardinality(Holders(n)) + 1
  BY <1>1, HoldersFinite, OneMoreHolder
<1>4. n \notin m_memoryPageCache => Cardinality(Holders(n)) = 0
  BY FS_EmptySet DEF IInv, RefCountExact
<1>5. m_count[n] = Cardinality(Holders(n)) /\ Cardinality(Holders(n)) \in Nat
  BY HoldersFinite DEF IInv, RefCountExact
<1>6. m_count'[n] = Cardinality(Holders(n)')
  BY <1>3, <1>4, <1>5 DEF Acquire, IInv, TypeOK
<1>7. \A m \in PageId \ {n} : m_count'[m] = m_count[m]
  BY DEF Acquire, IInv, TypeOK
<1>8. m_count' \in [PageId -> Nat]
  BY DEF Acquire, IInv, TypeOK
<1>9. node' \in [Handles -> PageId \cup {None}] /\ m_memoryPageCache' \in SUBSET PageId
  BY DEF Acquire, IInv, TypeOK
<1>10. \A m \in PageId : m \in m_memoryPageCache' <=> Holders(m)' # {}
  BY <1>1, <1>2 DEF Acquire, IInv, RefCountExact
<1>11. \A m \in PageId : m_count'[m] = Cardinality(Holders(m)')
  <2> TAKE m \in PageId
  <2>1. CASE m = n
    BY <1>6, <2>1
  <2>2. CASE m # n
    BY <1>2, <1>7, <2>2 DEF IInv, RefCountExact
  <2> QED  BY <2>1, <2>2
<1> QED  BY <1>8, <1>9, <1>10, <1>11 DEF RefCountExact

\* Giving up a reference keeps them exact too, and the assertion of
\* DeleteFromCache holds.
LEMMA DropCounts ==
  ASSUME IInv, NEW h \in Handles, DropNode(h)
  PROVE  /\ RefCountExact'
         /\ status' = "running"
         /\ m_count' \in [PageId -> Nat]
         /\ node' \in [Handles -> PageId \cup {None}]
         /\ m_memoryPageCache' \in SUBSET PageId
<1>1. PICK old : old = node[h] /\ old \in PageId /\ id[old] = old /\ status = "running"
  BY HeldPage DEF DropNode, Idle
<1>2. /\ node' = [node EXCEPT ![h] = None]
      /\ m_count' = [m_count EXCEPT ![old] = @ - 1]
      /\ m_memoryPageCache' = IF m_count[old] = 1 THEN m_memoryPageCache \ {old}
                              ELSE m_memoryPageCache
  BY <1>1 DEF DropNode, LastReference
<1>3. Holders(old)' = Holders(old) \ {h} /\ h \in Holders(old)
  BY <1>1, <1>2 DEF Holders, IInv, TypeOK, PageId
<1>4. \A m \in PageId \ {old} : Holders(m)' = Holders(m)
  BY <1>1, <1>2 DEF Holders, IInv, TypeOK, PageId
<1>5. old \in m_memoryPageCache
  BY <1>1, <1>3 DEF IInv, RefCountExact
<1>6. status' = "running"
  BY <1>1, <1>5 DEF DropNode, UnmapStatus
<1>7. /\ m_count[old] = Cardinality(Holders(old))
      /\ Cardinality(Holders(old)) \in Nat /\ Cardinality(Holders(old)) > 0
      /\ Cardinality(Holders(old)) = 1 <=> Holders(old)' = {}
      /\ Cardinality(Holders(old)') = Cardinality(Holders(old)) - 1
  BY <1>1, <1>3, HoldersFinite, FewHolders, OneHolderLess DEF IInv, RefCountExact
<1>8. m_count' \in [PageId -> Nat] /\ node' \in [Handles -> PageId \cup {None}]
  BY <1>1, <1>2, <1>7 DEF IInv, TypeOK
<1>9. m_memoryPageCache' \in SUBSET PageId
  BY <1>2 DEF IInv, TypeOK
<1>10. \A m \in PageId : m \in m_memoryPageCache' <=> Holders(m)' # {}
  <2> TAKE m \in PageId
  <2>1. CASE m = old
    BY <1>2, <1>5, <1>7, <2>1
  <2>2. CASE m # old
    BY <1>1, <1>2, <1>4, <2>2 DEF IInv, RefCountExact
  <2> QED  BY <2>1, <2>2
<1>11. \A m \in PageId : m_count'[m] = Cardinality(Holders(m)')
  <2> TAKE m \in PageId
  <2>1. CASE m = old
    BY <1>1, <1>2, <1>7, <2>1 DEF IInv, TypeOK
  <2>2. CASE m # old
    BY <1>1, <1>2, <1>4, <2>2 DEF IInv, TypeOK, RefCountExact
  <2> QED  BY <2>1, <2>2
<1> QED  BY <1>6, <1>8, <1>9, <1>10, <1>11 DEF RefCountExact

\* Copying a handle.
LEMMA CopyCounts ==
  ASSUME IInv, NEW h \in Handles, NEW g \in Handles, CopyNode(h, g)
  PROVE  /\ RefCountExact'
         /\ m_count' \in [PageId -> Nat]
         /\ node' \in [Handles -> PageId \cup {None}]
<1>1. PICK n : n = node[h] /\ n \in PageId /\ status = "running" /\ node[g] = None
  BY HeldPage DEF CopyNode, Idle
<1>2. /\ node' = [node EXCEPT ![g] = n]
      /\ m_count' = [m_count EXCEPT ![n] = @ + 1]
      /\ UNCHANGED <<m_memoryPageCache, status>>
  BY <1>1 DEF CopyNode
<1>3. h \in Holders(n)
  BY <1>1 DEF Holders
<1>typed. node \in [Handles -> PageId \cup {None}] /\ None \notin PageId
  BY DEF IInv, TypeOK, PageId
<1>4. Holders(n)' = Holders(n) \cup {g} /\ g \notin Holders(n)
  BY <1>1, <1>2, <1>typed DEF Holders
<1>5. \A m \in PageId \ {n} : Holders(m)' = Holders(m)
  BY <1>1, <1>2, <1>typed DEF Holders
<1>6. Cardinality(Holders(n)') = Cardinality(Holders(n)) + 1
  BY <1>4, HoldersFinite, OneMoreHolder
<1>7. m_count' \in [PageId -> Nat] /\ node' \in [Handles -> PageId \cup {None}]
  BY <1>1, <1>2 DEF IInv, TypeOK
<1>8. \A m \in PageId : m \in m_memoryPageCache' <=> Holders(m)' # {}
  BY <1>1, <1>2, <1>3, <1>4, <1>5 DEF IInv, RefCountExact
<1>9. \A m \in PageId : m_count'[m] = Cardinality(Holders(m)')
  <2> TAKE m \in PageId
  <2>1. CASE m = n
    BY <1>1, <1>2, <1>6, <2>1 DEF IInv, TypeOK, RefCountExact
  <2>2. CASE m # n
    BY <1>1, <1>2, <1>5, <2>2 DEF IInv, TypeOK, RefCountExact
  <2> QED  BY <2>1, <2>2
<1> QED  BY <1>7, <1>8, <1>9 DEF RefCountExact

\* Assigning a handle: the page it had loses a reference, the other gains one.
LEMMA AssignCounts ==
  ASSUME IInv, NEW h \in Handles, NEW g \in Handles, AssignNode(h, g)
  PROVE  /\ RefCountExact'
         /\ status' = "running"
         /\ m_count' \in [PageId -> Nat]
         /\ node' \in [Handles -> PageId \cup {None}]
         /\ m_memoryPageCache' \in SUBSET PageId
<1>1. PICK old, new :
        /\ old = node[g] /\ old \in PageId /\ id[old] = old
        /\ new = node[h] /\ new \in PageId
        /\ status = "running" /\ h # g
  <2>1. node[g] \in PageId /\ id[node[g]] = node[g]
    BY HeldPage DEF AssignNode
  <2>2. node[h] \in PageId
    BY HeldPage DEF AssignNode
  <2> QED  BY <2>1, <2>2 DEF AssignNode, Idle
<1>2. h \in Holders(new) /\ g \in Holders(old)
  BY <1>1 DEF Holders
<1>3. old \in m_memoryPageCache /\ new \in m_memoryPageCache
  BY <1>1, <1>2 DEF IInv, RefCountExact
<1>4. /\ node' = [node EXCEPT ![g] = new]
      /\ m_count' = [[m_count EXCEPT ![old] = @ - 1] EXCEPT ![new] = @ + 1]
      /\ m_memoryPageCache' = IF m_count[old] = 1 THEN m_memoryPageCache \ {old}
                              ELSE m_memoryPageCache
  BY <1>1 DEF AssignNode, LastReference
<1>5. status' = "running"
  BY <1>1, <1>3 DEF AssignNode, UnmapStatus
<1>6. /\ m_count[old] = Cardinality(Holders(old))
      /\ Cardinality(Holders(old)) \in Nat /\ Cardinality(Holders(old)) > 0
      /\ Cardinality(Holders(old)) = 1 <=> Holders(old) \ {g} = {}
      /\ Cardinality(Holders(old) \ {g}) = Cardinality(Holders(old)) - 1
  BY <1>1, <1>2, HoldersFinite, FewHolders, OneHolderLess DEF IInv, RefCountExact
<1>7. m_count[new] = Cardinality(Holders(new)) /\ m_count \in [PageId -> Nat]
  BY <1>1 DEF IInv, TypeOK, RefCountExact
<1>8. node \in [Handles -> PageId \cup {None}] /\ m_memoryPageCache \in SUBSET PageId
  BY DEF IInv, TypeOK
<1>9. /\ node' \in [Handles -> PageId \cup {None}]
       /\ m_memoryPageCache' \in SUBSET PageId
       /\ m_count' \in [PageId -> Nat]
  BY <1>1, <1>4, <1>6, <1>7, <1>8
<1>10. CASE old = new
  <2>1. \A m : Holders(m)' = Holders(m)
    BY <1>1, <1>4, <1>8, <1>10 DEF Holders
  <2>2. Cardinality(Holders(old)) # 1
    BY <1>1, <1>2, <1>6, <1>10
  <2>3. UNCHANGED m_memoryPageCache
    BY <1>4, <1>6, <2>2
  <2>4. \A m \in PageId : m_count'[m] = m_count[m]
    BY <1>1, <1>4, <1>6, <1>7, <1>10
  <2> QED  BY <1>1, <1>5, <1>9, <2>1, <2>3, <2>4 DEF IInv, RefCountExact
<1>11. CASE old # new
  <2>1. Holders(old)' = Holders(old) \ {g}
    BY <1>1, <1>4, <1>8, <1>11 DEF Holders, PageId
  <2>2. Holders(new)' = Holders(new) \cup {g} /\ g \notin Holders(new)
    BY <1>1, <1>4, <1>8, <1>11 DEF Holders, PageId
  <2>3. \A m \in PageId \ {old, new} : Holders(m)' = Holders(m)
    BY <1>1, <1>4, <1>8 DEF Holders, PageId
  <2>4. Cardinality(Holders(new)') = Cardinality(Holders(new)) + 1
    BY <2>2, HoldersFinite, OneMoreHolder
  <2>5. \A m \in PageId : m_count'[m] = Cardinality(Holders(m)')
    <3> TAKE m \in PageId
    <3>1. CASE m = old
      BY <1>1, <1>4, <1>6, <1>7, <1>11, <2>1, <3>1
    <3>2. CASE m = new
      BY <1>1, <1>4, <1>7, <1>11, <2>4, <3>2
    <3>3. CASE m \notin {old, new}
      BY <1>1, <1>4, <1>7, <2>3, <3>3 DEF IInv, RefCountExact
    <3> QED  BY <3>1, <3>2, <3>3
  <2>6. \A m \in PageId : m \in m_memoryPageCache' <=> Holders(m)' # {}
    <3> TAKE m \in PageId
    <3>1. CASE m = old
      BY <1>3, <1>4, <1>6, <2>1, <3>1
    <3>2. CASE m = new
      BY <1>3, <1>4, <1>11, <2>2, <3>2
    <3>3. CASE m \notin {old, new}
      BY <1>1, <1>4, <2>3, <3>3 DEF IInv, RefCountExact
    <3> QED  BY <3>1, <3>2, <3>3
  <2> QED  BY <1>5, <1>9, <2>5, <2>6 DEF RefCountExact
<1> QED  BY <1>10, <1>11

\* A step of an idle manager that only moves handles keeps everything else.
LEMMA HandleMove ==
  ASSUME IInv, Idle, status' = "running",
         UNCHANGED <<headerVars, fileVars, isOpen, pc, inserting, m_deletePages, historyVars>>,
         RefCountExact',
         m_count' \in [PageId -> Nat],
         node' \in [Handles -> PageId \cup {None}],
         m_memoryPageCache' \in SUBSET PageId,
         \A h \in Handles : node'[h] # None => node'[h] \in InUse /\ id[node'[h]] = node'[h]
  PROVE  IInv'
<1> USE DEF headerVars, fileVars, historyVars
<1>1. TypeOK'
  BY DEF IInv, TypeOK
<1>2. PagesBacked'
  BY DEF IInv, PagesBacked, InUse, Idle
<1>3. FreeListDurable' /\ OwnedPagesKept'
  BY DEF IInv, FreeListDurable, OwnedPagesKept, Idle, InUse
<1>4. HeaderBlank' /\ CreateProgress' /\ InsertProgress'
  BY DEF IInv, ProgressInv, HeaderBlank, CreateProgress, Creating, InsertProgress,
         Inserting, Idle
<1>5. PagesNamed'
  BY DEF IInv, ProgressInv, PagesNamed, Idle, InUse
<1> QED  BY <1>1, <1>2, <1>3, <1>4, <1>5 DEF IInv, ProgressInv

LEMMA GetPageStep ==
  ASSUME IInv, NEW h \in Handles, NEW n \in PageId, GetPage(h, n)
  PROVE  IInv'
<1>1. Idle /\ status' = status /\ node[h] = None /\ n \in InUse /\ Acquire(h, n)
  BY DEF GetPage, Available
<1>2. id[n] = n
  BY <1>1 DEF GetPage, IInv, ProgressInv, PagesNamed
<1>3. \A k \in Handles : node'[k] # None => node'[k] \in InUse /\ id[node'[k]] = node'[k]
  BY <1>1, <1>2, HeldPage DEF Acquire, IInv, TypeOK
<1> QED  BY <1>1, <1>3, AcquireCounts, HandleMove DEF GetPage, Idle

LEMMA CopyNodeStep ==
  ASSUME IInv, NEW h \in Handles, NEW g \in Handles, CopyNode(h, g)
  PROVE  IInv'
<1>1. \A k \in Handles : node'[k] # None => node'[k] \in InUse /\ id[node'[k]] = node'[k]
  BY HeldPage DEF CopyNode, IInv, TypeOK
<1>2. m_memoryPageCache' \in SUBSET PageId
  BY DEF CopyNode, IInv, TypeOK
<1> QED  BY <1>1, <1>2, CopyCounts, HandleMove DEF CopyNode, Idle

LEMMA AssignNodeStep ==
  ASSUME IInv, NEW h \in Handles, NEW g \in Handles, AssignNode(h, g)
  PROVE  IInv'
<1>1. \A k \in Handles : node'[k] # None => node'[k] \in InUse /\ id[node'[k]] = node'[k]
  BY HeldPage DEF AssignNode, IInv, TypeOK
<1> QED  BY <1>1, AssignCounts, HandleMove DEF AssignNode

LEMMA DropNodeStep ==
  ASSUME IInv, NEW h \in Handles, DropNode(h)
  PROVE  IInv'
<1>1. \A k \in Handles : node'[k] # None => node'[k] \in InUse /\ id[node'[k]] = node'[k]
  BY HeldPage DEF DropNode, IInv, TypeOK
<1> QED  BY <1>1, DropCounts, HandleMove DEF DropNode

-----------------------------------------------------------------------------
(* The steps that mark pages                                               *)

\* The temporary MemoryNode of DeletePage leaves the cache as it was.
LEMMA DeletePageStep ==
  ASSUME IInv, NEW n \in PageId, DeletePage(n)
  PROVE  IInv'
<1>1. n \in InUse /\ id[n] = n /\ status = "running" /\ Idle /\ isOpen
  BY DEF DeletePage, IInv, ProgressInv, PagesNamed, Idle
<1>2. UNCHANGED <<status, cacheVars>>
  BY <1>1 DEF DeletePage, UnmapStatus, cacheVars, IInv, TypeOK
<1>3. isInit' = [isInit EXCEPT ![n] = FALSE] /\ alloc' = alloc \ {n}
  BY DEF DeletePage
<1>4. UNCHANGED <<headerVars, fileLen, id, isOpen, pc, inserting, crashes>>
  BY DEF DeletePage
<1> USE DEF cacheVars, headerVars
<1>5. TypeOK'
  BY <1>2, <1>3, <1>4 DEF DeletePage, IInv, TypeOK
<1>6. RefCountExact'
  BY <1>1, <1>2 DEF IInv, RefCountExact, Holders
<1>7. PagesBacked'
  BY <1>2, <1>4 DEF IInv, PagesBacked, InUse
<1>8. FreeListDurable'
  BY <1>1, <1>2, <1>3, <1>4 DEF DeletePage, IInv, TypeOK, FreeListDurable, Idle, InUse
<1>9. OwnedPagesKept'
  BY <1>2, <1>3, <1>4 DEF DeletePage, IInv, TypeOK, OwnedPagesKept, InUse
<1>10. HeaderBlank' /\ CreateProgress' /\ InsertProgress'
  BY <1>1, <1>2, <1>4 DEF IInv, ProgressInv, HeaderBlank, CreateProgress, Creating,
     InsertProgress, Inserting, NoHandles, Idle
<1>11. PagesNamed'
  BY <1>1, <1>2, <1>3, <1>4 DEF IInv, TypeOK, ProgressInv, PagesNamed, Idle, InUse
<1> QED  BY <1>5, <1>6, <1>7, <1>8, <1>9, <1>10, <1>11 DEF IInv, ProgressInv

LEMMA InsertReuseStep ==
  ASSUME IInv, NEW h \in Handles, InsertReuse(h)
  PROVE  IInv'
<1>1. PICK n \in m_deletePages :
        /\ m_deletePages' = m_deletePages \ {n}
        /\ isInit' = [isInit EXCEPT ![n] = TRUE]
        /\ Acquire(h, n)
        /\ alloc' = alloc \cup {n}
  BY DEF InsertReuse
<1>2. n \in PageId /\ n \in InUse /\ ~isInit[n] /\ id[n] = n /\ Idle /\ isOpen
  BY DEF InsertReuse, IInv, TypeOK, FreeListDurable, ProgressInv, PagesNamed
<1>3. UNCHANGED <<headerVars, fileLen, id, status, isOpen, pc, inserting, crashes>>
  BY DEF InsertReuse
<1>4. /\ RefCountExact'
      /\ m_count' \in [PageId -> Nat]
      /\ node' \in [Handles -> PageId \cup {None}]
      /\ m_memoryPageCache' \in SUBSET PageId
  BY <1>1, <1>2, <1>3, AcquireCounts DEF InsertReuse, Idle
<1>5. \A k \in Handles : node'[k] # None => node'[k] \in InUse /\ id[node'[k]] = node'[k]
  BY <1>1, <1>2, HeldPage DEF Acquire, IInv, TypeOK
<1> USE DEF headerVars
<1>6. TypeOK'
  BY <1>1, <1>2, <1>3, <1>4 DEF IInv, TypeOK
<1>7. PagesBacked'
  BY <1>3, <1>5 DEF IInv, PagesBacked, InUse
<1>8. FreeListDurable'
  BY <1>1, <1>2, <1>3 DEF IInv, TypeOK, FreeListDurable, Idle, InUse
<1>9. OwnedPagesKept'
  BY <1>1, <1>2, <1>3 DEF IInv, TypeOK, OwnedPagesKept, InUse
<1>10. HeaderBlank' /\ CreateProgress' /\ InsertProgress'
  BY <1>2, <1>3 DEF IInv, ProgressInv, HeaderBlank, CreateProgress, Creating,
     InsertProgress, Inserting, Idle
<1>11. PagesNamed'
  BY <1>1, <1>2, <1>3, <1>5 DEF IInv, TypeOK, ProgressInv, PagesNamed, Idle, InUse
<1> QED  BY <1>4, <1>6, <1>7, <1>8, <1>9, <1>10, <1>11 DEF IInv, ProgressInv

\* The page a crash would leave torn: in use, but without its id.
LEMMA InsertMapStep ==
  ASSUME IInv, InsertMap
  PROVE  IInv'
<1>1. PICK last \in PageId : last = nPages - 1 /\ last \in InUse
  BY InUseType DEF IInv, TypeOK, InsertMap, ProgressInv, InsertProgress, Inserting
<1>2. /\ pc = "counted" /\ pc' = "mapped" /\ status = "running"
      /\ isInit' = [isInit EXCEPT ![last] = TRUE]
      /\ Acquire(inserting, last)
  BY <1>1 DEF InsertMap
<1>3. UNCHANGED <<headerVars, fileLen, id, status, isOpen, inserting, m_deletePages, historyVars>>
  BY DEF InsertMap
<1>4. /\ isOpen /\ init /\ m_deletePages = {} /\ inserting \in Handles
      /\ node[inserting] = None /\ last \notin alloc /\ nPages > 0
      /\ \A n \in InUse \ {last} : isInit[n] /\ id[n] = n
  BY <1>1, <1>2 DEF IInv, ProgressInv, InsertProgress, Inserting, Finished
<1>5. /\ RefCountExact'
      /\ m_count' \in [PageId -> Nat]
      /\ node' \in [Handles -> PageId \cup {None}]
      /\ m_memoryPageCache' \in SUBSET PageId
  BY <1>2, <1>3, <1>4, AcquireCounts
<1>6. node' = [node EXCEPT ![inserting] = last]
  BY <1>2 DEF Acquire
<1> USE DEF headerVars, historyVars
<1>7. TypeOK'
  BY <1>2, <1>3, <1>5 DEF IInv, TypeOK
<1>8. PagesBacked'
  BY <1>1, <1>3, <1>6 DEF IInv, TypeOK, PagesBacked, InUse
<1>9. FreeListDurable' /\ HeaderBlank' /\ CreateProgress'
  BY <1>2, <1>3, <1>4 DEF IInv, FreeListDurable, Idle, ProgressInv, HeaderBlank,
     CreateProgress, Creating
<1>10. OwnedPagesKept'
  BY <1>2, <1>3 DEF IInv, TypeOK, OwnedPagesKept, InUse
<1>11. InsertProgress'
  <2>1. Finished' = InUse \ {last}
    BY <1>1, <1>2, <1>3 DEF Finished, InUse
  <2>2. \A n \in Finished' : isInit'[n] /\ id'[n] = n
    BY <1>2, <1>3, <1>4, <2>1, InUseType DEF IInv, TypeOK
  <2>3. nPages' - 1 = last /\ isInit'[last] /\ nPages' > 0
    BY <1>1, <1>2, <1>3, <1>4 DEF IInv, TypeOK
  <2> QED  BY <1>2, <1>3, <1>4, <2>2, <2>3 DEF InsertProgress, Inserting
<1>12. PagesNamed'
  <2>1. \A h \in Handles : node'[h] # None => id[node'[h]] = node'[h] \/ node'[h] = last
    BY <1>2, <1>6 DEF IInv, TypeOK, ProgressInv, PagesNamed
  <2>2. \A n \in PageId \ InUse : ~isInit'[n]
    BY <1>1, <1>2 DEF IInv, TypeOK, ProgressInv, PagesNamed
  <2> QED  BY <1>1, <1>2, <1>3, <2>1, <2>2 DEF PagesNamed, Idle, InUse
<1> QED  BY <1>5, <1>7, <1>8, <1>9, <1>10, <1>11, <1>12 DEF IInv, ProgressInv

\* A new process starts from what the files hold.
LEMMA NewProcessStep ==
  ASSUME IInv, NewProcess, crashes' \in 0 .. MaxCrashes
  PROVE  IInv'
<1> USE DEF NewProcess, headerVars, fileVars
<1>1. TypeOK'
  BY DEF IInv, TypeOK
<1>2. RefCountExact'
  <2>1. \A n \in PageId : Holders(n)' = {}
    BY DEF Holders, PageId
  <2> QED  BY <2>1, FS_EmptySet DEF RefCountExact
<1>3. PagesBacked'
  BY DEF IInv, PagesBacked, InUse
<1>4. FreeListDurable' /\ OwnedPagesKept'
  BY DEF IInv, FreeListDurable, OwnedPagesKept, InUse
<1>5. HeaderBlank' /\ CreateProgress' /\ InsertProgress'
  BY DEF IInv, ProgressInv, HeaderBlank, CreateProgress, Creating, InsertProgress, Inserting
<1>6. PagesNamed'
  BY DEF IInv, ProgressInv, PagesNamed, InUse
<1> QED  BY <1>1, <1>2, <1>3, <1>4, <1>5, <1>6 DEF IInv, ProgressInv

-----------------------------------------------------------------------------
LEMMA NextIInv == IInv /\ [Next]_vars => IInv'
<1> SUFFICES ASSUME IInv, [Next]_vars PROVE IInv'
  OBVIOUS
<1>1. CASE CreateStep
  BY <1>1, CreateHeaderStep, SizeHeaderStep, InitHeaderStep, InitHeaderRefsStep, InitLayoutStep DEF CreateStep
<1>2. CASE Open \/ Close
  BY <1>2, OpenStep, CloseStep
<1>3. CASE HandleStep
  BY <1>3, GetPageStep, CopyNodeStep, AssignNodeStep, DropNodeStep, InsertReuseStep,
     InsertResizeStep DEF HandleStep
<1>4. CASE PageStep
  BY <1>4, SetRefStep, DeletePageStep DEF PageStep
<1>5. CASE InsertStep
  BY <1>5, InsertSizeStep, InsertCountStep, InsertMapStep, InsertIdStep DEF InsertStep
<1>6. CASE Crash
  BY <1>6, NewProcessStep DEF Crash, IInv, TypeOK
<1>7. CASE Restart
  BY <1>7, NewProcessStep DEF Restart, IInv, TypeOK
<1>8. CASE UNCHANGED vars
  <2> USE <1>8 DEF vars, headerVars, fileVars, processVars, cacheVars, historyVars
  <2>1. TypeOK'
    BY DEF IInv, TypeOK
  <2>2. RefCountExact'
    BY DEF IInv, RefCountExact, Holders
  <2>3. PagesBacked' /\ FreeListDurable' /\ OwnedPagesKept'
    BY DEF IInv, PagesBacked, FreeListDurable, OwnedPagesKept, Idle, InUse
  <2>4. HeaderBlank' /\ CreateProgress' /\ InsertProgress'
    BY DEF IInv, ProgressInv, HeaderBlank, CreateProgress, Creating, NoHandles,
           InsertProgress, Inserting, Finished, InUse
  <2>5. PagesNamed'
    BY DEF IInv, ProgressInv, PagesNamed, Idle, InUse
  <2> QED  BY <2>1, <2>2, <2>3, <2>4, <2>5 DEF IInv, ProgressInv
<1> QED  BY <1>1, <1>2, <1>3, <1>4, <1>5, <1>6, <1>7, <1>8 DEF Next

\* IInv holds in every reachable state.
LEMMA SpecIInv == Spec => []IInv
BY InitIInv, NextIInv, PTL DEF Spec

-----------------------------------------------------------------------------
(* The theorems                                                            *)

\* Every variable keeps its type: in particular the page count stays within
\* MaxPages and no reference count becomes negative.
THEOREM TypeCorrect == Spec => []TypeOK
<1>1. IInv => TypeOK
  BY DEF IInv
<1> QED  BY <1>1, SpecIInv, PTL

\* m_count of every page is the number of MemoryNode variables on it, and the
\* cache maps exactly the pages somebody holds.
THEOREM RefCountsCorrect == Spec => []RefCountExact
<1>1. IInv => RefCountExact
  BY DEF IInv
<1> QED  BY <1>1, SpecIInv, PTL

\* After a crash at any store, the file is long enough for every page the
\* header counts, every handle maps and every header field names.
THEOREM NoAccessPastTheFile == Spec => []PagesBacked
<1>1. IInv => PagesBacked
  BY DEF IInv
<1> QED  BY <1>1, SpecIInv, PTL

\* m_deletePages and the isInit flags in the file agree between two calls.
THEOREM FreeListCorrect == Spec => []FreeListDurable
<1>1. IInv => FreeListDurable
  BY DEF IInv
<1> QED  BY <1>1, SpecIInv, PTL

\* A page InsertPage returned stays in use under its id until DeletePage.
THEOREM OwnedPagesSafe == Spec => []OwnedPagesKept
<1>1. IInv => OwnedPagesKept
  BY DEF IInv
<1> QED  BY <1>1, SpecIInv, PTL

\* Create and InsertPage find at each step what the code takes for granted.
THEOREM ProgressCorrect == Spec => []ProgressInv
<1>1. IInv => ProgressInv
  BY DEF IInv
<1> QED  BY <1>1, SpecIInv, PTL

\* The crash budget: one wasted page per crash, from the same invariant.
LEMMA WasteStep == IInv /\ WasteBounded /\ [Next]_vars => WasteBounded'
<1> SUFFICES ASSUME IInv, WasteBounded, [Next]_vars PROVE WasteBounded'
  OBVIOUS
<1>1. /\ nPages \in Nat /\ size \in Nat /\ fileLen \in Nat /\ crashes \in Nat
      /\ nPages <= size /\ size <= fileLen
  BY DEF IInv, TypeOK, PagesBacked
<1>2. CASE InitHeader
  BY <1>1, <1>2 DEF InitHeader, WasteBounded, fileVars, historyVars, IInv, ProgressInv,
         HeaderBlank
<1>3. CASE \E h \in Handles : InsertResize(h)
  BY <1>1, <1>3 DEF InsertResize, WasteBounded, headerVars, historyVars, Idle
<1>4. CASE InsertSize \/ InsertCount
  BY <1>1, <1>4 DEF InsertSize, InsertCount, WasteBounded, fileVars, historyVars
<1>5. CASE Crash
  BY <1>1, <1>5 DEF Crash, NewProcess, WasteBounded, headerVars, fileVars
<1>6. CASE Restart
  BY <1>1, <1>6 DEF Restart, NewProcess, WasteBounded, headerVars, fileVars,
     IInv, ProgressInv, InsertProgress, Inserting
<1>7. CASE UNCHANGED <<fileLen, nPages, crashes>> /\ pc' \notin {"resized", "sized"}
                                                 /\ pc \notin {"resized", "sized"}
  BY <1>7 DEF WasteBounded
<1>8. CASE UNCHANGED <<fileLen, nPages, crashes, pc>>
  BY <1>8 DEF WasteBounded
<1>9. CASE CreateStep /\ ~InitHeader
  BY <1>7, <1>9 DEF CreateStep, CreateHeader, SizeHeader, InitHeaderRefs, InitRef, InitLayout, fileVars,
         historyVars, Idle
<1>10. CASE Open \/ Close
  BY <1>8, <1>10 DEF Open, Close, headerVars, fileVars, historyVars
<1>11. CASE HandleStep /\ ~\E h \in Handles : InsertResize(h)
  BY <1>8, <1>11 DEF HandleStep, GetPage, CopyNode, AssignNode, DropNode, InsertReuse,
     headerVars, fileVars, historyVars
<1>12. CASE PageStep
  BY <1>8, <1>12 DEF PageStep, SetRef, DeletePage, headerVars, fileVars, processVars,
         historyVars
<1>13. CASE InsertMap \/ InsertId
  BY <1>7, <1>13 DEF InsertMap, InsertId, headerVars, fileVars, historyVars
<1>14. CASE UNCHANGED vars
  BY <1>8, <1>14 DEF vars, headerVars, fileVars, processVars, historyVars
<1> QED  BY <1>2, <1>3, <1>4, <1>5, <1>6, <1>9, <1>10, <1>11, <1>12, <1>13, <1>14
         DEF Next, InsertStep

\* A crash costs at most one page of the file.
THEOREM WasteCorrect == Spec => []WasteBounded
<1>1. Init => WasteBounded
  BY DEF Init, WasteBounded
<1> QED  BY <1>1, WasteStep, SpecIInv, PTL DEF Spec

\* Only a crash between the page count and the page's id leaves a page
\* without its id, and only such a page makes DeleteFromCache fail.
LEMMA TornStep == IInv /\ OnlyLastPageTorn /\ [Next]_vars => OnlyLastPageTorn'
<1> SUFFICES ASSUME IInv, OnlyLastPageTorn, [Next]_vars PROVE OnlyLastPageTorn'
  OBVIOUS
<1> USE DEF OnlyLastPageTorn
<1>1. CASE UNCHANGED <<id, nPages, pc, status, crashes>>
  BY <1>1 DEF InUse
<1>2. CASE CreateStep
  <2>1. UNCHANGED <<id, nPages, crashes>> /\ pc' # "counted" /\ pc' # "mapped"
    BY <1>2 DEF CreateStep, CreateHeader, SizeHeader, InitHeader, InitHeaderRefs, InitRef, InitLayout,
       fileVars, historyVars, IInv, ProgressInv, HeaderBlank
  <2>2. pc # "counted" /\ pc # "mapped" /\ status' # "cacheAssert"
    BY <1>2 DEF CreateStep, CreateHeader, SizeHeader, InitHeader, InitHeaderRefs, InitRef, InitLayout, Idle
  <2> QED  BY <2>1, <2>2 DEF InUse
<1>3. CASE Open
  <2>1. UNCHANGED <<id, nPages, crashes, pc>>
    BY <1>3 DEF Open, headerVars, fileVars, historyVars
  <2>2. status' = "cacheAssert" => \E n \in InUse : id[n] # n
    BY <1>3 DEF Open, Idle
  <2> QED  BY <2>1, <2>2 DEF InUse
<1>4. CASE Close
  BY <1>1, <1>4 DEF Close, headerVars, fileVars, historyVars
<1>5. CASE HandleStep
  <2>1. ASSUME NEW h \in Handles, NEW g \in Handles, DropNode(h) \/ AssignNode(h, g)
        PROVE  UNCHANGED <<id, nPages, pc, status, crashes>>
    BY <2>1, DropCounts, AssignCounts DEF DropNode, AssignNode, Idle, headerVars, fileVars,
           historyVars
  <2>2. ASSUME NEW h \in Handles, NEW n \in PageId, GetPage(h, n)
        PROVE  UNCHANGED <<id, nPages, pc, status, crashes>>
    BY <2>2 DEF GetPage, headerVars, fileVars, historyVars
  <2>3. ASSUME NEW h \in Handles, InsertResize(h)
        PROVE  OnlyLastPageTorn'
    BY <2>3 DEF InsertResize, Idle, headerVars, fileVars, historyVars, InUse
  <2>4. ASSUME NEW h \in Handles, InsertReuse(h)
        PROVE  UNCHANGED <<id, nPages, pc, status, crashes>>
    BY <2>4 DEF InsertReuse, headerVars
  <2>5. \A h \in Handles : DropNode(h) => UNCHANGED <<id, nPages, pc, status, crashes>>
    BY <2>1
  <2>6. \A h, g \in Handles : CopyNode(h, g) => UNCHANGED <<id, nPages, pc, status, crashes>>
    BY DEF CopyNode, headerVars, fileVars, historyVars
  <2> QED  BY <1>1, <1>5, <2>1, <2>2, <2>3, <2>4, <2>5, <2>6 DEF HandleStep
<1>6. CASE PageStep
  <2>1. ASSUME NEW n \in PageId, DeletePage(n)
        PROVE  UNCHANGED <<id, nPages, pc, status, crashes>>
    BY <2>1 DEF DeletePage, UnmapStatus, Idle, headerVars, IInv, ProgressInv, PagesNamed
  <2>2. ASSUME NEW n \in PageId, NEW f \in HeaderRefs, SetRef(f, n)
        PROVE  UNCHANGED <<id, nPages, pc, status, crashes>>
    BY <2>2 DEF SetRef, fileVars, processVars, historyVars
  <2> QED  BY <1>1, <1>6, <2>1, <2>2 DEF PageStep
<1>7. CASE InsertStep
  <2>1. CASE InsertSize
    BY <2>1 DEF InsertSize, fileVars, historyVars, InUse
  <2>2. CASE InsertCount
    <3>1. \A n \in InUse : id[n] = n
      BY <2>2 DEF InsertCount, IInv, ProgressInv, InsertProgress, Inserting, Finished
    <3>2. nPages' = nPages + 1 /\ pc' = "counted" /\ status' = "running" /\ UNCHANGED id
      BY <2>2 DEF InsertCount, fileVars
    <3>3. \A n \in InUse' : n \in InUse \/ n = nPages' - 1
      BY <3>2 DEF InUse, IInv, TypeOK
    <3> QED  BY <3>1, <3>2, <3>3
  <2>3. CASE InsertMap
    BY <2>3 DEF InsertMap, headerVars, fileVars, historyVars, InUse
  <2>4. CASE InsertId
    <3>1. PICK last \in PageId : last = nPages - 1
      BY <2>4, InUseType DEF InsertId, IInv, TypeOK, ProgressInv, InsertProgress, Inserting
    <3> id' = [id EXCEPT ![last] = last] /\ \A n \in InUse \ {last} : id[n] = n
      BY <2>4, <3>1 DEF InsertId, IInv, ProgressInv, InsertProgress, Inserting, Finished
    <3>2. \A n \in InUse : id'[n] = n
      BY <3>1, InUseType DEF IInv, TypeOK
    <3>3. status' # "cacheAssert" /\ UNCHANGED nPages
      BY <2>4 DEF InsertId, headerVars
    <3> QED  BY <3>2, <3>3 DEF InUse
  <2> QED  BY <1>7, <2>1, <2>2, <2>3, <2>4 DEF InsertStep
<1>8. CASE Crash
  BY <1>8 DEF Crash, NewProcess, headerVars, fileVars, InUse, IInv, TypeOK
<1>9. CASE Restart
  <2>1. pc # "counted" /\ pc # "mapped"
    BY <1>9 DEF Restart, IInv, ProgressInv, InsertProgress, Inserting
  <2> QED  BY <1>9, <2>1 DEF Restart, NewProcess, headerVars, fileVars, InUse
<1>10. CASE UNCHANGED vars
  BY <1>1, <1>10 DEF vars, headerVars, fileVars, processVars, historyVars
<1> QED  BY <1>2, <1>3, <1>4, <1>5, <1>6, <1>7, <1>8, <1>9, <1>10 DEF Next

\* Page ids are written in order: a torn page is the last one of the table.
THEOREM TornPagesConfined == Spec => []OnlyLastPageTorn
<1>1. Init => OnlyLastPageTorn
  BY DEF Init, OnlyLastPageTorn, InUse
<1> QED  BY <1>1, TornStep, SpecIInv, PTL DEF Spec

\* No step shrinks the table or gives its header up.
THEOREM TableNeverLost == Spec => TableKept
<1>1. IInv /\ [Next]_vars => [nPages' >= nPages /\ (init => init')]_vars
  <2> SUFFICES ASSUME IInv, Next PROVE nPages' >= nPages /\ (init => init')
    OBVIOUS
  <2>1. nPages \in Nat
    BY DEF IInv, TypeOK
  <2>2. CASE UNCHANGED <<nPages, init>>
    BY <2>1, <2>2
  <2>3. CASE CreateStep
    BY <2>1, <2>3 DEF CreateStep, CreateHeader, SizeHeader, InitHeader, InitHeaderRefs, InitRef, InitLayout,
       IInv, ProgressInv, HeaderBlank
  <2>4. CASE Open \/ Close \/ HandleStep
    BY <2>2, <2>4 DEF Open, Close, HandleStep, GetPage, CopyNode, AssignNode, DropNode,
       InsertReuse, InsertResize, headerVars
  <2>5. CASE PageStep
    BY <2>2, <2>5 DEF PageStep, SetRef, DeletePage, headerVars
  <2>6. CASE InsertStep
    BY <2>1, <2>6 DEF InsertStep, InsertSize, InsertCount, InsertMap, InsertId, headerVars
  <2>7. CASE Crash \/ Restart
    BY <2>2, <2>7 DEF Crash, Restart, NewProcess, headerVars
  <2> QED  BY <2>3, <2>4, <2>5, <2>6, <2>7 DEF Next
<1> QED  BY <1>1, SpecIInv, PTL DEF Spec, TableKept

-----------------------------------------------------------------------------
(* Refinement                                                              *)

Owned == {n \in PageId : isInit[n]}

LEMMA AllocatorInit == Init => Allocator!Init
BY DEF Init, Allocator!Init

LEMMA AllocatorNext == IInv /\ [Next]_vars => [Allocator!Next]_<<Owned, alloc>>
<1> SUFFICES ASSUME IInv, [Next]_vars
             PROVE  Allocator!Next \/ UNCHANGED <<Owned, alloc>>
  BY DEF Owned
<1>1. CASE UNCHANGED <<isInit, alloc>>
  BY <1>1 DEF Owned
<1>2. CASE CreateStep \/ Open \/ Close
  BY <1>1, <1>2 DEF CreateStep, CreateHeader, SizeHeader, InitHeader, InitHeaderRefs, InitRef, InitLayout,
     Open, Close, fileVars, historyVars
<1>3. CASE \E h \in Handles : InsertReuse(h)
  <2>1. PICK n \in m_deletePages :
          /\ isInit' = [isInit EXCEPT ![n] = TRUE]
          /\ alloc' = alloc \cup {n}
    BY <1>3 DEF InsertReuse
  <2>2. n \in PageId /\ ~isInit[n]
    BY <1>3 DEF InsertReuse, IInv, TypeOK, FreeListDurable
  <2>3. Owned' = Owned \cup {n} /\ n \in PageId \ Owned
    BY <2>1, <2>2 DEF Owned, IInv, TypeOK
  <2>4. Allocator!Alloc(n)
    BY <2>1, <2>3 DEF Allocator!Alloc, Owned
  <2> QED  BY <2>2, <2>4 DEF Allocator!Next
<1>4. CASE HandleStep /\ ~\E h \in Handles : InsertReuse(h)
  BY <1>1, <1>4 DEF HandleStep, GetPage, CopyNode, AssignNode, DropNode, InsertResize,
     fileVars, historyVars
<1>5. CASE PageStep
  <2>1. ASSUME NEW n \in PageId, DeletePage(n)
        PROVE  Allocator!Next
    <3>1. isInit' = [isInit EXCEPT ![n] = FALSE] /\ alloc' = alloc \ {n} /\ isInit[n]
      BY <2>1 DEF DeletePage, IInv, FreeListDurable
    <3>2. Owned' = Owned \ {n} /\ n \in Owned
      BY <3>1 DEF Owned, IInv, TypeOK
    <3>3. Allocator!Free(n)
      BY <3>1, <3>2 DEF Allocator!Free, Owned
    <3> QED  BY <3>3 DEF Allocator!Next
  <2>2. ASSUME NEW n \in PageId, NEW f \in HeaderRefs, SetRef(f, n)
        PROVE  UNCHANGED <<isInit, alloc>>
    BY <2>2 DEF SetRef, fileVars, historyVars
  <2> QED  BY <1>1, <1>5, <2>1, <2>2 DEF PageStep
<1>6. CASE InsertSize \/ InsertCount
  BY <1>1, <1>6 DEF InsertSize, InsertCount, fileVars, historyVars
<1>7. CASE InsertMap
  <2>0. PICK n \in PageId : n = nPages - 1
    BY <1>7, InUseType DEF InsertMap, IInv, TypeOK, ProgressInv, InsertProgress, Inserting
  <2>1. isInit' = [isInit EXCEPT ![n] = TRUE] /\ ~isInit[n] /\ alloc' = alloc
    BY <1>7, <2>0 DEF InsertMap, historyVars, IInv, ProgressInv, InsertProgress, Inserting
  <2>2. Owned' = Owned \cup {n} /\ n \in PageId \ Owned
    BY <2>1 DEF Owned, IInv, TypeOK
  <2>3. Allocator!Reserve(n)
    BY <2>1, <2>2 DEF Allocator!Reserve, Owned
  <2> QED  BY <2>3 DEF Allocator!Next
<1>8. CASE InsertId
  <2>1. PICK n \in PageId : alloc' = alloc \cup {n} /\ n \notin alloc /\ isInit[n] /\ UNCHANGED isInit
    BY <1>8, InUseType DEF InsertId, IInv, TypeOK, ProgressInv, InsertProgress, Inserting
  <2>2. Owned' = Owned /\ n \in Owned
    BY <2>1 DEF Owned
  <2>3. Allocator!HandOver(n)
    BY <2>1, <2>2 DEF Allocator!HandOver, Owned
  <2> QED  BY <2>3 DEF Allocator!Next
<1>9. CASE Crash \/ Restart
  BY <1>1, <1>9 DEF Crash, Restart, NewProcess, fileVars
<1>10. CASE UNCHANGED vars
  BY <1>1, <1>10 DEF vars, fileVars, historyVars
<1> QED  BY <1>2, <1>3, <1>4, <1>5, <1>6, <1>7, <1>8, <1>9, <1>10 DEF Next, InsertStep

\* The manager implements the page pool of PageAllocator: a page that was
\* handed out is not handed out again before DeletePage, crashes included.
THEOREM ImplementsAllocator == Spec => AllocatorSpec
<1>1. Init => Allocator!Init
  BY AllocatorInit
<1>2. IInv /\ [Next]_vars => [Allocator!Next]_(Allocator!allocVars)
  BY AllocatorNext DEF Owned, Allocator!allocVars
<1> QED  BY <1>1, <1>2, SpecIInv, PTL DEF Spec, AllocatorSpec, Allocator!Spec
=============================================================================
