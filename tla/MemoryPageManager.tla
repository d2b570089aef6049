------------------------- MODULE MemoryPageManager -------------------------
(***************************************************************************)
(* The memory manager of MemoryPage.h: a table is a header file and a page *)
(* file, both memory-mapped; tree nodes are pages named by their index,    *)
(* reached through the counted handle MemoryNode.                          *)
(*                                                                         *)
(* Both files are mapped MAP_SHARED, so a store is in the file as soon as  *)
(* it is executed and survives the death of the process.  Every action     *)
(* below changes at most one field of the files that is kept here, so that *)
(* Crash can fall between any two such stores.  A file length and          *)
(* header.size are counted in pages.                                       *)
(***************************************************************************)
EXTENDS Integers, FiniteSets

CONSTANTS MaxPages,    \* bound: the page file never holds more than MaxPages pages
          Handles,     \* variables of type MemoryNode in the code that uses the manager
          None,        \* the MemoryNode whose m_memNodeImpl is NULL
          MaxCrashes   \* bound: how often the process dies

ASSUME MaxPagesAssumption   == MaxPages \in Nat
ASSUME MaxCrashesAssumption == MaxCrashes \in Nat
ASSUME HandlesAssumption    == IsFiniteSet(Handles)
ASSUME NoneAssumption       == None \notin Handles /\ None \notin 0 .. MaxPages - 1

PageId     == 0 .. MaxPages - 1
HeaderRefs == {"rootPage", "headLeaf", "tailLeaf"}

VARIABLES
  \* the header file
  headerFile,          \* the file <name>_header: not there, empty, or of full size
  init,                \* header->init
  nPages,              \* header->nPages
  size,                \* header->size, in pages
  refs,                \* header->rootPage, headLeaf, tailLeaf
  layout,              \* nSlots and the key and data sizes have been written
  \* the page file
  fileLen,             \* its length, in pages
  isInit,              \* page->isInit
  id,                  \* page->id
  \* the process
  status,              \* "running", or what stopped it
  isOpen,              \* m_header # NULL
  pc,                  \* where Create or InsertPage is
  inserting,           \* the variable InsertPage returns into, or None
  m_deletePages,
  m_memoryPageCache,   \* the pages m_memoryPageCache has an entry for
  m_count,             \* reference counts, 0 for a page that is not mapped
  node,                \* the page each handle refers to, or None
  \* history
  alloc,               \* pages InsertPage returned and nobody deleted since
  crashes

headerVars  == <<headerFile, init, nPages, size, refs, layout>>
fileVars    == <<fileLen, isInit, id>>
cacheVars   == <<m_memoryPageCache, m_count, node>>
processVars == <<status, isOpen, pc, inserting, m_deletePages, cacheVars>>
historyVars == <<alloc, crashes>>
vars        == <<headerVars, fileVars, processVars, historyVars>>

TypeOK ==
  /\ headerFile \in {"none", "empty", "sized"}
  /\ init \in BOOLEAN /\ layout \in BOOLEAN
  /\ nPages \in 0 .. MaxPages
  /\ size \in Nat
  /\ refs \in [HeaderRefs -> PageId \cup {-1, 0}]
  /\ fileLen \in Nat
  /\ isInit \in [PageId -> BOOLEAN]
  /\ id \in [PageId -> PageId]
  /\ status \in {"running", "createAssert", "cacheAssert", "busError"}
  /\ isOpen \in BOOLEAN
  /\ pc \in {"idle", "created", "header", "initRoot", "initHead", "initTail", "initLayout",
             "resized", "sized", "counted", "mapped"}
  /\ inserting \in Handles \cup {None}
  /\ m_deletePages \in SUBSET PageId
  /\ m_memoryPageCache \in SUBSET PageId
  /\ m_count \in [PageId -> Nat]
  /\ node \in [Handles -> PageId \cup {None}]
  /\ alloc \in SUBSET PageId
  /\ crashes \in 0 .. MaxCrashes

Init ==
  /\ headerFile = "none" /\ init = FALSE /\ layout = FALSE
  /\ nPages = 0 /\ size = 0
  /\ refs = [f \in HeaderRefs |-> 0]
  /\ fileLen = 0
  /\ isInit = [n \in PageId |-> FALSE]
  /\ id = [n \in PageId |-> 0]
  /\ status = "running" /\ isOpen = FALSE
  /\ pc = "idle" /\ inserting = None
  /\ m_deletePages = {} /\ m_memoryPageCache = {}
  /\ m_count = [n \in PageId |-> 0]
  /\ node = [h \in Handles |-> None]
  /\ alloc = {} /\ crashes = 0

InUse   == 0 .. nPages - 1            \* the pages the header knows of
Idle    == status = "running" /\ pc = "idle"
NoHandles == \A h \in Handles : node[h] = None

-----------------------------------------------------------------------------
(* Create: the header file, then its fields one after the other            *)

\* Create: Clear(), then CreateHeader makes the file exist, empty when it is
\* new ...  Callers hold no MemoryNode (Clear would destroy the cache under them).
CreateHeader ==
  /\ Idle /\ NoHandles
  /\ isOpen' = FALSE /\ m_deletePages' = {}
  /\ headerFile' = IF headerFile = "none" THEN "empty" ELSE headerFile
  /\ pc' = "created"
  /\ UNCHANGED <<init, nPages, size, refs, layout, fileVars, status, inserting,
                 cacheVars, historyVars>>

\* ... and writes its last byte, which fills a new one with zeros.
SizeHeader ==
  /\ status = "running" /\ pc = "created"
  /\ headerFile' = "sized"
  /\ pc' = "header"
  /\ UNCHANGED <<init, nPages, size, refs, layout, fileVars, status, isOpen, inserting,
                 m_deletePages, cacheVars, historyVars>>

\* mutant: a header in use is filled in again
InitHeaderUnchecked ==
  /\ status = "running" /\ pc = "header"
  /\ init' = TRUE /\ nPages' = 0 /\ isOpen' = TRUE
  /\ pc' = "initRoot"
  /\ UNCHANGED <<headerFile, size, refs, layout, fileVars, status, inserting,
                 m_deletePages, cacheVars, historyVars>>

\* InitHeader maps the header and asserts that it is not in use yet; the page
\* count it then stores is 0 already.
InitHeader ==
  /\ status = "running" /\ pc = "header"
  /\ IF init
       THEN /\ status' = "createAssert"
            /\ UNCHANGED <<init, nPages, pc>>
       ELSE /\ init' = TRUE /\ nPages' = 0
            /\ pc' = "initRoot"
            /\ UNCHANGED status
  /\ isOpen' = TRUE
  /\ UNCHANGED <<headerFile, size, refs, layout, fileVars, inserting,
                 m_deletePages, cacheVars, historyVars>>

InitRef(f, at, next) ==
  /\ status = "running" /\ pc = at
  /\ refs' = [refs EXCEPT ![f] = -1]
  /\ pc' = next
  /\ UNCHANGED <<headerFile, init, nPages, size, layout, fileVars, status, isOpen,
                 inserting, m_deletePages, cacheVars, historyVars>>

InitHeaderRefs ==
  \/ InitRef("rootPage", "initRoot", "initHead")
  \/ InitRef("headLeaf", "initHead", "initTail")
  \/ InitRef("tailLeaf", "initTail", "initLayout")

\* The rest of InitHeader, with CloseHeaderMap: m_header is NULL again.  The size
\* it stores is 0 already, and layout stands for the last of its stores, nSlots.
InitLayout ==
  /\ status = "running" /\ pc = "initLayout"
  /\ size' = 0 /\ layout' = TRUE
  /\ isOpen' = FALSE
  /\ pc' = "idle"
  /\ UNCHANGED <<headerFile, init, nPages, refs, fileVars, status, inserting,
                 m_deletePages, cacheVars, historyVars>>

-----------------------------------------------------------------------------
(* Open and Close                                                          *)

\* Init() maps the header; InitUsedPages() then maps and unmaps every page to
\* find the free ones.  ~MemoryNodeImpl takes the page out of the cache under
\* the id stored IN the page, and asserts that it finds it there.  To read from
\* the mapping of an empty header is a bus error.
Open ==
  /\ Idle /\ ~isOpen /\ NoHandles
  /\ headerFile # "none"
  /\ isOpen' = TRUE
  /\ \/ /\ headerFile = "empty"
        /\ status' = "busError"
        /\ UNCHANGED m_deletePages
     \/ /\ headerFile = "sized" /\ \E n \in InUse : id[n] # n
        /\ status' = "cacheAssert"
        /\ UNCHANGED m_deletePages
     \/ /\ headerFile = "sized" /\ \A n \in InUse : id[n] = n
        /\ m_deletePages' = {n \in InUse : ~isInit[n]}
        /\ UNCHANGED status
  /\ UNCHANGED <<headerVars, fileVars, pc, inserting, cacheVars, historyVars>>

\* Clear().  Callers hold no MemoryNode, as for Create.
Close ==
  /\ Idle /\ isOpen /\ NoHandles
  /\ isOpen' = FALSE /\ m_deletePages' = {}
  /\ UNCHANGED <<headerVars, fileVars, status, pc, inserting, cacheVars, historyVars>>

-----------------------------------------------------------------------------
(* Handles: MemoryNode counts the references to a mapped page              *)

Available(n) == n \in InUse /\ n \notin m_deletePages

\* mutant: a cached page is shared without counting the new reference
AcquireUncounted(h, n) ==
  /\ node' = [node EXCEPT ![h] = n]
  /\ m_count' = IF n \in m_memoryPageCache THEN m_count ELSE [m_count EXCEPT ![n] = 1]
  /\ m_memoryPageCache' = m_memoryPageCache \cup {n}

\* GetMemoryPage into a variable that holds nothing: a cached page is shared,
\* another one is mapped and cached (the cache's own reference is not counted).
Acquire(h, n) ==
  /\ node' = [node EXCEPT ![h] = n]
  /\ IF n \in m_memoryPageCache
       THEN m_count' = [m_count EXCEPT ![n] = @ + 1]
       ELSE m_count' = [m_count EXCEPT ![n] = 1]
  /\ m_memoryPageCache' = m_memoryPageCache \cup {n}

\* The last reference to a page that is given up unmaps it.
LastReferenceLate(n) == m_count[n] = 0      \* mutant: tested before the decrement
LastReference(n) == m_count[n] = 1

\* DeleteFromCache(id[n]) when the last reference to n goes, in a cache c.
UnmapStatus(n, c) == IF id[n] \in c THEN status ELSE "cacheAssert"

GetPage(h, n) ==
  /\ Idle /\ isOpen
  /\ node[h] = None
  /\ Available(n)
  /\ Acquire(h, n)
  /\ UNCHANGED <<headerVars, fileVars, status, isOpen, pc, inserting,
                 m_deletePages, historyVars>>

\* MemoryNode(const MemoryNode&): g is a new variable.
CopyNode(h, g) ==
  /\ Idle
  /\ node[h] # None /\ node[g] = None
  /\ node' = [node EXCEPT ![g] = node[h]]
  /\ m_count' = [m_count EXCEPT ![node[h]] = @ + 1]
  /\ UNCHANGED <<headerVars, fileVars, status, isOpen, pc, inserting,
                 m_deletePages, m_memoryPageCache, historyVars>>

\* g = h: releases what g had, then takes a reference to h's page.
AssignNode(h, g) ==
  /\ Idle
  /\ h # g /\ node[h] # None /\ node[g] # None
  /\ LET old == node[g]
         released == [m_count EXCEPT ![old] = @ - 1]
     IN /\ m_count' = [released EXCEPT ![node[h]] = @ + 1]
        /\ IF LastReference(old)
             THEN /\ m_memoryPageCache' = m_memoryPageCache \ {id[old]}
                  /\ status' = UnmapStatus(old, m_memoryPageCache)
             ELSE UNCHANGED <<m_memoryPageCache, status>>
  /\ node' = [node EXCEPT ![g] = node[h]]
  /\ UNCHANGED <<headerVars, fileVars, isOpen, pc, inserting, m_deletePages,
                 historyVars>>

\* ~MemoryNode
DropNode(h) ==
  /\ Idle
  /\ node[h] # None
  /\ LET old == node[h]
     IN /\ m_count' = [m_count EXCEPT ![old] = @ - 1]
        /\ IF LastReference(old)
             THEN /\ m_memoryPageCache' = m_memoryPageCache \ {id[old]}
                  /\ status' = UnmapStatus(old, m_memoryPageCache)
             ELSE UNCHANGED <<m_memoryPageCache, status>>
  /\ node' = [node EXCEPT ![h] = None]
  /\ UNCHANGED <<headerVars, fileVars, isOpen, pc, inserting, m_deletePages,
                 historyVars>>

-----------------------------------------------------------------------------
(* Header references, deletion and insertion of pages                      *)

\* SetRootId, SetHeadLeafId, SetTailLeafId: the tree stores ids of pages it
\* got from InsertPage.
SetRef(f, n) ==
  /\ Idle /\ isOpen
  /\ n \in alloc
  /\ refs' = [refs EXCEPT ![f] = n]
  /\ UNCHANGED <<headerFile, init, nPages, size, layout, fileVars, processVars,
                 historyVars>>

\* mutant: the page is free in memory only
DeletePageVolatile(n) ==
  /\ Idle /\ isOpen
  /\ n \in InUse /\ n \notin m_deletePages
  /\ m_deletePages' = m_deletePages \cup {n}
  /\ alloc' = alloc \ {n}
  /\ UNCHANGED <<headerVars, fileVars, status, isOpen, pc, inserting, cacheVars, crashes>>

\* DeletePage marks the page free in the file and in m_deletePages.  The local
\* MemoryNode maps a page that is not cached, and unmaps it on return.
DeletePage(n) ==
  /\ Idle /\ isOpen
  /\ n \in InUse /\ n \notin m_deletePages
  /\ isInit' = [isInit EXCEPT ![n] = FALSE]
  /\ m_deletePages' = m_deletePages \cup {n}
  /\ status' = IF n \in m_memoryPageCache THEN status
               ELSE UnmapStatus(n, m_memoryPageCache \cup {n})
  /\ m_memoryPageCache' = IF n \in m_memoryPageCache THEN m_memoryPageCache
                          ELSE (m_memoryPageCache \cup {n}) \ {id[n]}
  /\ alloc' = alloc \ {n}
  /\ UNCHANGED <<headerVars, fileLen, id, isOpen, pc, inserting, m_count, node,
                 crashes>>

\* The tree allocates a page when it has no root, or below a root it could
\* map: a header that Create left half written names a root that is not there,
\* and the tree stops at it before it asks for pages.
RootReadable == refs["rootPage"] \in InUse \cup {-1}

\* InsertPage with a free page: the first one of m_deletePages.
InsertReuse(h) ==
  /\ Idle /\ isOpen /\ RootReadable
  /\ node[h] = None
  /\ \E n \in m_deletePages :
       /\ \A m \in m_deletePages : n <= m
       /\ m_deletePages' = m_deletePages \ {n}
       /\ isInit' = [isInit EXCEPT ![n] = TRUE]
       /\ Acquire(h, n)
       /\ alloc' = alloc \cup {n}
  /\ UNCHANGED <<headerVars, fileLen, id, status, isOpen, pc, inserting, crashes>>

\* InsertPage without a free page: ResizeFile makes room for one page more ...
InsertResize(h) ==
  /\ Idle /\ isOpen /\ RootReadable
  /\ node[h] = None
  /\ m_deletePages = {}
  /\ nPages < MaxPages
  /\ fileLen' = IF fileLen > size + 1 THEN fileLen ELSE size + 1
  /\ inserting' = h
  /\ pc' = "resized"
  /\ UNCHANGED <<headerVars, isInit, id, status, isOpen, m_deletePages, cacheVars,
                 historyVars>>

\* mutant: ResizeFile and its caller both count the new page
InsertSizeTwice ==
  /\ status = "running" /\ pc = "resized"
  /\ size' = size + 2
  /\ pc' = "sized"
  /\ UNCHANGED <<headerFile, init, nPages, refs, layout, fileVars, status, isOpen,
                 inserting, m_deletePages, cacheVars, historyVars>>

\* ... header->size ...
InsertSize ==
  /\ status = "running" /\ pc = "resized"
  /\ size' = size + 1
  /\ pc' = "sized"
  /\ UNCHANGED <<headerFile, init, nPages, refs, layout, fileVars, status, isOpen,
                 inserting, m_deletePages, cacheVars, historyVars>>

\* ... header->nPages ...
InsertCount ==
  /\ status = "running" /\ pc = "sized"
  /\ nPages' = nPages + 1
  /\ pc' = "counted"
  /\ UNCHANGED <<headerFile, init, size, refs, layout, fileVars, status, isOpen,
                 inserting, m_deletePages, cacheVars, historyVars>>

\* ... then the page is mapped and marked in use ...
InsertMap ==
  /\ status = "running" /\ pc = "counted"
  /\ Acquire(inserting, nPages - 1)
  /\ isInit' = [isInit EXCEPT ![nPages - 1] = TRUE]
  /\ pc' = "mapped"
  /\ UNCHANGED <<headerVars, fileLen, id, status, isOpen, inserting, m_deletePages,
                 historyVars>>

\* mutant: the page never gets its id
InsertIdLost ==
  /\ status = "running" /\ pc = "mapped"
  /\ alloc' = alloc \cup {nPages - 1}
  /\ inserting' = None
  /\ pc' = "idle"
  /\ UNCHANGED <<headerVars, fileVars, status, isOpen, m_deletePages, cacheVars, crashes>>

\* ... and gets its id; InsertPage returns.
InsertId ==
  /\ status = "running" /\ pc = "mapped"
  /\ id' = [id EXCEPT ![nPages - 1] = nPages - 1]
  /\ alloc' = alloc \cup {nPages - 1}
  /\ inserting' = None
  /\ pc' = "idle"
  /\ UNCHANGED <<headerVars, fileLen, isInit, status, isOpen, m_deletePages,
                 cacheVars, crashes>>

-----------------------------------------------------------------------------
(* The process dies and is started again                                   *)

\* A new process: a fresh MemoryPageManager, nothing mapped.
NewProcess ==
  /\ status' = "running" /\ isOpen' = FALSE
  /\ pc' = "idle" /\ inserting' = None
  /\ m_deletePages' = {} /\ m_memoryPageCache' = {}
  /\ m_count' = [n \in PageId |-> 0]
  /\ node' = [h \in Handles |-> None]
  /\ UNCHANGED <<headerVars, fileVars, alloc>>

\* The process is killed between any two stores.
Crash ==
  /\ status = "running"
  /\ crashes < MaxCrashes
  /\ crashes' = crashes + 1
  /\ NewProcess

\* After a failed assertion the program is started anew.
Restart ==
  /\ status # "running"
  /\ UNCHANGED crashes
  /\ NewProcess

-----------------------------------------------------------------------------
CreateStep == CreateHeader \/ SizeHeader \/ InitHeader \/ InitHeaderRefs \/ InitLayout
InsertStep == InsertSize \/ InsertCount \/ InsertMap \/ InsertId

HandleStep ==
  \E h \in Handles :
    \/ \E n \in PageId : GetPage(h, n)
    \/ \E g \in Handles : CopyNode(h, g) \/ AssignNode(h, g)
    \/ DropNode(h)
    \/ InsertReuse(h)
    \/ InsertResize(h)

PageStep ==
  \E n \in PageId :
    \/ \E f \in HeaderRefs : SetRef(f, n)
    \/ DeletePage(n)

Next ==
  \/ CreateStep
  \/ Open \/ Close
  \/ HandleStep
  \/ PageStep
  \/ InsertStep
  \/ Crash \/ Restart

Spec == Init /\ [][Next]_vars

-----------------------------------------------------------------------------
(* Properties                                                              *)

Holders(n) == {h \in Handles : node[h] = n}

\* README, "Memory Manager": mapped pages "keep a reference counter, so when
\* the node is no longer used, its destroyed".  The counter of a page is the
\* number of handles on it, whichever way they were copied and assigned, and
\* a page is in the cache exactly as long as somebody holds it.
RefCountExact ==
  status = "running" =>
    \A n \in PageId :
      /\ m_count[n] = Cardinality(Holders(n))
      /\ n \in m_memoryPageCache <=> Holders(n) # {}

\* Whatever store the process died after, the page file is at least as long
\* as the header says, and every page a handle maps or a header field of a
\* completely created table names lies inside it: no access to a node reads
\* past the end of the mapped file, nor does one to the header.
PagesBacked ==
  /\ nPages <= size /\ size <= fileLen
  /\ isOpen /\ status = "running" => headerFile = "sized"
  /\ \A h \in Handles : node[h] # None => node[h] \in InUse
  /\ layout => \A f \in HeaderRefs : refs[f] \in InUse \cup {-1}

\* Between two calls the in-memory free list and the isInit flags in the file
\* agree: a crash would lose no free page and resurrect none.
FreeListDurable ==
  Idle /\ isOpen => m_deletePages = {n \in InUse : ~isInit[n]}

\* A page that was handed out and not deleted is in use in the file under its
\* own id, after any number of crashes, and InsertPage cannot hand it out.
OwnedPagesKept ==
  \A n \in alloc : n \in InUse /\ isInit[n] /\ id[n] = n /\ n \notin m_deletePages

\* The page a crash inside InsertPage leaves without an id is the last one of
\* the table; and such a page is needed for the assertion of DeleteFromCache
\* to fail.
OnlyLastPageTorn ==
  /\ \A n \in InUse : id[n] # n =>
        /\ n = nPages - 1
        /\ pc \in {"counted", "mapped"} \/ crashes > 0
  /\ status = "cacheAssert" => \E n \in InUse : id[n] # n

\* A crash costs at most one page of the file: pages past the table come only
\* from crashes inside InsertPage, one each.
WasteBounded ==
  fileLen - nPages <= crashes + (IF pc \in {"resized", "sized"} THEN 1 ELSE 0)

\* What Create and InsertPage can rely on at each of their steps, whatever
\* crashes came before: a header that was not claimed is blank, a header under
\* construction names no page, and the page being added is new to everybody
\* while all pages before it are in use under their own ids.
Creating  == pc \in {"initRoot", "initHead", "initTail", "initLayout"}
Inserting == pc \in {"resized", "sized", "counted", "mapped"}
Finished  == IF pc \in {"counted", "mapped"} THEN InUse \ {nPages - 1} ELSE InUse

HeaderBlank ==
  ~init => nPages = 0 /\ size = 0 /\ ~layout /\ \A f \in HeaderRefs : refs[f] = 0

CreateProgress ==
  /\ Creating \/ pc \in {"created", "header"} => NoHandles
  /\ Creating \/ pc = "header" => headerFile = "sized"
  /\ pc = "created" => ~isOpen
  /\ Creating => init /\ ~layout /\ nPages = 0 /\ size = 0
  /\ pc \in {"initHead", "initTail", "initLayout"} => refs["rootPage"] = -1
  /\ pc \in {"initTail", "initLayout"} => refs["headLeaf"] = -1
  /\ pc = "initLayout" => refs["tailLeaf"] = -1

InsertProgress ==
  Inserting =>
    /\ status = "running" /\ isOpen /\ init
    /\ m_deletePages = {} /\ inserting \in Handles
    /\ \A n \in Finished : isInit[n] /\ id[n] = n
    /\ pc \in {"resized", "sized"} => nPages < MaxPages
    /\ pc = "resized" => size + 1 <= fileLen
    /\ pc = "sized" => nPages + 1 <= size
    /\ pc # "mapped" => node[inserting] = None
    /\ pc \in {"counted", "mapped"} => nPages > 0 /\ nPages - 1 \notin alloc
    /\ pc = "counted" => ~isInit[nPages - 1] /\ \A h \in Handles : node[h] # nPages - 1
    /\ pc = "mapped" => isInit[nPages - 1]

\* A page that is open to the tree carries its own id, so DeleteFromCache
\* finds it; and a page past the end of the table is not in use.
PagesNamed ==
  /\ Idle /\ isOpen => \A n \in InUse : id[n] = n
  /\ \A h \in Handles : node[h] # None =>
        id[node[h]] = node[h] \/ (pc = "mapped" /\ node[h] = nPages - 1)
  /\ \A n \in PageId \ InUse : ~isInit[n]

ProgressInv == HeaderBlank /\ CreateProgress /\ InsertProgress /\ PagesNamed

\* No step forgets pages of a table: the page count never goes down and a
\* header that was claimed stays claimed.
TableKept == [][nPages' >= nPages /\ (init => init')]_vars

\* The manager implements the page pool: InsertPage hands out pages nobody
\* has, and only DeletePage takes one back.
Allocator == INSTANCE PageAllocator
               WITH owned <- {n \in PageId : isInit[n]}, client <- alloc
AllocatorSpec == Allocator!Spec

\* DeleteFromCache asserts that the page it removes is in the cache.
CacheAssertHolds == status # "cacheAssert"

\* InitHeader asserts that the header it fills in is not in use.
InitAssertHolds == status # "createAssert"
=============================================================================
