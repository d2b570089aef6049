# Verification of PersistentBTree

TLA+ models of the program in `src/src`, checked with TLC, with theorems about
them checked by TLAPS. Paths below are relative to the root of the repository's
sources (`src/`), line numbers to the revision the models were written from.

## The system

PersistentBTree keeps key/data pairs in a B+ tree whose nodes are pages of a
memory-mapped file. `README.md` of the repository names two parts, the tree and
the memory manager; the source has these:

| Component | Source | State | Operations |
|---|---|---|---|
| Memory manager | `MemoryPage.h`, `MemoryPage.cpp` | header file, page file (both mapped shared), free list, page cache, reference counts | `Create`, `Open`, `Close`, `InsertPage`, `GetPage`, `DeletePage`, `SetRootId` ..., copying, assigning and destroying a `MemoryNode` |
| In-memory B+ tree | `btree.h` | nodes on the heap, root, head and tail of the leaf chain, counters | `insert`, `erase_one`, `erase`, `clear`, `exists`, `find`, `count`, `lower_bound`, `upper_bound`, iteration, copy, `swap` |
| Persistent B+ tree | `persistentbtree.h` | nodes in pages, ids of root, head, tail in members and in the header | the operations of `btree.h` on pages; `create`, `open`, `clear` |
| Page layout and slot access | `MemoryPage.cpp`, `persistentbtree.h` | bytes of a page | `SetKey`, `SetData`, `SetChild` and their readers |
| Typed keys and data | `data_structures.h` | types of a table, bytes of a row | comparison, conversion from text |
| Query language | `database.cpp`, `string_utils.h` | the text of a query and the place in it | `CREATE`, `INSERT`, `GET`; `hasNext`, `next`, `tokenize` |
| Coroutine server | `server.cpp`, `server.h` | coroutines, deferred handler of each thread, the io_service queue | `go`, `defer`, `goAccept`, `readUntil`, `write`, `dispatch` |
| Command line program | `main.cpp` | none | asks one query |
| SQLite internals | `btreeint.h` | (included by no file) | |

**How they interact.** A query opens a table: `Database::query` makes a
`PersistentBTree`, which calls the memory manager for every node it visits. The
manager hands out `MemoryNode` handles; the last handle on a page unmaps it and
calls back into the manager's cache. Page file and header file are the only
state that outlives the process. The server would serve queries over sockets; in
this revision it answers each request with a fixed page. `btree.h` is the tree
that `persistentbtree.h` was copied from and stands on its own.

**What is hard.**

- Memory manager: the process can die between any two stores to the mapped
  files, and the next process starts from what is there. Free list, page flags,
  page count and file length are four copies of one fact. Handles are copied,
  assigned and dropped in any order, and the entry of the cache is a handle that
  is not counted.
- In-memory tree: an erase works on neighbours it computed on the way down,
  after the levels below have merged and freed nodes; the largest key of a
  subtree may be recorded several levels up; a split must put the new slot into
  the right half of the right node; equal keys run over several leaves; one
  limit is used for leaves and inner nodes alike.
- Persistent tree: state in two places (members and header), many stores for one
  insertion with a death possible between any two, slots whose keys are written
  where data is read, a limit on the slots of a page that no code sets, and null
  handles that kill the process when they are copied.
- Queries: each opens its table anew and leaks a descriptor; a text is parsed
  twice, converted by the type of its column, and compared by operators that
  look at one operand.
- Server: a coroutine may be resumed by another thread while the thread that
  suspended it is still in the handler that started the operation.

**What makes each component correct.**

- Memory manager: a page that was handed out is not handed out again before it
  is freed, whatever crashes; no mapped page lies past the end of the file;
  counters are exact; a crash wastes at most one page; a table once opened can
  be opened again (this one fails, see Findings).
- In-memory tree: it is a sorted multimap, each call takes effect once; leaves
  and chain agree; fill limits and array sizes hold; every call returns.
- Persistent tree: after any deaths the references name pages that exist, pairs
  and pages are counted, a search meets no null handle, and no store leaves the
  page; the pair inserted last is found under its key. Iterating meets the keys
  that were inserted, and a search for another key does not find it (these fail,
  see Findings).
- Queries: a GET with the key of the last INSERT finds its text; no death and no
  missing descriptor costs a table a pair it has counted; no character of a query
  is lost or used twice. A GET finds only what was inserted under its key, each
  text in its column (this fails, see Findings).
- Server: a coroutine runs on one thread at a time and is always running,
  waiting for exactly one operation, or deleted; a failed accept costs its thread
  and all later connections, but must not end the serving of others.

## Modules

| Module | Models | Lines of code |
|---|---|---|
| `PageAllocator` | abstract: the pool of pages the memory manager promises | |
| `MemoryPageManager` | the memory manager with crashes, and its properties | `MemoryPage.h`, `MemoryPage.cpp` 11-50 |
| `MC_MemoryPageManager` | the symmetry of the handles, for TLC | |
| `MemoryPageManager_proofs` | the theorems about it | |
| `OrderedMultimap` | abstract: what the tree promises | |
| `BTree` | the in-memory tree | `btree.h` 27-750, 844-1945 |
| `BTreeProperties` | its properties and its refinement mapping | |
| `MC_BTree` | families of scripts of calls that drive it | |
| `BTreeObjects` | two trees in one heap: assignment and `swap` | `btree.h` 394-404, 456-529, 766-783, 802-842 |
| `BTreeLemmas` | for the proofs: induction, ordered forests, rows and runs of keys, joined sequences; what a change of a heap does to them | |
| `BTreeInvariant_proofs` | the invariant of the tree; insert and an erase on a leaf keep its shape; the order of the keys and what changes of a heap do to it | |
| `BTree_proofs` | what freeing nodes and moving children between inner nodes does to a heap; the other steps of an erase and `clear` keep the shape, all steps the order; the leaves of the tree and the chain, and the theorems about the tree | |
| `PersistentTree` | the tree in a page: table, insert, searches, deaths | `persistentbtree.h` 297-343, 372-387, 428-478, 534-767, 863-1021, 1964-1976; `MemoryPage.cpp` 52-104; `MemoryPage.h` 29-63, 304-325 |
| `PersistentTree_proofs` | the theorems about it | |
| `PersistentClaims` | that iterating meets every key inserted, which is violated | `persistentbtree.h` 1994-2009 |
| `StringParser` | the parser | `string_utils.h` 18-65 |
| `TypedValues` | columns, their sizes, conversion and comparison | `data_structures.h` 14-41, 98-266, 344-422 |
| `Database` | queries on tables | `database.cpp` 10-115; `MemoryPage.h` 345-417, 433-524; `persistentbtree.h` 679-697, 875-887, 1003-1010 |
| `DatabaseClaims` | that a GET answers with what was inserted under its key, which is violated | |
| `MC_Database` | the queries TLC asks | |
| `Database_proofs` | what the loops of the parser return, and the theorems about queries | |
| `CoroServer` | coroutines, threads, the accept loop and the connections | `server.cpp` 35-281, 311-329, 417-445; `server.h` 35-73 |
| `CoroServer_proofs` | the theorems about it | |
| `ReadUntil` | the buffer of `Socket::readUntil` | `server.cpp` 340-402, 428-433 |
| `MC_ReadUntil` | the delimiter of the server | |
| `ReadUntil_proofs` | the theorems about it | |

### MemoryPageManager

Variables keep the names of the code. `nPages`, `size`, `refs` are the fields of
`MemoryHeader`, `isInit` and `id` those of `MemoryPage`; `fileLen` is the length
of the page file, in pages. `m_deletePages`, `m_memoryPageCache` and `m_count`
are the manager's; `node` is what each `MemoryNode` variable of a caller refers
to. `alloc` is history: the pages `InsertPage` returned and nobody freed.

Both files are mapped `MAP_SHARED`, so a store survives the process that
executed it. Every action changes at most one field of the files that the model
keeps, and `Crash` can come between any two: `InsertPage` without a free page is `InsertResize`,
`InsertSize`, `InsertCount`, `InsertMap`, `InsertId` (the file length,
`header->size`, `header->nPages`, `isInit`, `id`, in the order of lines
397-410), and `Create` is `CreateHeader` (the file is made), `SizeHeader` (it gets
its length), `InitHeader`, `InitHeaderRefs` (three steps) and `InitLayout`. The
last stands for the stores of lines 302-325, of which `layout` shows the last one,
`nSlots`: a death before it leaves a table without a layout, whichever of the
others were made. After a death between the first two the header is empty, and
`Open` of such a table is killed by the first read from the mapping
(`busError`). The model is of the death of a process, not of the
machine: the order in which the kernel writes pages to disk is not modelled.
`usedPages` is left out, nothing reads it.

`Open` with the temporary mappings of `InitUsedPages` is one action, since the
temporaries are gone when it returns; what it does to the cache depends on the
id stored IN each page, through `~MemoryNodeImpl`. A failed assertion ends the
process (`status`), and `Restart` starts it again.

Callers are constrained as the tree constrains itself: `Create`, `Open` and
`Close` are called without live handles, `SetRootId` and its kin get ids that
came from `InsertPage`, and pages are requested only when the root of the header
can be reached (`RootReadable`): with the root 0 of a half-created table the
tree stops at the missing page.

### BTree

The recursive functions have an explicit stack: `InsertDescend` and
`EraseDescend` go one level down, `InsertIntoLeaf`, `InsertSplitLeaf` and
`EraseHit` do the work on the leaf, and `InsertIntoInner`, `InsertSplitInner`
and `EraseAbove` are what a level does after the call below it returned. `stack`
holds the arguments each level was called with, among them the neighbours
`erase_one_descend` computed on the way down; `ret` is the result on the way up.
`erase_iter_descend` differs from `erase_one_descend` only in how it finds the
leaf, and shares its actions: `OnTarget`, `TargetSlot` and `EraseNextSlot` are
where it differs. A leaf's two arrays are one sequence of pairs; an address is a
number and `heap` says what is there. Node sizes are at least 4; with smaller
ones the code reads `slotkey[-1]`.

Searches are operators on the state. The binary searches, the descent, the loop
of `count` and the iterator steps are written out, and compared with definitions
over the sequence of all pairs.

### BTreeObjects

The variables of `BTree` are the object calls are made on and `other` holds the
members of the second one. Both take their nodes from one heap, so a copy that
shares a node with its original is a state of the model. `Assign` is
`operator=` (clear, `copy_recursive`, the counters), `Swap` exchanges the
members, and since the calls of `BTree` follow, each object plays both parts.
`copy_recursive` is one step, as nothing can come in between; its order of
allocation and its chaining of leaves are kept. `ObjectsApart` evaluates
`BTreeProperties` twice, each time on the nodes below one root.

### PersistentTree

**What can be reached.** `split_leaf_node` is called when `isfull` holds, and
`isfull` compares `page->nSlots`, a field that no code of the repository stores
to and that is zero in a new page, with the number of slots in the header, which
is positive for any key and data that fit into 64 KiB (`SizeAssumption`). So a
leaf is never split, there is never an inner node, and the tree is one page. This
is said of a table whose creation was completed, which is what `Create` stands
for: after a death inside `InitHeader` the number of slots in the header is 0, and
`isfull` would hold. What such a death leaves is in `MemoryPageManager`; the tree
on such a table is not modelled.
Every erase on a tree with a page copies a null handle before it looks at a slot
(`MemoryPage.h:134`). The code for splitting, merging and shifting pages
therefore has no execution to be modelled, and a model of it would be a model of
another program. What remains is modelled: a leaf in a page that
grows, the header, and which calls kill the process.

`rootPage`, `headLeaf`, `tailLeaf`, `nPages` are the header; `slotuse` and `area`
are the pages, `area` mapping the offsets behind the `MemoryPage` that were
written to bytes. A byte is a value and a position in its image, so that an
overlap of two stores shows. `GetKeyAt`, `GetDataAt`, `SetKeyAt`, `SetDataAt`
are the addresses of `MemoryPage.cpp`; they do not agree, which is the point.
`Store` is one `memcpy`, and what it writes beyond the mapping is in no file and
is recorded in `strayed`; the process may survive it or not (`Killed`).

Each action has at most one store and `Killed` can come between any two:
`AllocateLeaf`, `SetRootId`, `SetHeadLeafId`, `SetTailLeafId`, then
`CopyKey` and `CopyData` slot by slot, `SetKey`, `SetData`, `InsertReturn`.
What happens within `InsertPage`, and in a `Create` that is cut short, is in
`MemoryPageManager`, whose
`OwnedPagesKept` and `PagesBacked` are what `AllocateLeaf` takes for granted.

`FatalCall` stands for all calls that copy a null handle; `FindDies`,
`CountDies` and the others say which do. Calls that return change nothing and
are operators.

`PersistentClaims` remembers the keys whose insert returned, and states that an
iteration meets them.

### StringParser, TypedValues, Database

A query is a sequence of characters, in which a word such as `INSERT` or a text
of digits counts as one. `hasNext` and `next` are functions of the string and
`m_idx`, and `words` is the loop over them; `WordsAreTheInput` compares it with a
definition of the words of a string.

A row is what its columns hold: a number (in halves, so that truncation shows),
the pointer a `VariantString` leaves, or bytes nobody stored. `converted` is
`CVariant::SetData`; `SetData` is `DataType::SetData` with what it stores over
its neighbours, `Overruns` what it stores beyond the buffer. `row_less` makes
both sides from the left operand, as the code does.

`Database::query` is one action per outcome. The tree enters as what
`PersistentTree` shows of it: an insert leaves its data in slot 0
(`LastInsertFound`), a find returns slot 0 or the place behind the last pair.
`files` are the descriptors that `OpenHeaderMap` leaks; a query that gets none
ends the process and gives the next one all of them back.

A table says how far it has come to a root (`page`): no page; room for one in the
file; a page marked free; pages no reference names; pages that can no longer be
mapped under their ids (`broken`), so that every open dies; and the root, with or
without the reference to the tail. `PageSteps` says which of these the stores of
`InsertPage` lead to, and `Outcomes` adds the stores of the references and of slot
0: `Interrupted` is an INSERT that dies after any of them. `PageFails` is the
INSERT that gets no descriptor for its first page: `InsertPage` has counted the
page by then (`MemoryPage.h` 403-404), and of a table without any page it leaves
one that cannot be opened again.

A GET finds slot 0 of the leaf if `key_equal` holds there. In a table without a
root it dies; in one whose first INSERT was interrupted, with a root and no pair,
it reads slot 0 of the empty leaf if the reference to the tail is set, and dies if
not. `DatabaseClaims` remembers the INSERTs that were asked.

### CoroServer

A thread goes round `poll` (in `io_service::run`), `inside` (a coroutine's code
runs on it), `yielded` (control is back in `jump0`), `left` (at
`onCoroComplete`) and `deferring` (the deferred handler has started its
operation and `t_deferHandler` is still set), or is `gone`. `coro`,
`t_deferHandler` and `t_error` are the thread's; `allocated`, `started`,
`running` and `exc` say which coroutines exist and how their fields are set, and
`at` is where their code waits. The step that matters is the one between
`StartOperation` and `FinishDefer`: from the moment the operation exists, it can
complete and another thread can resume, run, and delete the coroutine, while
the first thread is not back yet.

The io_service is external: `ready` is its queue of handlers, in order, and
`ops` are the operations it waits for. Any operation can complete or fail at any
moment, except an accept without a client. `OperationFails` covers a client that
goes away, and for the accept an exhausted resource. An exception that leaves a
coroutine travels through `jump0` and `run`: `Rethrow` ends the thread
(`goSync` catches it) or, in the main thread, the process. `RunReturns` is the
return of `run` when there is nothing to wait for.

The pieces of one `readUntil` or `write` complete outside any coroutine and touch
neither threads nor coroutines, so they are one operation here; what `readUntil`
does with the pieces is `ReadUntil`.

### ReadUntil

`buffer`, with everything in it, and `offset` are the code's; `received` and
`chunk` remember what the client sent since the call began. `ReadSome` is the
handler `operator()` with any bytes for which there is room; `Call` is the next
round of the connection's loop, which resizes the buffer without clearing it.

## Runs

| Run | Question | Result |
|---|---|---|
| `memory_manager` | all properties of the memory manager | hold |
| `torn_page` | does the assertion of `DeleteFromCache` hold? | violated |
| `second_create` | does the assertion of `InitHeader` hold? | violated |
| `tree_calls` | is the tree well formed, and a sorted multimap, in many orders of insertion and erasure, with equal keys, after `erase(key)`, `erase(iterator)` and `clear`; does every call return? | holds |
| `tree_deep` | the same structure with nodes of odd size and two levels of inner nodes; do trees that are assigned and swapped between calls share or leak a node, or lose a pair? | holds |
| `wide_inner_nodes` | do merges fit when inner nodes are larger than leaves? | violated |
| `coro_server` | do the assertions of the coroutine code hold in every interleaving, is a coroutine ever lost, run twice, or ended by another's error, does every handler run? | holds |
| `read_until` | does `readUntil` find the delimiter in time, in the right bytes, and with room to read? | holds |
| `persistent_tree` | what does a new process find, whatever stores were made before the last one died? | holds |
| `keys_read_back` | does iterating meet the key that was inserted? | violated |
| `database` | does a GET with the key of the last INSERT find it, do counted pairs and their table survive deaths and missing descriptors, and are the words of a query its characters? | holds |
| `get_answers` | does a GET find only what was inserted under its key, each text in its column? | violated |

**Bounds.** `memory_manager`: three pages, so that there is a first, a middle
and a last one, and the free list can hold several; three handles, so that a page
can be shared while another handle is assigned over; two crashes, so that the
recovery from a crash can itself be interrupted. Handles are interchangeable and
the run uses their symmetry.

`tree_calls`: leaves and inner nodes of 4 slots (minimum 2), the smallest size
the code supports, and two families of scripts. In the first the keys 1 to 18 are
inserted as the multiples of `a` modulo 19
and erased as the multiples of `b`, for each of the 18 x 18 pairs of `a` and `b`,
down to the empty tree. With 18 keys the tree has three levels, so leaves and
inner nodes are both split, merged and shifted, with siblings and cousins.
`tree_deep` has nodes of 5 slots, where minimum and maximum
are not a factor of two apart, and 22 keys inserted in ascending order, which
leaves nodes as empty as splits make them and gives two levels of inner nodes;
they are erased in an order that mixes low and high keys, and from the largest
down. Assignments and swaps, two in all, come at any moment between two calls,
so that a tree can be put aside, copied back in any state of its growth or
decay, and changed after it. The second family of `tree_calls` inserts
twelve pairs, of the keys 0 to 4 two, three, three, three and one, in two orders,
erases two of them in two orders and then makes any three calls with the keys 0, 2
and 4; the iterator of `erase(iterator)` is any position of the tree. A tree depends on its keys only through their order, so no
more keys than pairs are needed; data are two values, one more than is needed to
tell a pair from its neighbour.

`persistent_tree`: a key of one byte (BOOL) and data of 16 (two INT64), with the
real 4048 and 65488 bytes behind a `MemoryPage`, so that the offset of the data
(3852) lies inside the page and the eighth insert is the first to store behind
it; eight inserts; two keys and two values; two deaths,
so that a recovery can be interrupted. `keys_read_back` needs one insert of the
same sizes.
`database`: two tables, six CREATEs with no, one and two columns, types that are
known and unknown, seven INSERTs and four GETs, texts that are too many, too long
and too large; two pairs in each table, so that there is an INSERT into an empty
table and one into a table that must keep what it has; four descriptors, so that
an open can find none, or none for the page, after one or two queries; for the parser all strings of up to four characters (blank,
quote, letter, other), after a quoted text of up to four. `get_answers` asks three
queries of one table with two columns of data.

`coro_server`: three threads, so that one can be lost and two still race; two
connections and the accept loop, three coroutines for three threads. A third
connection would only repeat what the second does: coroutines meet in the queue
and on the threads, not with one another. `read_until`: both bytes of the
delimiter, in all orders and all cuts, up to nine bytes for one call; the buffer
starts with the size of the delimiter, so it is doubled twice. The server starts
with 4000 bytes; nothing in the code compares this number with anything but the
delimiter's length.

**Deadlock.** The tree runs end when the script is done, the server when the
process ends, a connection when its client is gone (`CHECK_DEADLOCK FALSE`), and the persistent tree when its
bounds are reached; the runs of violated claims stop at the violation. The memory
manager and the database check deadlock.

**Fairness.** `EveryHandlerRuns` assumes weak fairness of each thread's steps:
the operating system schedules every thread, and no thread waits for another
one. Nothing is assumed of clients and network, so an operation may stay open
for ever; the property is about handlers that are ready. That they are taken in
order is how the io_service works. `CallsReturn` assumes weak fairness of `Step` only: a call that has
been started keeps running, since the tree is sequential code that waits for
nothing. No call is assumed ever to be started.

**Refinement.** `AllocatorSpec`: the memory manager implements `PageAllocator`,
with `owned` the pages marked in use in the file and `client` those a caller has.
A crash in the middle of `InsertPage` leaves a page owned by nobody; that is the
step `Reserve` without `HandOver`. `MultimapSpec`: the tree implements
`OrderedMultimap`, with `items` the pairs in the order of the leaf chain; a call
takes effect at the action on the leaf, and all rebalancing steps are stutters.

## Proofs

`MemoryPageManager_proofs` proves every property of the run `memory_manager` for
any number of pages, handles and crashes, from the assumptions of the module
(`MaxPages` and `MaxCrashes` are natural numbers, `Handles` is finite, `None` is
none of the others).

The properties are not inductive by themselves. Their conjunction `IInv` is, with
`ProgressInv` as the part that makes it so: it says what each step of `Create`
and `InsertPage` finds. An unclaimed header is blank; a header under construction
names no page; while `InsertPage` runs, all pages but the new one are in use
under their own ids, the new one is nobody's, and the free list is empty; an open
table has no page without its id, since `Open` would have failed on it. From that
a page always unmaps under the id it was mapped under (`HeldPage`), so the
counting of references stays exact (`AcquireCounts`, `DropCounts`, `CopyCounts`,
`AssignCounts`, which rest on the cardinality of the set of holders).

The proof has a lemma per action and under it a step per conjunct of `IInv`;
`HandleMove` and `NewProcessStep` collect what actions of one kind share.
`WasteBounded`, `OnlyLastPageTorn` and the action property `TableKept` follow
from `IInv` and one more induction each, and `ImplementsAllocator` maps each step
to a step of `PageAllocator` or a stutter.

`ReadUntil_proofs` proves every property of the run `read_until` for any
delimiter that is not empty, any first size of the buffer that is not below its
length (the `VERIFY` of line 348), any bytes and any bound. The conjunction of
the four is inductive. The step that reads is the one with content:
`FilledKeeps` and `ResizeKeeps` say that the received bytes are the start of the
buffer after it, and `SearchExact` that a search which starts no further than a
delimiter's length before their end sees nothing else.

`PersistentTree_proofs` proves every property of the run `persistent_tree` for
any sizes of key, data, `int` and page and any number of inserts and deaths. The
inductive invariant is the conjunction of `TypeOK`, `RefsInOrder`,
`InsertsCounted` and `InsideWhileRoom` with two parts that are needed to make it
inductive. `Steps` says what each store of an insert relies on: the root exists
and is the header's from `setHead` on, the head and tail are unset in the
header until their turn, and a page that is in no header is empty. `FirstData`
follows the data of the last insert through the stores of the next one:
`CopyKey` writes above slot 0 (`ReadBelow`), `CopyData` is allowed to destroy it
since `last` is unknown by then, and `SetData` writes it anew (`ReadStored`).
That find ends at slot 0 for every key, so also for the key of the last insert, is
`SearchEndsAtFirst`; that the stores of an
insert stay inside while there is room is `StoreInside` with
`RoomShrinks`, the only arithmetic with products (`ProductGrows`).
`SearchesSurvive` and `LastInsertIsFound` follow from the invariant.

`CoroServer_proofs` proves every safety property of the run `coro_server` for any
finite sets of threads and connections. The inductive invariant `IInv` says who
holds each coroutine: a thread that handles it, the one operation it waits for, or
the one handler that is ready for it (`OneHolder`, `SomeHolder`), and what the
holder may assume (`ThreadsInv`, `CorosInv`, `OpsInv`, `ReadyInv`). It is needed
since `VerifyHolds` speaks of the moment an assertion is reached, and what makes it
true there was arranged by another thread several steps before: a thread that has
started its operation and still holds the deferred handler may see the operation
complete, the coroutine resumed, ended and deleted by others before it gets to
`FinishDefer`, and must by then not touch the coroutine any more. `NeverLost`
counts holders; that the three sets it counts have one element together is
`OneHolder`, through cardinalities of sets of at most one element. `ThreadsSurvive`
is `GoneInv`: the threads that are gone are at most the one that rethrew the
exception of the accept coroutine.

`Database_proofs` proves `TypeOK`, `GetFindsLastInsert` and `InsertsSurvive` for any
tables, any queries over any characters, any columns, any sizes of page and column
and any number of descriptors and deaths. What makes them inductive is `RowsInv`:
what a GET would find is in slot 0 already, before anyone asks (`Holds`), unless the
last INSERT was interrupted. `OutcomesKeep` says that no prefix of the stores of an
INSERT costs a table a pair: one that has counted a pair has its root, so neither
`InsertPage` nor the references are touched again, and `PageFailsInv` that an INSERT
without a descriptor fails in tables without a root only. Two loops have to be followed: the one that stores the texts
(`FilledLoop`, `FilledIs`: the last text stays, since each is stored in column 0)
and the parser's (`WordsFromIs`: `wordsFrom` is what its recursion says, since
`next` always moves on; `WordsTyped`). These are inductions over positions and
lengths. The induction theorems of the library have an operator as parameter;
the lemmas here state them with a set instead, from the well-foundedness of the
numbers. The proof showed that the property had to say what it means by the first
column when a table has none (`CREATE t (INT) ()`); TLC now asks that query, too.

`BTreeInvariant_proofs` and `BTree_proofs` prove `TypeOK`, `CapacityKept`,
`SiblingsStillAdjacent`, `TreeIsChain`, `IterationCorrect`, `SeparatorsExact` and
`SearchesCorrect`, and `MinFill` and `StatsExact`, for any keys and addresses, trees
of any height and any node sizes from 4 on. The hypothesis `MergedFits` is that the minimum of
inner nodes is not above that of leaves: the code compares leaves with the minimum
of inner nodes, too, and the run `wide_inner_nodes` shows that a merged leaf
overflows without it, so the hypothesis is needed. For the same reason
`MinFillHolds` needs both minima to be equal.
`NULLAssumption` says that `NULL` is no key, node, call or result.

None of the properties is inductive, not even the types: a frame names a node only
as long as nobody frees it, and a counter stays a natural number only if there are
as many pairs as it says. `Phase` is what is true besides. It has seven cases: at
rest; an insert on the way down, on the way up, and on the way up with a node that
was split off; an erase on the way down, on the way up, and on the way up with a
child that a merge has emptied. Each says how far the heap is from a tree
(`Shape`: `Tree`, with the nodes that hang on nothing yet, `NodesHold`, with the node
that is empty, and `Linked`, the chain of leaves), how full the nodes are (`Filled`),
that the frames are a path from the root (`Path`, `Paused`), what the frames of an
erase know of their neighbours (`Surrounded`) and how many pairs the counter owes
(`Counted`). `Tree` is the heart: the nodes of a level have an order, `R[n]` being the
nodes right of `n`; each node but the root hangs on one parent, once; and the
children of a node come in that order, before those of any node to the right of it.
`R` is not in the code, so the invariant says that there is one, and every step that
changes the heap gives the next one. It is needed because the neighbour of a node need
not have the same parent: that a cousin is adjacent on its level, and in the chain
(`CousinNext`, `NextIsNext`), follows from the order alone.

`BTreeLemmas` has what these trees do under the few changes all operations are made
of, without a heap: a node is added next to another, gets a parent, loses it, is
dropped, and two neighbours exchange children. For each action there are lemmas that
give the new heap field by field, those that say which of these changes it is, and
one, named for the action, that puts the new phase together (`InsertSplitInnerKeeps`,
`EraseAboveKeeps`, ...). The merges and shifts of inner nodes, with the parent's key
between the two halves, are the longest. `clear` needs an induction over the levels:
the nodes `clear_recursive` visits are all there are (`SubtreeIs`), so nothing
leaks.

The chain needs one part more, `EndsKept`: the leaf `m_headleaf` names has none
before it and the one `m_tailleaf` names none after it, and neither is the leaf a
merge has emptied. Every action keeps it (`EndsNext`); what each does to the links is
in the lemmas on its heap already (`SameLinks`, `LinksMerged`). Between two calls the
rest is about sequences. The leaves below a node, from left to right, are in the order
`R` (`LeafListsAre`, an induction over the levels: what is below one child is left of
what is below the next). A list in that order whose neighbours are linked is the one
that following the links from its first element gives (`ChainFrom`, an induction from
its end). So the two are equal (`ChainIs`), which is `TreeIsChain`. With the offsets of
the leaves in the joined sequence of pairs (`FlattenOffsets`) the counter of pairs is
the length of that sequence (`PairsAlong`), and a step of an iterator leads from pair
`i` to pair `i + 1` and back (`AdvanceIs`), also over the end of a leaf since none is
empty.

The order of the keys is a second invariant on top of the first, `KeysKept`. It gives
every node a least and a greatest key, `lo[n]` and `hi[n]`. The pairs of a leaf are a
`Run` from one to the other; the children of an inner node are a `Row`: the key of
slot `i` is `hi` of child `i` and not above `lo` of child `i + 1` (`Keyed`). `hi` is
exact, `lo` is a bound. Inside a call at most one node does not agree with its parent,
and `KeysKept` says which: on the way down of an insert the node it is at, whose bounds
the nodes above have taken to include the new key already (`DownOrder`); after a split
the left half, which the parent takes for both halves (`SplitOrder`); on the way up of
an erase the child that lost its largest key, as long as the new one is reported by
`btree_update_lastkey` (`OpenOrder`); and the node a merge has filled, next to the one
it has emptied (`MergedOrder`). The report travels up only while the child is the last
of its parent: `KeysKept` says so, too, and without it a stale key would stay behind.
Each action has a lemma that takes the step the shape is known to take (`LeafSplit`,
`InnerSplit`, the merges and the shifts) and gives the new bounds.

`SeparatorsExact` follows between two calls: the last leaf below a child ends with
`hi` of that child (`SeparatorIs`), and along the chain one leaf begins where the
other has ended (`LeavesInOrder`). `SearchesCorrect` needs that a descent splits the
chain: each leaf left of the one it reaches ends before the place searched for, and
that one ends beyond it unless it is the last (`SplitsAt`, `LowerEnds`, `UpperEnds`). Then the slot the binary search
gives is the number of pairs below the key, and the loop of `count`, which crosses from
leaf to leaf, counts from there to the first pair above the key (`CountWalks`).

Model-checked only, and why:

- `CallsReturn` of the tree and `EveryHandlerRuns` of the server: liveness under
  fairness is out of the prover's reach.
- `WordsAreTheInput` compares two recursive definitions over the input, an induction
  over data.
- `IterErasesItsPair` and the refinement `MultimapSpec`: they speak of what one step
  does to all pairs, and the invariant proved says where the pairs are in each state;
  how the sequence of pairs changes in a step is not proved (see the plan).
- `ObjectsApart`: two trees in one heap would need the invariant for both.

## Findings

What the violated runs show, and what was met on the way.

- `torn_page`: a death between the stores of `nPages` and of the page's id
  (`MemoryPage.h` 404, 410) leaves a table that no later process can open: the
  assertion of `DeleteFromCache` (569) fails.
- `second_create`: creating a table that exists aborts in `InitHeader` (294).
- `wide_inner_nodes`: with leaves smaller than inner nodes `merge_leaves` puts more
  pairs into a leaf than it has room for, since `isunderflow` compares leaves with
  the minimum of inner nodes (`btree.h` 177).
- `keys_read_back`: `SetKey` stores a key where the data is (`MemoryPage.cpp` 72),
  `GetKey` reads it elsewhere (54): after one insert an iterator gives a key nobody
  inserted.
- `get_answers`, twice. All keys of known types are equal: `operator<` compares the
  left operand with itself and `operator<=` returns true (`data_structures.h` 391,
  405), so a GET with any key finds the pair inserted last. And every text of a
  query goes to column 0 (`database.cpp` 65-73), so the last text is in the first
  column and the other columns hold what was in the memory before. What
  `LastInsertFound` and `GetFindsLastInsert` say holds in spite of this: they speak
  of the key inserted last, and of one text of data.

Two more, which no run of their own shows:

- An INSERT into a table without a page that finds no descriptor leaves the page
  counted and the file without it; the table cannot be opened again
  (`MemoryPage.h` 401-407; `PageFails`, and the state `broken`).
- `database.cpp` 6 names LONGLONG as a type; `GetType` (`data_structures.h` 193-217)
  knows INT64 instead, and a column of a type it does not know has no bytes.

## Plan

What is left, the most important first:

1. More proofs about `BTree`, with the invariants there are: the refinement of
   `OrderedMultimap`, from what each step does to the sequence of pairs.
2. An abstract specification of the server (a session per accepted client,
   which serves one request at a time until it fails), implemented by
   `CoroServer`.
3. `BTree` with node sizes as state: `setNodeSize` on a tree with nodes, the
   copy constructor and the range constructor.

## Not modelled

- The code of `persistentbtree.h` that splits, merges and shifts pages and
  descends to erase (912-975, 1023-1962): no execution reaches it, as said under
  PersistentTree. It is about half of that file.
- A table whose creation was interrupted, as the tree and the queries see it: what
  is in its files is in `MemoryPageManager`.
- `to_upper`: the queries asked are in upper case.
- `setNodeSize` of the persistent tree, which makes 0 of its argument and is
  called before a table is opened, and its range constructor.
- `setNodeSize` on a tree in memory that has nodes, its copy constructor and its
  range constructor.
- Offsets beyond 2 GiB, the order in which the kernel writes pages to disk.
- The lifetime of objects the server shares between threads (handlers, sockets,
  buffers), the functions of the server nothing calls (`readSome`, `read`,
  `close`), the text of requests and replies.
- `main.cpp`: one query, and calls that are commented out.
- `btreeint.h`: a header of SQLite that no file includes. It is 9864 of the
  repository's 16023 lines; together with the unreachable code above it is why
  the models, which cover most of the lines that run, stand for less than a
  third of all lines.
