--------------------------- MODULE PageAllocator ---------------------------
(***************************************************************************)
(* What MemoryPageManager promises to the tree that stores its nodes in    *)
(* pages: a pool of page ids in which a page that was handed out is not    *)
(* handed out again before it is freed, whatever crashes in between.       *)
(***************************************************************************)
CONSTANT PageId      \* ids of the pages the file can hold

VARIABLES owned,     \* pages marked in use in the file
          client     \* pages a caller of InsertPage got and did not free

allocVars == <<owned, client>>

Init == owned = {} /\ client = {}

\* A free page is marked in use and handed out in one step.
Alloc(n) ==
  /\ n \in PageId \ owned
  /\ owned' = owned \cup {n}
  /\ client' = client \cup {n}

\* A free page is marked in use; the caller does not have it yet (and never
\* gets it if the process dies now).
Reserve(n) ==
  /\ n \in PageId \ owned
  /\ owned' = owned \cup {n}
  /\ UNCHANGED client

\* The reserved page reaches the caller.
HandOver(n) ==
  /\ n \in owned \ client
  /\ client' = client \cup {n}
  /\ UNCHANGED owned

Free(n) ==
  /\ n \in owned
  /\ owned' = owned \ {n}
  /\ client' = client \ {n}

Next == \E n \in PageId : Alloc(n) \/ Reserve(n) \/ HandOver(n) \/ Free(n)

Spec == Init /\ [][Next]_allocVars
=============================================================================
