---------------------------- MODULE BTreeObjects ----------------------------
(***************************************************************************)
(* Two trees in one heap: assignment and swap of btree.h.  BTree's         *)
(* variables are the object the calls are made on, other is the second     *)
(* one; swap exchanges them, so each plays both parts.  Both allocate from *)
(* the same addresses, so a copy that shares a node with its original, or  *)
(* leaks one, is a state of the model.                                     *)
(***************************************************************************)
EXTENDS MC_BTree

\* Addresses for two trees.
Addresses == 1 .. 40

VARIABLES other,          \* the members of the second object
          kept            \* history: the pairs other must hold

objVars == <<mcVars, other, kept>>

\* The members of the object the calls are made on.
Members == [root |-> m_root, head |-> m_headleaf, tail |-> m_tailleaf, stats |-> m_stats]

EmptyStats == [itemcount |-> 0, leaves |-> 0, innernodes |-> 0]

BecomeMembers(o) ==
  /\ m_root' = o.root /\ m_headleaf' = o.head /\ m_tailleaf' = o.tail /\ m_stats' = o.stats

-----------------------------------------------------------------------------
(* Nodes of a tree given by its root                                       *)

\* A node and those below it, in the order of copy_recursive.
Preorder(root) ==
  LET nodes[n \in NodeId] ==
        <<n>> \o (IF isleafnode(heap, n) THEN <<>>
                  ELSE FlattenSeq([i \in DOMAIN heap[n].child |-> nodes[heap[n].child[i]]]))
  IN IF root = NULL THEN <<>> ELSE nodes[root]

NodesOf(root) == ToSet(Preorder(root))

\* clear() of an object.
Freed(root) ==
  LET nodes == NodesOf(root) IN [n \in NodeId |-> IF n \in nodes THEN NULL ELSE heap[n]]

\* The addresses for the nodes of a tree, in the order they are allocated in.
CopyOf(H, order) ==
  LET free == NodeId \ Allocated(H)
      Rank(a) == Cardinality({b \in free : b <= a})
  IN [n \in ToSet(order) |-> CHOOSE a \in free :
                            Rank(a) \in DOMAIN order /\ order[Rank(a)] = n]

CopiedNodeShallow(copy, leaves, n) == heap[n]      \* mutant: the pointers are copied

\* copy_recursive: the leaves are chained in the order they are reached in,
\* each linked with the leaf that was m_tailleaf until then.
CopiedNode(copy, leaves, n) ==
  IF ~isleafnode(heap, n)
  THEN [heap[n] EXCEPT !.child = [i \in DOMAIN @ |-> copy[@[i]]]]
  ELSE LET at == CHOOSE i \in DOMAIN leaves : leaves[i] = n
       IN [heap[n] EXCEPT !.prev = IF at = 1 THEN NULL ELSE copy[leaves[at - 1]],
                          !.next = IF at = Len(leaves) THEN NULL ELSE copy[leaves[at + 1]]]

\* What copying the tree of source into an object whose own nodes were freed
\* leaves in the heap H and in the object's pointers.
CopyTree(H, source) ==
  LET order  == Preorder(source)
      copy   == CopyOf(H, order)
      leaves == SelectSeq(order, LAMBDA n : isleafnode(heap, n))
      from   == [a \in {copy[n] : n \in ToSet(order)} |-> CHOOSE n \in ToSet(order) : copy[n] = a]
  IN [heap |-> [a \in NodeId |-> IF a \in DOMAIN from THEN CopiedNode(copy, leaves, from[a])
                                                      ELSE H[a]],
      root |-> copy[source], head |-> copy[Head(leaves)], tail |-> copy[Last(leaves)]]

Room(H, source) == Cardinality(NodesOf(source)) <= Cardinality(NodeId \ Allocated(H))

-----------------------------------------------------------------------------
(* The operations on two objects                                           *)

\* operator=: the object is cleared, then becomes a copy of other; other's
\* counters replace those the allocations counted.
Assign ==
  LET H == Freed(m_root)
  IN /\ Idle
     /\ IF other.stats.itemcount = 0
          THEN /\ heap' = H
               /\ BecomeMembers([root |-> NULL, head |-> NULL, tail |-> NULL,
                                   stats |-> EmptyStats])
          ELSE /\ Room(H, other.root)
               /\ LET new == CopyTree(H, other.root)
                  IN /\ heap' = new.heap
                     /\ BecomeMembers([root |-> new.root, head |-> new.head,
                                       tail |-> new.tail, stats |-> other.stats])
     /\ UNCHANGED <<callVars, other, kept>>

\* swap exchanges all members; the nodes stay where they are.
Swap ==
  /\ Idle
  /\ other' = Members
  /\ kept' = Items
  /\ BecomeMembers(other)
  /\ UNCHANGED <<heap, callVars>>

-----------------------------------------------------------------------------
ObjectsInit ==
  /\ MCInit
  /\ other = [Members EXCEPT !.root = NULL]
  /\ kept = <<>>

\* The calls of BTree; an iterator that is erased at is one of this object.
TreeCalls ==
  /\ Scripted \/ Free \/ Running
  /\ Idle /\ op' # NULL /\ op'.kind = "erase_iter" => op'.leaf \in NodesOf(m_root)
  /\ UNCHANGED <<other, kept>>

Spend == budget > 0 /\ budget' = budget - 1 /\ UNCHANGED script

ObjectsNext == TreeCalls \/ (Assign /\ Spend) \/ (Swap /\ Spend)
ObjectsSpec == ObjectsInit /\ [][ObjectsNext]_objVars

-----------------------------------------------------------------------------
\* What an object with this root sees of the heap.
Own(root) ==
  LET nodes == NodesOf(root) IN [n \in NodeId |-> IF n \in nodes THEN heap[n] ELSE NULL]
This == INSTANCE BTreeProperties
          WITH heap <- Own(m_root)
That == INSTANCE BTreeProperties
          WITH heap <- Own(other.root),
               m_root <- other.root, m_headleaf <- other.head, m_tailleaf <- other.tail,
               m_stats <- other.stats, op <- NULL, stack <- <<>>, ret <- NULL

\* Between two calls the two objects are whole trees of their own: no node is
\* in both and none is in neither, each is well formed in its own nodes with
\* exact counters, and the one no call was made on still holds the pairs it
\* held; so a copy shares nothing with its original, whatever is inserted,
\* erased or cleared in either of them, and destroying both frees each node
\* once.  Inside a call no node of either holds more than it has room for, and
\* an erase finds the neighbours it remembers, also in trees of three levels.
ObjectsApart ==
  /\ CapacityKept
  /\ SiblingsStillAdjacent
  /\ Idle =>
       /\ NodesOf(m_root) \cap NodesOf(other.root) = {}
       /\ NodesOf(m_root) \cup NodesOf(other.root) = Allocated(heap)
       /\ This!WellFormed
       /\ That!WellFormed
       /\ That!Items = kept
=============================================================================
