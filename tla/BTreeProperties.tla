-------------------------- MODULE BTreeProperties --------------------------
(***************************************************************************)
(* What BTree must satisfy.                                                *)
(***************************************************************************)
EXTENDS BTree

\* The leaves from m_headleaf on, and the pairs an iteration over them sees.
Chain ==
  LET leaves == {n \in Allocated(heap) : isleafnode(heap, n)}
      \* at most r[1] of them, from r[2] on
      from[r \in (0 .. Cardinality(NodeId)) \X (NodeId \cup {NULL})] ==
        IF r[1] = 0 \/ r[2] \notin leaves THEN <<>>
        ELSE <<r[2]>> \o from[<<r[1] - 1, heap[r[2]].next>>]
  IN from[<<Cardinality(NodeId), m_headleaf>>]

Items == LET chain == Chain IN FlattenSeq([i \in DOMAIN chain |-> heap[chain[i]].slots])

\* The leaves below a node, from left to right.
LeavesBelow(node) ==
  LET leaves[n \in Allocated(heap)] ==
        IF isleafnode(heap, n) THEN <<n>>
        ELSE FlattenSeq([i \in DOMAIN heap[n].child |-> leaves[heap[n].child[i]]])
  IN leaves[node]

Has(items, key) == \E i \in DOMAIN items : items[i].key = key
Below(items, key) == Cardinality({i \in DOMAIN items : items[i].key < key})
UpTo(items, key) == Cardinality({i \in DOMAIN items : items[i].key <= key})

-----------------------------------------------------------------------------
\* Between two calls the tree and the leaf chain hold the same leaves in the
\* same order, the chain is linked both ways and ends at m_tailleaf, all leaves
\* are at the same depth, and every node that was allocated and not freed is in
\* the tree exactly once: splits and merges lose, repeat and leak no node.
TreeIsChain ==
  LET chain == Chain
      tree  == Subtree
  IN Idle =>
    /\ tree = Allocated(heap)
    /\ m_root = NULL => m_headleaf = NULL /\ m_tailleaf = NULL
    /\ m_root # NULL =>
         /\ chain = LeavesBelow(m_root)
         /\ m_tailleaf = Last(chain)
         /\ \A i \in DOMAIN chain :
              heap[chain[i]].prev = IF i = 1 THEN NULL ELSE chain[i - 1]
         /\ \A n \in tree : \A c \in Children(heap, n) :
              heap[n].level = heap[c].level + 1
         /\ \A n \in tree : Cardinality(Children(heap, n)) =
              IF isleafnode(heap, n) THEN 0 ELSE Len(heap[n].child)

\* Between two calls the pairs are in key order and the key in slot i of an
\* inner node is the largest key below child i: not just a bound, so that the
\* searches may take "equal" to mean "in this child".
SeparatorsExact ==
  Idle =>
    /\ LET items == Items
       IN \A i \in 1 .. Len(items) - 1 : items[i].key <= items[i + 1].key
    /\ \A n \in Subtree : ~isleafnode(heap, n) =>
         \A i \in DOMAIN heap[n].keys :
           heap[n].keys[i] = LastKey(heap, Last(LeavesBelow(heap[n].child[i])))

\* btree.h:80-90: a leaf other than the root holds at least minleafslots pairs
\* and an inner node at least mininnerslots keys between two calls; a root
\* that is an inner node has two children at least.
MinFill ==
  Idle =>
    \A n \in Subtree :
      slotuse(heap, n) >= IF n = m_root THEN 1
                          ELSE IF isleafnode(heap, n) THEN minleafslots
                          ELSE mininnerslots

\* In no state, also inside an erase, a node holds more than the arrays
\* allocated for it (the asserts of merge_leaves, merge_inner and the shifts),
\* and an inner node in the tree has one child more than keys.
CapacityKept ==
  \A n \in Allocated(heap) :
    /\ slotuse(heap, n) <= IF isleafnode(heap, n) THEN leafslotmax ELSE innerslotmax
    /\ ~isleafnode(heap, n) => Len(heap[n].child) \in {slotuse(heap, n) + 1, 0}

\* The neighbours erase_one_descend computed on the way down are still what it
\* takes them for when it uses them on the way up, after the levels below
\* have merged and freed nodes: the frames name live nodes, next to each other
\* under the parent they are said to hang on, and adjacent in the chain.
SiblingsStillAdjacent ==
  Going(EraseKinds) =>
    \A i \in DOMAIN stack :
      LET f == stack[i]
          live == Allocated(heap)
      IN /\ f.curr \in live
         /\ {f.left, f.right, f.parent, f.leftparent, f.rightparent} \subseteq live \cup {NULL}
         /\ f.parent # NULL =>
              /\ childid(heap, f.parent, f.parentslot) = f.curr
              /\ f.leftparent = f.parent => childid(heap, f.parent, f.parentslot - 1) = f.left
              /\ f.rightparent = f.parent => childid(heap, f.parent, f.parentslot + 1) = f.right
              /\ f.leftparent = f.parent \/ f.rightparent = f.parent
         /\ f.left # NULL => heap[f.left].level = heap[f.curr].level
         /\ f.right # NULL => heap[f.right].level = heap[f.curr].level
         /\ isleafnode(heap, f.curr) /\ f.left # NULL /\ f.leftparent = f.parent =>
              heap[f.left].next = f.curr
         /\ isleafnode(heap, f.curr) /\ f.right # NULL =>
              heap[f.curr].next = f.right

\* size() and the node counters of m_stats are exact between two calls.
StatsExact ==
  Idle =>
    m_stats = [itemcount  |-> Len(Items),
               leaves     |-> Cardinality({n \in Allocated(heap) : isleafnode(heap, n)}),
               innernodes |-> Cardinality({n \in Allocated(heap) : ~isleafnode(heap, n)})]

\* All of these at once: what a call finds and leaves, on larger trees and with
\* equal keys.
WellFormed ==
  TreeIsChain /\ SeparatorsExact /\ MinFill /\ CapacityKept /\ SiblingsStillAdjacent
  /\ StatsExact

\* Searching down the tree finds what a scan of all pairs would: exists and
\* count agree with the pairs, also for keys spread over several leaves, and
\* lower_bound and upper_bound are the positions of the first pair not below
\* and above the key, on a slot that holds a pair unless it is the end.
Offset(p) ==
  LET chain == Chain
      before == 1 .. SelectInSeq(chain, LAMBDA n : n = p.leaf) - 1
  IN p.slot + Len(FlattenSeq([i \in before |-> heap[chain[i]].slots]))
OnPair(p) == p.slot < slotuse(heap, p.leaf) \/ p.leaf = m_tailleaf
SearchesCorrect ==
  LET items == Items
  IN Idle =>
    \A key \in Key :
      LET low  == lower_bound(key)
          high == upper_bound(key)
      IN /\ exists(key) <=> Has(items, key)
         /\ count(key) = UpTo(items, key) - Below(items, key)
         /\ m_root # NULL =>
              /\ Offset(low) = Below(items, key) /\ OnPair(low)
              /\ Offset(high) = UpTo(items, key) /\ OnPair(high)

\* The tree implements the sorted multimap: every call, recursive and
\* rebalancing as it is, changes the pairs in one step, exactly once for each
\* pair it is to insert or erase, and erase_one and erase(key) report "not
\* found" only when no pair with the key is left; the steps that split, merge
\* and shift change no pair.  The call is one that Next can start.
PossibleCalls ==
  [kind : {"insert"}, key : Key, data : Data] \cup [kind : KeyKinds, key : Key]
  \cup [kind : {"erase_iter"}, key : Key, leaf : NodeId, slot : 0 .. leafslotmax - 1]
Effect ==
  IF op = NULL \/ ret = NULL THEN "none"
  ELSE IF op.kind = "insert" THEN "hit"
  ELSE IF ~ret.notFound THEN "hit"
  ELSE IF op.kind = "erase_iter" THEN "none"
  ELSE "miss"
Multimap == INSTANCE OrderedMultimap
              WITH items <- Items, call <- op, effect <- Effect,
                   Calls <- PossibleCalls, NoCall <- NULL
MultimapSpec == Multimap!Spec

\* erase(iterator) erases the very pair the iterator is on, also among equal
\* keys spread over several leaves and subtrees.
IterErasesItsPair ==
  [][EraseHit /\ op.kind = "erase_iter" => Items' = RemoveAt(Items, Offset(op) + 1)]_vars

\* Between two calls, ++ from Begin visits every pair once, in order, and ends
\* at End, and -- takes each of these steps back.
Walk ==
  LET at[i \in Nat] == IF i = 0 THEN Begin ELSE Advance(at[i - 1])
  IN [i \in 1 .. m_stats.itemcount + 1 |-> at[i - 1]]
IterationCorrect ==
  Idle /\ m_root # NULL =>
    LET walk == Walk
    IN /\ \A i \in 1 .. m_stats.itemcount : Offset(walk[i]) = i - 1
       /\ Last(walk) = End
       /\ \A i \in 1 .. m_stats.itemcount : Retreat(walk[i + 1]) = walk[i]

\* Every call returns.
CallsReturn == (op # NULL) ~> (op = NULL)
=============================================================================
