------------------------------- MODULE BTree -------------------------------
(***************************************************************************)
(* The in-memory B+ tree of btree.h: insert, erase_one, erase(key), clear  *)
(* and the searches.                                                       *)
(*                                                                         *)
(* The recursive functions are modelled by an explicit stack: one action   *)
(* descends one level, one does the work on the leaf, one does what a      *)
(* level of inner nodes does after the call below it returned.  So every   *)
(* state a recursive call can see is a state of the model.                 *)
(*                                                                         *)
(* Slot numbers are those of the code, counted from 0: slot s of a node is *)
(* element s + 1 of a sequence, and slotuse is the length of the sequence. *)
(* Key and data arrays of a leaf are moved together everywhere in the code *)
(* and are one sequence of pairs here.                                     *)
(***************************************************************************)
EXTENDS Integers, FiniteSets, SequencesExt

CONSTANTS Key,            \* a set of integers
          Data,
          NodeId,         \* bound: addresses the allocator can return, integers
          NULL,
          leafslotmax,    \* setNodeSize
          innerslotmax

ASSUME KeyAssumption      == Key \subseteq Int
ASSUME NodeAssumption     == NodeId \subseteq Nat /\ IsFiniteSet(NodeId) /\ NULL \notin NodeId
ASSUME NodeSizeAssumption == leafslotmax \in Nat \ 0 .. 3 /\ innerslotmax \in Nat \ 0 .. 3

minleafslots  == leafslotmax \div 2
mininnerslots == innerslotmax \div 2

VARIABLES heap,           \* what every address holds: NULL when it is not allocated
          m_root, m_headleaf, m_tailleaf,
          m_stats,        \* itemcount, leaves, innernodes
          op,             \* the call in progress: [kind, key, data], or NULL
          stack,          \* frames of insert_descend / erase_one_descend, innermost last
          ret             \* what the last call returned, NULL while calls go down

treeVars == <<heap, m_root, m_headleaf, m_tailleaf, m_stats>>
callVars == <<op, stack, ret>>
vars     == <<treeVars, callVars>>

Pair == [key : Key, data : Data]
Leaf == [level : {0}, slots : Seq(Pair), prev : NodeId \cup {NULL}, next : NodeId \cup {NULL}]
Inner == [level : Nat \ {0}, keys : Seq(Key), child : Seq(NodeId)]

InsertKinds == {"insert"}
KeyKinds    == {"erase_one", "erase"}
EraseKinds  == KeyKinds \cup {"erase_iter"}

InsertFrame == [curr : NodeId, slot : Nat]
EraseFrame ==
  [curr : NodeId, slot : Nat, left : NodeId \cup {NULL}, right : NodeId \cup {NULL},
   leftparent : NodeId \cup {NULL}, rightparent : NodeId \cup {NULL},
   parent : NodeId \cup {NULL}, parentslot : Nat]
InsertResult == [newchild : NodeId \cup {NULL}, newkey : Key \cup {NULL}]
EraseResult == [notFound : BOOLEAN, fixmerge : BOOLEAN, lastkey : Key \cup {NULL}]
Call == [kind : InsertKinds, key : Key, data : Data]
        \cup [kind : KeyKinds, key : Key]
        \cup [kind : {"erase_iter"}, key : Key, leaf : NodeId, slot : Nat]

ASSUME NULLAssumption ==
  /\ NULL \notin Key /\ NULL \notin Leaf \cup Inner
  /\ NULL \notin Call \cup InsertResult \cup EraseResult

TypeOK ==
  /\ heap \in [NodeId -> Leaf \cup Inner \cup {NULL}]
  /\ {m_root, m_headleaf, m_tailleaf} \subseteq NodeId \cup {NULL}
  /\ m_stats \in [itemcount : Nat, leaves : Nat, innernodes : Nat]
  /\ op \in Call \cup {NULL}
  /\ stack \in Seq(InsertFrame) \cup Seq(EraseFrame)
  /\ ret \in InsertResult \cup EraseResult \cup {NULL}

-----------------------------------------------------------------------------
(* Nodes                                                                   *)

isleafnode(H, n) == H[n].level = 0

SlotKeys(H, n) == IF isleafnode(H, n) THEN [i \in DOMAIN H[n].slots |-> H[n].slots[i].key]
                                      ELSE H[n].keys
slotuse(H, n) == Len(IF isleafnode(H, n) THEN H[n].slots ELSE H[n].keys)
slotkey(H, n, slot) == SlotKeys(H, n)[slot + 1]
childid(H, n, slot) == H[n].child[slot + 1]
LastKey(H, n) == slotkey(H, n, slotuse(H, n) - 1)

isfull(H, n) == slotuse(H, n) = IF isleafnode(H, n) THEN leafslotmax ELSE innerslotmax
isfewOrMore(H, n) ==                      \* mutant: one more than the minimum
  slotuse(H, n) <= 1 + IF isleafnode(H, n) THEN minleafslots ELSE mininnerslots
isfew(H, n) == slotuse(H, n) <= IF isleafnode(H, n) THEN minleafslots ELSE mininnerslots

\* The code compares leaves, too, with mininnerslots.
isunderflow(H, n) == slotuse(H, n) < mininnerslots

\* The binary searches: the first slot with a key >= key, or > key.
BinarySearch(keys, GoLeft(_)) ==
  LET search[r \in (0 .. Len(keys)) \X (0 .. Len(keys))] ==
        LET lo  == r[1]
            hi  == r[2]
            mid == (lo + hi) \div 2
        IN IF lo >= hi THEN lo
           ELSE IF GoLeft(keys[mid + 1]) THEN search[<<lo, mid>>] ELSE search[<<mid + 1, hi>>]
  IN search[<<0, Len(keys)>>]

find_lower(H, n, key) == BinarySearch(SlotKeys(H, n), LAMBDA k : key <= k)
find_upper(H, n, key) == BinarySearch(SlotKeys(H, n), LAMBDA k : key < k)

Allocated(H) == {n \in NodeId : H[n] # NULL}

\* new: some address that is not in use (the smallest one).
FreshNode(H) == Min(NodeId \ Allocated(H))
CanAllocate(H) == NodeId \ Allocated(H) # {}

\* A write to a slot of n; one past slotuse leaves nothing to be read.
SetKey(H, n, slot, key) ==
  IF slot < slotuse(H, n) THEN [H EXCEPT ![n].keys[slot + 1] = key] ELSE H

Init ==
  /\ heap = [n \in NodeId |-> NULL]
  /\ m_root = NULL /\ m_headleaf = NULL /\ m_tailleaf = NULL
  /\ m_stats = [itemcount |-> 0, leaves |-> 0, innernodes |-> 0]
  /\ op = NULL /\ stack = <<>> /\ ret = NULL

Idle == op = NULL
Going(kinds) == op # NULL /\ op.kind \in kinds
Top == Last(stack)
Calling(kinds)   == Going(kinds) /\ stack # <<>> /\ ret = NULL
Returning(kinds) == Going(kinds) /\ stack # <<>> /\ ret # NULL
Returned(kinds)  == Going(kinds) /\ stack = <<>>

-----------------------------------------------------------------------------
(* insert                                                                  *)

\* insert_start up to the call of insert_descend.
InsertStart(key, data) ==
  /\ Idle
  /\ op' = [kind |-> "insert", key |-> key, data |-> data]
  /\ IF m_root # NULL
       THEN UNCHANGED treeVars
       ELSE /\ CanAllocate(heap)
            /\ LET n == FreshNode(heap)
               IN /\ heap' = [heap EXCEPT ![n] =
                       [level |-> 0, slots |-> <<>>, prev |-> NULL, next |-> NULL]]
                  /\ m_root' = n /\ m_headleaf' = n /\ m_tailleaf' = n
            /\ m_stats' = [m_stats EXCEPT !.leaves = @ + 1]
  /\ stack' = <<[curr |-> m_root', slot |-> 0]>>
  /\ UNCHANGED ret

\* insert_descend on an inner node, down to the recursive call.
InsertDescend ==
  /\ Calling(InsertKinds)
  /\ ~isleafnode(heap, Top.curr)
  /\ LET slot == find_lower(heap, Top.curr, op.key)
     IN stack' = Append(Front(stack), [Top EXCEPT !.slot = slot])
                   \o <<[curr |-> childid(heap, Top.curr, slot), slot |-> 0]>>
  /\ UNCHANGED <<treeVars, op, ret>>

NewPair == [key |-> op.key, data |-> op.data]

\* insert_descend on a leaf that has room.
InsertIntoLeaf ==
  /\ Calling(InsertKinds)
  /\ isleafnode(heap, Top.curr) /\ ~isfull(heap, Top.curr)
  /\ LET slot == find_lower(heap, Top.curr, op.key)
     IN heap' = [heap EXCEPT ![Top.curr].slots = InsertAt(@, slot + 1, NewPair)]
  /\ ret' = [newchild |-> NULL, newkey |-> NULL]
  /\ stack' = Front(stack)
  /\ UNCHANGED <<m_root, m_headleaf, m_tailleaf, m_stats, op>>

\* insert_descend on a full leaf: split_leaf_node, then the pair goes into the
\* half its slot belongs to.  The split key is the last key of the left half.
InsertSplitLeaf ==
  /\ Calling(InsertKinds)
  /\ isleafnode(heap, Top.curr) /\ isfull(heap, Top.curr)
  /\ CanAllocate(heap)
  /\ LET leaf == Top.curr
         new  == FreshNode(heap)
         old  == heap[leaf]
         slot == find_lower(heap, leaf, op.key)
         mid  == slotuse(heap, leaf) \div 2
         low  == SubSeq(old.slots, 1, mid)
         high == SubSeq(old.slots, mid + 1, Len(old.slots))
         left  == IF slot < mid THEN InsertAt(low, slot + 1, NewPair) ELSE low
         right == IF slot < mid THEN high ELSE InsertAt(high, slot - mid + 1, NewPair)
         split == [heap EXCEPT
                    ![leaf] = [old EXCEPT !.slots = left, !.next = new],
                    ![new]  = [level |-> 0, slots |-> right, prev |-> leaf, next |-> old.next]]
     IN /\ IF old.next = NULL
             THEN heap' = split /\ m_tailleaf' = new
             ELSE heap' = [split EXCEPT ![old.next].prev = new] /\ UNCHANGED m_tailleaf
        /\ ret' = [newchild |-> new, newkey |-> Last(left).key]
  /\ m_stats' = [m_stats EXCEPT !.leaves = @ + 1]
  /\ stack' = Front(stack)
  /\ UNCHANGED <<m_root, m_headleaf, op>>

\* The call below split nothing.
InsertPass ==
  /\ Returning(InsertKinds)
  /\ ret.newchild = NULL
  /\ stack' = Front(stack)
  /\ UNCHANGED <<treeVars, op, ret>>

\* The call below split, and the inner node has room for the new child.
InsertIntoInner ==
  /\ Returning(InsertKinds)
  /\ ret.newchild # NULL /\ ~isfull(heap, Top.curr)
  /\ heap' = [heap EXCEPT ![Top.curr].keys  = InsertAt(@, Top.slot + 1, ret.newkey),
                          ![Top.curr].child = InsertAt(@, Top.slot + 2, ret.newchild)]
  /\ ret' = [newchild |-> NULL, newkey |-> NULL]
  /\ stack' = Front(stack)
  /\ UNCHANGED <<m_root, m_headleaf, m_tailleaf, m_stats, op>>

\* Where split_inner_node cuts: the smaller half is the one that will grow.
SplitSlot(use, addslot) ==
  LET mid == use \div 2
  IN IF addslot <= mid /\ mid > use - (mid + 1) THEN mid - 1 ELSE mid

\* The call below split, and the inner node is full: split_inner_node, then
\* the new child goes into a half, or between the two.
InsertSplitInner ==
  /\ Returning(InsertKinds)
  /\ ret.newchild # NULL /\ isfull(heap, Top.curr)
  /\ CanAllocate(heap)
  /\ LET inner == Top.curr
         slot  == Top.slot
         new   == FreshNode(heap)
         old   == heap[inner]
         mid   == SplitSlot(Len(old.keys), slot)
         splitkey == old.keys[mid + 1]
         lkeys  == SubSeq(old.keys, 1, mid)
         lchild == SubSeq(old.child, 1, mid + 1)
         rkeys  == SubSeq(old.keys, mid + 2, Len(old.keys))
         rchild == SubSeq(old.child, mid + 2, Len(old.child))
         Put(lk, lc, rk, rc, key) ==
           /\ heap' = [heap EXCEPT
                        ![inner] = [level |-> old.level, keys |-> lk, child |-> lc],
                        ![new]   = [level |-> old.level, keys |-> rk, child |-> rc]]
           /\ ret' = [newchild |-> new, newkey |-> key]
         between == slot = mid + 1 /\ mid < Len(rkeys)
     IN \/ /\ between
           /\ Put(Append(lkeys, splitkey), Append(lchild, Head(rchild)),
                  rkeys, <<ret.newchild>> \o Tail(rchild), ret.newkey)
        \/ /\ ~between /\ slot >= mid + 1
           /\ Put(lkeys, lchild,
                  InsertAt(rkeys, slot - mid, ret.newkey),
                  InsertAt(rchild, slot - mid + 1, ret.newchild), splitkey)
        \/ /\ slot < mid + 1
           /\ Put(InsertAt(lkeys, slot + 1, ret.newkey),
                  InsertAt(lchild, slot + 2, ret.newchild), rkeys, rchild, splitkey)
  /\ m_stats' = [m_stats EXCEPT !.innernodes = @ + 1]
  /\ stack' = Front(stack)
  /\ UNCHANGED <<m_root, m_headleaf, m_tailleaf, op>>

\* The rest of insert_start: a new root above a root that was split.
InsertFinish ==
  /\ Returned(InsertKinds)
  /\ IF ret.newchild = NULL
       THEN /\ m_stats' = [m_stats EXCEPT !.itemcount = @ + 1]
            /\ UNCHANGED <<heap, m_root>>
       ELSE /\ CanAllocate(heap)
            /\ LET n == FreshNode(heap)
               IN /\ heap' = [heap EXCEPT ![n] =
                       [level |-> heap[m_root].level + 1, keys |-> <<ret.newkey>>,
                        child |-> <<m_root, ret.newchild>>]]
                  /\ m_root' = n
            /\ m_stats' = [m_stats EXCEPT !.itemcount = @ + 1, !.innernodes = @ + 1]
  /\ op' = NULL /\ ret' = NULL
  /\ UNCHANGED <<m_headleaf, m_tailleaf, stack>>

InsertStep ==
  \/ InsertDescend \/ InsertIntoLeaf \/ InsertSplitLeaf
  \/ InsertPass \/ InsertIntoInner \/ InsertSplitInner
  \/ InsertFinish

-----------------------------------------------------------------------------
(* erase_one, erase(key) and erase(iterator)                               *)


RootFrame(root) ==
  [curr |-> root, slot |-> 0, left |-> NULL, right |-> NULL, leftparent |-> NULL,
   rightparent |-> NULL, parent |-> NULL, parentslot |-> 0]

\* erase_one(key), or the first round of erase(key), on a tree with a root;
\* without one they return at once and change nothing.
EraseStart(kind, key) ==
  /\ Idle /\ m_root # NULL
  /\ op' = [kind |-> kind, key |-> key]
  /\ stack' = <<RootFrame(m_root)>>
  /\ UNCHANGED <<treeVars, ret>>

\* erase(iterator), with an iterator on a pair.
EraseIterStart(leaf, slot) ==
  /\ Idle
  /\ leaf \in Allocated(heap) /\ isleafnode(heap, leaf)
  /\ slot \in 0 .. slotuse(heap, leaf) - 1
  /\ op' = [kind |-> "erase_iter", key |-> slotkey(heap, leaf, slot),
            leaf |-> leaf, slot |-> slot]
  /\ stack' = <<RootFrame(m_root)>>
  /\ UNCHANGED <<treeVars, ret>>

\* The nodes left and right of child slot of the node of frame f, which may
\* be children of the neighbours of that node.
LeftNeighbour(H, f, slot) ==
  IF slot > 0 THEN childid(H, f.curr, slot - 1)
  ELSE IF f.left = NULL THEN NULL
  ELSE childid(H, f.left, slotuse(H, f.left) - 1)
RightNeighbourLast(H, f, slot) ==     \* mutant: the far end of the right cousins
  IF slot < slotuse(H, f.curr) THEN childid(H, f.curr, slot + 1)
  ELSE IF f.right = NULL THEN NULL
  ELSE childid(H, f.right, slotuse(H, f.right))
RightNeighbour(H, f, slot) ==
  IF slot < slotuse(H, f.curr) THEN childid(H, f.curr, slot + 1)
  ELSE IF f.right = NULL THEN NULL
  ELSE childid(H, f.right, 0)

\* The recursive call on child slot: the neighbours of the child, and the
\* nodes these hang on.
DescendInto(slot) ==
  LET inner == Top.curr
  IN stack' = Append(Front(stack), [Top EXCEPT !.slot = slot])
                \o <<[curr |-> childid(heap, inner, slot), slot |-> 0,
                      left  |-> LeftNeighbour(heap, Top, slot),
                      right |-> RightNeighbour(heap, Top, slot),
                      leftparent  |-> IF slot = 0 THEN Top.leftparent ELSE inner,
                      rightparent |-> IF slot = slotuse(heap, inner)
                                        THEN Top.rightparent ELSE inner,
                      parent |-> inner, parentslot |-> slot]>>

\* erase_one_descend and erase_iter_descend on an inner node, down to the
\* (first) recursive call.
EraseDescend ==
  /\ Calling(EraseKinds)
  /\ ~isleafnode(heap, Top.curr)
  /\ DescendInto(find_lower(heap, Top.curr, op.key))
  /\ UNCHANGED <<treeVars, op, ret>>

\* Whether the parent of frame f holds a key for the node of f; the key for a
\* last child is further up.
OwnsKeyLast(H, f) ==                  \* mutant: a key for the last child, too
  f.parent # NULL /\ f.parentslot <= slotuse(H, f.parent)
OwnsKey(H, f) == f.parent # NULL /\ f.parentslot < slotuse(H, f.parent)

\* A node that has to be merged or refilled; a root may be small.
NeedsRemedy(H, n) == isunderflow(H, n) /\ ~(n = m_root /\ slotuse(H, n) >= 1)

\* How, from what its neighbours can
\* spare and which of them hang on its own parent.
Remedy(H, f) ==
  LET poorleft  == f.left = NULL \/ isfew(H, f.left)
      poorright == f.right = NULL \/ isfew(H, f.right)
      both == f.left # NULL /\ f.right # NULL
  IN CASE poorleft /\ poorright ->
            IF f.leftparent = f.parent THEN "merge_left" ELSE "merge_right"
       [] both /\ poorleft /\ ~poorright ->
            IF f.rightparent = f.parent THEN "shift_left" ELSE "merge_left"
       [] both /\ ~poorleft /\ poorright ->
            IF f.leftparent = f.parent THEN "shift_right" ELSE "merge_right"
       [] OTHER ->
            IF f.leftparent = f.rightparent
              THEN IF slotuse(H, f.left) <= slotuse(H, f.right)
                     THEN "shift_left" ELSE "shift_right"
              ELSE IF f.leftparent = f.parent THEN "shift_right" ELSE "shift_left"

\* mutant: the copy goes to the start of left instead of its end
merge_leavesFront(H, left, right) ==
  LET next == H[right].next
      G == [H EXCEPT ![left].slots = H[right].slots \o @, ![left].next = next,
                     ![right].slots = <<>>]
  IN IF next = NULL THEN G ELSE [G EXCEPT ![next].prev = left]

\* mutant: the leaf after right keeps its link to right
merge_leavesOneWay(H, left, right) ==
  [H EXCEPT ![left].slots = @ \o H[right].slots, ![left].next = H[right].next,
            ![right].slots = <<>>]

\* merge_leaves: right's pairs go to left, and right leaves the chain.
merge_leaves(H, left, right) ==
  LET next == H[right].next
      G == [H EXCEPT ![left].slots = @ \o H[right].slots, ![left].next = next,
                     ![right].slots = <<>>]
  IN IF next = NULL THEN G ELSE [G EXCEPT ![next].prev = left]

\* merge_inner: the parent's key comes down between left's and right's.
merge_inner(H, left, right, parent, slot) ==
  [H EXCEPT ![left].keys = Append(@, slotkey(H, parent, slot)) \o H[right].keys,
            ![left].child = @ \o H[right].child,
            ![right].keys = <<>>, ![right].child = <<>>]

\* How many slots a shift moves from the fuller to the emptier node.
ShiftNum(H, from, to) == (slotuse(H, from) - slotuse(H, to)) \div 2

shift_left_leaf(H, left, right) ==
  LET n == ShiftNum(H, right, left)
  IN [H EXCEPT ![left].slots = @ \o SubSeq(H[right].slots, 1, n),
               ![right].slots = SubSeq(@, n + 1, Len(@))]

shift_right_leaf(H, left, right, parent, slot) ==
  LET n == ShiftNum(H, left, right)
      keep == slotuse(H, left) - n
      G == [H EXCEPT ![left].slots = SubSeq(@, 1, keep),
                     ![right].slots = SubSeq(H[left].slots, keep + 1, Len(H[left].slots)) \o @]
  IN SetKey(G, parent, slot, LastKey(G, left))

shift_left_inner(H, left, right, parent, slot) ==
  LET n == ShiftNum(H, right, left)
      G == [H EXCEPT ![left].keys = Append(@, slotkey(H, parent, slot))
                                      \o SubSeq(H[right].keys, 1, n - 1),
                     ![left].child = @ \o SubSeq(H[right].child, 1, n),
                     ![right].keys = SubSeq(@, n + 1, Len(@)),
                     ![right].child = SubSeq(@, n + 1, Len(@))]
  IN SetKey(G, parent, slot, slotkey(H, right, n - 1))

shift_right_inner(H, left, right, parent, slot) ==
  LET n == ShiftNum(H, left, right)
      keep == slotuse(H, left) - n
      G == [H EXCEPT ![left].keys = SubSeq(@, 1, keep),
                     ![left].child = SubSeq(@, 1, keep + 1),
                     ![right].keys = Append(SubSeq(H[left].keys, keep + 2, Len(H[left].keys)),
                                            slotkey(H, parent, slot)) \o @,
                     ![right].child = SubSeq(H[left].child, keep + 2, Len(H[left].child)) \o @]
  IN SetKey(G, parent, slot, slotkey(H, left, keep))

Found(fixmerge, lastkey) == [notFound |-> FALSE, fixmerge |-> fixmerge, lastkey |-> lastkey]
NotFound == [notFound |-> TRUE, fixmerge |-> FALSE, lastkey |-> NULL]

EraseReturns(result) == stack' = Front(stack) /\ ret' = result

\* Whether the search for key in a leaf ends on a pair with this key.
InLeaf(H, leaf, key) ==
  LET slot == find_lower(H, leaf, key)
  IN slot < slotuse(H, leaf) /\ slotkey(H, leaf, slot) = key

\* The pair to erase is in the leaf the search led to; and its slot.
OnTarget ==
  IF op.kind = "erase_iter"
    THEN Top.curr = op.leaf /\ op.slot < slotuse(heap, Top.curr)
    ELSE InLeaf(heap, Top.curr, op.key)
TargetSlotFirst == find_lower(heap, Top.curr, op.key)   \* mutant: the first of the equal keys
TargetSlot == IF op.kind = "erase_iter" THEN op.slot ELSE find_lower(heap, Top.curr, op.key)

EraseMiss ==
  /\ Calling(EraseKinds)
  /\ isleafnode(heap, Top.curr)
  /\ ~OnTarget
  /\ EraseReturns(NotFound)
  /\ UNCHANGED <<treeVars, op>>

\* The pair leaves the leaf.  When it was the last one, the key of the leaf is
\* updated in the parent, or reported up.
Removed(leaf, slot) ==
  LET H == [heap EXCEPT ![leaf].slots = RemoveAt(@, slot + 1)]
  IN IF slot = slotuse(H, leaf) /\ slot > 0 /\ OwnsKey(H, Top)
       THEN SetKey(H, Top.parent, Top.parentslot, LastKey(H, leaf)) ELSE H
ReportedKey(H, leaf, slot) ==
  IF slot = slotuse(H, leaf) /\ slot > 0 /\ ~OwnsKey(H, Top) THEN LastKey(H, leaf) ELSE NULL

\* The leaf keeps enough pairs, or it is the root.
LeafKept(H, up) ==
  /\ ~NeedsRemedy(H, Top.curr)
  /\ heap' = H
  /\ EraseReturns(Found(FALSE, up))
  /\ UNCHANGED <<m_root, m_headleaf, m_tailleaf, m_stats>>

\* The last pair of the tree: no node is left.
TreeEmptied(H) ==
  /\ NeedsRemedy(H, Top.curr)
  /\ Top.left = NULL /\ Top.right = NULL
  /\ heap' = [H EXCEPT ![m_root] = NULL]
  /\ m_root' = NULL /\ m_headleaf' = NULL /\ m_tailleaf' = NULL
  /\ m_stats' = [m_stats EXCEPT !.leaves = @ - 1]
  /\ EraseReturns(Found(FALSE, NULL))

\* The leaf merges with a neighbour (the right one of the two is emptied).
LeafMerged(H, up, left, right) ==
  /\ heap' = merge_leaves(H, left, right)
  /\ m_tailleaf' = IF H[right].next = NULL THEN left ELSE m_tailleaf
  /\ EraseReturns(Found(TRUE, up))

\* The leaf underflows: it merges with a neighbour, or takes pairs from one.
LeafBalanced(H, up) ==
  /\ NeedsRemedy(H, Top.curr)
  /\ Top.left # NULL \/ Top.right # NULL
  /\ LET leaf == Top.curr
     IN \/ Remedy(H, Top) = "merge_left" /\ LeafMerged(H, up, Top.left, leaf)
        \/ Remedy(H, Top) = "merge_right" /\ LeafMerged(H, up, leaf, Top.right)
        \/ /\ Remedy(H, Top) = "shift_left"
           /\ LET G == shift_left_leaf(H, leaf, Top.right)
                  here == Top.parentslot < slotuse(G, Top.rightparent)
              IN /\ heap' = SetKey(G, Top.rightparent, Top.parentslot, LastKey(G, leaf))
                 /\ EraseReturns(Found(FALSE, IF here THEN up ELSE LastKey(G, leaf)))
           /\ UNCHANGED m_tailleaf
        \/ /\ Remedy(H, Top) = "shift_right"
           /\ heap' = shift_right_leaf(H, Top.left, leaf, Top.leftparent, Top.parentslot - 1)
           /\ EraseReturns(Found(FALSE, up))
           /\ UNCHANGED m_tailleaf
  /\ UNCHANGED <<m_root, m_headleaf, m_stats>>

EraseHit ==
  /\ Calling(EraseKinds)
  /\ isleafnode(heap, Top.curr)
  /\ OnTarget
  /\ LET slot == TargetSlot
         H  == Removed(Top.curr, slot)
         up == ReportedKey(H, Top.curr, slot)
     IN LeafKept(H, up) \/ TreeEmptied(H) \/ LeafBalanced(H, up)
  /\ UNCHANGED op

\* Above a leaf that did not have the pair, erase_iter_descend goes on to the
\* next child; the iterator's key is read from its leaf again.
NextChildStops == FALSE                                 \* mutant: no further search
NextChild ==
  /\ op.kind = "erase_iter"
  /\ Top.slot < slotuse(heap, Top.curr)
  /\ slotkey(heap, Top.curr, Top.slot) >= slotkey(heap, op.leaf, op.slot)

EraseNextSlot ==
  /\ Returning(EraseKinds)
  /\ ret.notFound /\ NextChild
  /\ DescendInto(Top.slot + 1)
  /\ ret' = NULL
  /\ UNCHANGED <<treeVars, op>>

ErasePass ==
  /\ Returning(EraseKinds)
  /\ ret.notFound /\ ~NextChild
  /\ EraseReturns(ret)
  /\ UNCHANGED <<treeVars, op>>

\* Above a hit, first part: the reported key goes into the parent ...
Updated(H, f) ==
  IF ret.lastkey # NULL /\ OwnsKey(H, f)
    THEN SetKey(H, f.parent, f.parentslot, ret.lastkey) ELSE H
PassedKey(H, f) == IF OwnsKey(H, f) THEN NULL ELSE ret.lastkey

\* ... and a child that a merge has emptied is freed; the key of the merged
\* leaf is read from the leaf again.
EmptySlot(H, f) == IF slotuse(H, childid(H, f.curr, f.slot)) # 0 THEN f.slot + 1 ELSE f.slot
Pruned(H, f) ==
  IF ~ret.fixmerge THEN H
  ELSE LET slot == EmptySlot(H, f)
           gone == childid(H, f.curr, slot)
           G == [H EXCEPT ![f.curr].keys = RemoveAt(@, slot),
                          ![f.curr].child = RemoveAt(@, slot + 1),
                          ![gone] = NULL]
       IN IF G[f.curr].level = 1
            THEN SetKey(G, f.curr, slot - 1, LastKey(G, childid(G, f.curr, slot - 1)))
            ELSE G
StatsPrunedLeaves(H, f, stats) ==     \* mutant: inner nodes counted as leaves
  IF ret.fixmerge THEN [stats EXCEPT !.leaves = @ - 1] ELSE stats
StatsPruned(H, f, stats) ==
  IF ~ret.fixmerge THEN stats
  ELSE IF H[f.curr].level = 1 THEN [stats EXCEPT !.leaves = @ - 1]
       ELSE [stats EXCEPT !.innernodes = @ - 1]

\* The inner node keeps enough keys, or it is the root.
InnerKept(H, up) ==
  /\ ~NeedsRemedy(H, Top.curr)
  /\ heap' = H
  /\ m_stats' = StatsPruned(heap, Top, m_stats)
  /\ EraseReturns(Found(FALSE, up))
  /\ UNCHANGED m_root

\* The root has one child left, which becomes the root.
RootReplaced(H) ==
  /\ NeedsRemedy(H, Top.curr)
  /\ Top.left = NULL /\ Top.right = NULL
  /\ m_root' = childid(H, Top.curr, 0)
  /\ heap' = [H EXCEPT ![Top.curr] = NULL]
  /\ m_stats' = [StatsPruned(heap, Top, m_stats) EXCEPT !.innernodes = @ - 1]
  /\ EraseReturns(Found(FALSE, NULL))

\* The inner node underflows: it merges with a neighbour, or takes children
\* from one.
InnerBalanced(H, up) ==
  /\ NeedsRemedy(H, Top.curr)
  /\ Top.left # NULL \/ Top.right # NULL
  /\ LET inner == Top.curr
         slot == Top.parentslot
     IN \/ /\ Remedy(H, Top) = "merge_left"
           /\ heap' = merge_inner(H, Top.left, inner, Top.leftparent, slot - 1)
           /\ EraseReturns(Found(TRUE, up))
        \/ /\ Remedy(H, Top) = "merge_right"
           /\ heap' = merge_inner(H, inner, Top.right, Top.rightparent, slot)
           /\ EraseReturns(Found(TRUE, up))
        \/ /\ Remedy(H, Top) = "shift_left"
           /\ heap' = shift_left_inner(H, inner, Top.right, Top.rightparent, slot)
           /\ EraseReturns(Found(FALSE, up))
        \/ /\ Remedy(H, Top) = "shift_right"
           /\ heap' = shift_right_inner(H, Top.left, inner, Top.leftparent, slot - 1)
           /\ EraseReturns(Found(FALSE, up))
  /\ m_stats' = StatsPruned(heap, Top, m_stats)
  /\ UNCHANGED m_root

\* What a level of inner nodes does after the call below it erased a pair.
EraseAbove ==
  /\ Returning(EraseKinds)
  /\ ~ret.notFound
  /\ LET H  == Pruned(Updated(heap, Top), Top)
         up == PassedKey(heap, Top)
     IN InnerKept(H, up) \/ RootReplaced(H) \/ InnerBalanced(H, up)
  /\ UNCHANGED <<m_headleaf, m_tailleaf, op>>

\* The loop of erase(key), which calls erase_one until it finds nothing.
AgainForever == op.kind = "erase" /\ m_root # NULL      \* mutant: the result ignored
Again == op.kind = "erase" /\ ~ret.notFound /\ m_root # NULL

\* erase_one returns.
EraseFinish ==
  /\ Returned(EraseKinds)
  /\ m_stats' = IF ret.notFound THEN m_stats ELSE [m_stats EXCEPT !.itemcount = @ - 1]
  /\ ret' = NULL
  /\ IF Again
       THEN stack' = <<RootFrame(m_root)>> /\ UNCHANGED op
       ELSE op' = NULL /\ UNCHANGED stack
  /\ UNCHANGED <<heap, m_root, m_headleaf, m_tailleaf>>

EraseStep ==
  \/ EraseDescend \/ EraseMiss \/ EraseHit
  \/ EraseNextSlot \/ ErasePass \/ EraseAbove
  \/ EraseFinish

-----------------------------------------------------------------------------
(* clear and the searches                                                  *)

Children(H, n) == IF isleafnode(H, n) THEN {} ELSE ToSet(H[n].child)

\* The nodes clear_recursive visits.
Subtree ==
  LET nodes[n \in Allocated(heap)] == {n} \cup UNION {nodes[c] : c \in Children(heap, n)}
  IN IF m_root = NULL THEN {} ELSE nodes[m_root]

Clear ==
  /\ Idle /\ m_root # NULL
  /\ heap' = [n \in NodeId |-> IF n \in Subtree THEN NULL ELSE heap[n]]
  /\ m_root' = NULL /\ m_headleaf' = NULL /\ m_tailleaf' = NULL
  /\ m_stats' = [itemcount |-> 0, leaves |-> 0, innernodes |-> 0]
  /\ UNCHANGED callVars

\* The leaf exists, find, count and lower_bound search (Find is find_lower),
\* or the one upper_bound searches (Find is find_upper).
SearchLeaf(Find(_, _, _), key) ==
  LET leaf[n \in Allocated(heap)] ==
        IF isleafnode(heap, n) THEN n ELSE leaf[childid(heap, n, Find(heap, n, key))]
  IN leaf[m_root]

exists(key) ==
  m_root # NULL /\ InLeaf(heap, SearchLeaf(find_lower, key), key)

\* mutant: count stops at the end of the leaf
CountFromOneLeaf(leaf0, slot0, key) ==
  Cardinality({i \in DOMAIN SlotKeys(heap, leaf0) : SlotKeys(heap, leaf0)[i] = key})

\* The loop of count: equal keys from a slot on, over the end of the leaf.
CountFrom(leaf0, slot0, key) ==
  LET leaves == {n \in Allocated(heap) : isleafnode(heap, n)}
      num[r \in (0 .. m_stats.itemcount) \X (leaves \cup {NULL}) \X (0 .. leafslotmax)] ==
        LET k    == r[1]
            leaf == r[2]
            slot == r[3]
        IN IF leaf = NULL \/ k = m_stats.itemcount THEN k
           ELSE IF slot >= slotuse(heap, leaf) \/ slotkey(heap, leaf, slot) # key THEN k
           ELSE IF slot + 1 >= slotuse(heap, leaf) THEN num[<<k + 1, heap[leaf].next, 0>>]
           ELSE num[<<k + 1, leaf, slot + 1>>]
  IN num[<<0, leaf0, slot0>>]

count(key) ==
  IF m_root = NULL THEN 0
  ELSE LET leaf == SearchLeaf(find_lower, key)
       IN CountFrom(leaf, find_lower(heap, leaf, key), key)

\* An iterator is a leaf and a slot.
Position(Find(_, _, _), key) ==
  LET leaf == SearchLeaf(Find, key) IN [leaf |-> leaf, slot |-> Find(heap, leaf, key)]
lower_bound(key) == Position(find_lower, key)
upper_bound(key) == Position(find_upper, key)

\* ++ and -- of an iterator, Begin and End.
Begin == [leaf |-> m_headleaf, slot |-> 0]
End == [leaf |-> m_tailleaf, slot |-> IF m_tailleaf = NULL THEN 0 ELSE slotuse(heap, m_tailleaf)]

Advance(p) ==
  IF p.slot + 1 < slotuse(heap, p.leaf) THEN [p EXCEPT !.slot = @ + 1]
  ELSE IF heap[p.leaf].next # NULL THEN [leaf |-> heap[p.leaf].next, slot |-> 0]
  ELSE [p EXCEPT !.slot = slotuse(heap, p.leaf)]

RetreatShort(p) ==                    \* mutant: one slot too far
  IF p.slot > 0 THEN [p EXCEPT !.slot = @ - 1]
  ELSE IF heap[p.leaf].prev # NULL
    THEN [leaf |-> heap[p.leaf].prev, slot |-> slotuse(heap, heap[p.leaf].prev) - 2]
  ELSE [p EXCEPT !.slot = 0]
Retreat(p) ==
  IF p.slot > 0 THEN [p EXCEPT !.slot = @ - 1]
  ELSE IF heap[p.leaf].prev # NULL
    THEN [leaf |-> heap[p.leaf].prev, slot |-> slotuse(heap, heap[p.leaf].prev) - 1]
  ELSE [p EXCEPT !.slot = 0]

-----------------------------------------------------------------------------
Step == InsertStep \/ EraseStep

Next ==
  \/ \E key \in Key, data \in Data : InsertStart(key, data)
  \/ \E key \in Key, kind \in KeyKinds : EraseStart(kind, key)
  \/ \E leaf \in NodeId, slot \in 0 .. leafslotmax - 1 : EraseIterStart(leaf, slot)
  \/ Clear
  \/ Step

Spec == Init /\ [][Next]_vars /\ WF_vars(Step)
=============================================================================
