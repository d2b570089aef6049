--------------------------- MODULE BTree_proofs ----------------------------
(***************************************************************************)
(* More of what a change of a heap keeps: nodes are freed, a merged child  *)
(* goes, inner nodes take children from one another.  Then the actions of  *)
(* an erase on inner nodes, and clear, keep the shape of the B+ tree; the  *)
(* leaves of the tree and the chain; every action keeps the order of the   *)
(* keys; and the theorems that follow, those about the iterators and the   *)
(* searches between two calls among them.                                  *)
(***************************************************************************)
EXTENDS BTreeInvariant_proofs

-----------------------------------------------------------------------------
(* Nodes are freed                                                         *)

IsFreed(M, G, d) ==
  /\ G \in Heaps /\ Allocated(G) = Allocated(M) \ {d}
  /\ Leaves(G) = Leaves(M) \ {d} /\ InnerNodes(G) = InnerNodes(M) \ {d}
  /\ \A n \in NodeId \ {d} :
       /\ G[n] = M[n] /\ slotuse(G, n) = slotuse(M, n) /\ Kids(G, n) = Kids(M, n)
       /\ isleafnode(G, n) <=> isleafnode(M, n)

LEMMA FreedIs ==
  ASSUME NEW M \in Heaps, NEW d \in NodeId, NEW G, G = [M EXCEPT ![d] = NULL]
  PROVE  IsFreed(M, G, d)
<1>1. DOMAIN M = NodeId /\ \A n \in NodeId : M[n] \in Leaf \cup Inner \cup {NULL}
  BY DEF Heaps
<1>2. G[d] = NULL /\ G = [n \in NodeId |-> G[n]] /\ \A n \in NodeId \ {d} : G[n] = M[n]
  BY <1>1
<1>3. G \in Heaps
  <2>1. \A n \in NodeId : G[n] \in Leaf \cup Inner \cup {NULL}
    BY <1>1, <1>2
  <2> QED
    BY <1>2, <2>1 DEF Heaps
<1>4. Allocated(G) = Allocated(M) \ {d}
  BY <1>2 DEF Allocated
<1>5. \A n \in NodeId \ {d} :
        /\ slotuse(G, n) = slotuse(M, n) /\ Kids(G, n) = Kids(M, n)
        /\ isleafnode(G, n) <=> isleafnode(M, n)
  BY <1>2 DEF slotuse, Kids, isleafnode
<1>6. \A n \in Allocated(M) : n \in NodeId
  BY NodeIs
<1>7. Leaves(G) = Leaves(M) \ {d} /\ InnerNodes(G) = InnerNodes(M) \ {d}
  BY <1>4, <1>5, <1>6 DEF Leaves, InnerNodes
<1> QED
  BY <1>2, <1>3, <1>4, <1>5, <1>7 DEF IsFreed

\* A node that hangs on nothing and has no children.
LEMMA FreedTree ==
  ASSUME NEW M \in Heaps, NEW root, root # NULL, NEW d, d # root, NEW R, Tree(M, root, {d}, R),
         Kids(M, d) = <<>>, NEW G, IsFreed(M, G, d)
  PROVE  Tree(G, root, {}, OrderWithout(R, d))
<1>a. PICK A, lv, K, X : A = Allocated(M) /\ lv = LevelsOf(M) /\ K = KidsOf(M) /\ X = {root, d}
  OBVIOUS
<1>1. Forest(A, lv, K, X, R)
  <2>1. ({root} \ {NULL}) \cup {d} = {root, d}
    OBVIOUS
  <2> QED
    BY <1>a, <2>1, TreeIs
<1>2. root \in A /\ d \in A /\ A \subseteq NodeId
  BY <1>a, RootIs, NodeIs
<1>3. \A n \in A : lv[n] = M[n].level /\ K[n] = Kids(M, n)
  BY <1>a, LevelAt
<1>4. Forest(A \ {d}, Without(lv, d), Without(K, d), X \ {d}, OrderWithout(R, d))
  <2>1. d \in X /\ K[d] = <<>>
    BY <1>2, <1>3, <1>a
  <2> QED
    BY <1>1, <2>1, Drop
<1>5. X \ {d} = ({root} \ {NULL}) \cup {}
  BY <1>a
<1>6. PICK B, lw, L : B = A \ {d} /\ lw = Without(lv, d) /\ L = Without(K, d)
  OBVIOUS
<1>7. DOMAIN lv = A /\ DOMAIN K = A
  BY <1>1, ForestTypes
<1>8. \A n \in B : lw[n] = lv[n] /\ L[n] = K[n]
  BY <1>6, <1>7 DEF Without
<1>9. Allocated(G) = B
  BY <1>6, <1>a DEF IsFreed
<1>10. \A n \in B : G[n].level = lw[n] /\ Kids(G, n) = L[n]
  <2>1. \A n \in B : n \in A /\ n \in NodeId \ {d}
    BY <1>2, <1>6
  <2>2. \A n \in NodeId \ {d} : G[n] = M[n] /\ Kids(G, n) = Kids(M, n)
    BY DEF IsFreed
  <2> QED
    BY <1>3, <1>8, <2>1, <2>2
<1>11. \A n \in B : n = root \/ n \in {} \/ lw[n] < lw[root]
  <2>1. \A n \in A : n = root \/ n \in {d} \/ M[n].level < M[root].level
    BY <1>a DEF Tree
  <2>2. root \in B
    BY <1>2, <1>6
  <2> QED
    BY <1>3, <1>6, <1>8, <2>1, <2>2
<1>12. Forest(B, lw, L, ({root} \ {NULL}) \cup {}, OrderWithout(R, d)) /\ root \in B
  BY <1>2, <1>4, <1>5, <1>6
<1> QED
  BY <1>9, <1>10, <1>11, <1>12, TreeFrom

LEMMA FreedLinks ==
  ASSUME NEW M \in Heaps, NEW d, NEW R, R \in [Allocated(M) -> SUBSET Allocated(M)],
         Linked(M, {d}, R), NEW G, IsFreed(M, G, d)
  PROVE  Linked(G, {}, OrderWithout(R, d))
<1>a. PICK L, nx, pv, ny, pw, Q : /\ L = Leaves(M) \ {d} /\ nx = Nexts(M) /\ pv = Prevs(M)
                                  /\ ny = Nexts(G) /\ pw = Prevs(G) /\ Q = OrderWithout(R, d)
  OBVIOUS
<1>1. Chained(L, R, nx, pv, NULL)
  BY <1>a DEF Linked
<1>2. Leaves(G) = L /\ \A n \in NodeId \ {d} : G[n] = M[n]
  BY <1>a DEF IsFreed
<1>3. \A n \in L : n \in Leaves(M) /\ n # d /\ n \in NodeId /\ n \in Allocated(M)
  BY <1>a, LeafNode
<1>4. \A n \in L : ny[n] = nx[n] /\ pw[n] = pv[n]
  BY <1>2, <1>3, <1>a DEF Nexts, Prevs
<1>5. \A m, n \in L : n \in Q[m] <=> n \in R[m]
  BY <1>3, <1>a DEF OrderWithout
<1>6. AgreeOn(L, R, Q, nx, pv, ny, pw)
  BY <1>4, <1>5 DEF AgreeOn
<1>7. Chained(L, Q, ny, pw, NULL)
  BY <1>1, <1>6, LinksSame
<1>8. Leaves(G) \ {} = L
  BY <1>2
<1> QED
  BY <1>7, <1>8, <1>a DEF Linked

\* A node without slots has no pairs.
LEMMA FreedPairs ==
  ASSUME NEW M, NEW d, NEW G, IsFreed(M, G, d), slotuse(M, d) = 0
  PROVE  Pairs(G) = Pairs(M)
<1>1. Leaves(G) = Leaves(M) \ {d}
  BY DEF IsFreed
<1>2. \A n \in Leaves(M) : n \in NodeId
  BY DEF Leaves, Allocated
<1>3. \A n \in Leaves(G) : slotuse(G, n) = slotuse(M, n)
  BY <1>1, <1>2 DEF IsFreed
<1>4. \A q \in Leaves(M) \X (1 .. leafslotmax) : q[2] <= slotuse(M, q[1]) => q[1] # d
  <2> SUFFICES ASSUME NEW q \in Leaves(M) \X (1 .. leafslotmax), q[2] <= slotuse(M, q[1]), q[1] = d
               PROVE  FALSE
    OBVIOUS
  <2>1. q[2] \in 1 .. leafslotmax /\ q[2] <= 0
    OBVIOUS
  <2> QED
    BY <2>1, Sizes
<1>5. \A q \in Pairs(G) : q \in Pairs(M)
  BY <1>1, <1>3 DEF Pairs
<1>6. \A q \in Pairs(M) : q \in Pairs(G)
  <2> SUFFICES ASSUME NEW q \in Pairs(M) PROVE q \in Pairs(G)
    OBVIOUS
  <2>1. q \in Leaves(M) \X (1 .. leafslotmax) /\ q[2] <= slotuse(M, q[1])
    BY DEF Pairs
  <2>2. q[1] # d /\ q[1] \in Leaves(M)
    BY <1>4, <2>1
  <2>3. q[1] \in Leaves(G) /\ slotuse(G, q[1]) = slotuse(M, q[1])
    BY <1>1, <1>3, <2>2
  <2>4. q \in Leaves(G) \X (1 .. leafslotmax)
    BY <2>1, <2>3
  <2> QED
    BY <2>1, <2>3, <2>4 DEF Pairs
<1> QED
  BY <1>5, <1>6

-----------------------------------------------------------------------------
(* A child that a merge has emptied goes                                   *)

\* M is U without the child d of c and its key.
IsUnhung(U, M, root, R, c, d) ==
  /\ SameFrame(U, M, {c}) /\ Tree(M, root, {d}, R) /\ d \in Allocated(U) /\ d # root /\ d # c
  /\ Len(M[c].keys) = slotuse(U, c) - 1 /\ Len(M[c].child) = slotuse(U, c)
  /\ U[d].level = U[c].level - 1 /\ Kids(M, d) = <<>> /\ slotuse(M, d) = 0

LEMMA Unhung ==
  ASSUME NEW U \in Heaps, NEW root, root # NULL, NEW R, NEW c \in InnerNodes(U),
         NEW s \in 1 .. slotuse(U, c), NEW d, d = childid(U, c, s), d # c,
         Tree(U, root, {}, R), NodesHold(U, {d}),
         NEW ks, ks = RemoveAt(U[c].keys, s), NEW cs, cs = RemoveAt(U[c].child, s + 1),
         NEW M, Rewritten(U, M, c, ks, cs)
  PROVE  IsUnhung(U, M, root, R, c, d)
<1>1. /\ c \in NodeId /\ c \in Allocated(U) /\ U[c].level \in Nat /\ U[c].level > 0
      /\ U[c].keys \in Seq(Key) /\ U[c].child \in Seq(NodeId) /\ Kids(U, c) = U[c].child
      /\ slotuse(U, c) = Len(U[c].keys) /\ slotuse(U, c) \in Nat /\ ~isleafnode(U, c)
  BY InnerNode
<1>2. Len(U[c].child) = slotuse(U, c) + 1
  BY <1>1 DEF NodesHold
<1>3. /\ s + 1 \in 1 .. Len(Kids(U, c)) /\ d = Kids(U, c)[s + 1]
      /\ d \in Allocated(U) /\ U[d].level = U[c].level - 1 /\ d # root
  <2>1. s \in 0 .. slotuse(U, c) /\ c \in Allocated(U) \ {d}
    BY <1>1
  <2> QED
    BY <1>1, <2>1, ChildOf
<1>4. ks \in Seq(Key) /\ Len(ks) = slotuse(U, c) - 1
  <2>1. s \in 1 .. Len(U[c].keys)
    BY <1>1
  <2>2. ks \in Seq(Key) /\ Inserted(ks, U[c].keys, s, U[c].keys[s])
    BY <1>1, <2>1, RemoveAtIs
  <2>3. Len(ks) \in Nat
    BY <2>2
  <2> QED
    BY <1>1, <2>2, <2>3 DEF Inserted
<1>5. PICK A, lv, K, X : A = Allocated(U) /\ lv = LevelsOf(U) /\ K = KidsOf(U) /\ X = {root}
  OBVIOUS
<1>6. Forest(A, lv, K, X, R)
  <2>1. ({root} \ {NULL}) \cup {} = {root}
    OBVIOUS
  <2> QED
    BY <1>5, <2>1, TreeIs
<1>7. c \in A /\ K[c] = U[c].child /\ K[c] \in Seq(A) /\ DOMAIN K = A
  BY <1>1, <1>5, <1>6, LevelAt, ForestTypes
<1>8. s + 1 \in 1 .. Len(K[c]) /\ K[c][s + 1] = d
  BY <1>1, <1>3, <1>7
<1>9. cs \in Seq(A) /\ Inserted(cs, K[c], s + 1, K[c][s + 1])
  BY <1>7, <1>8, RemoveAtIs
<1>10. Forest(A, lv, Put(K, c, cs), X \cup {d}, R)
  <2>1. Forest(A, lv, Put(K, c, cs), X \cup {K[c][s + 1]}, R)
    BY <1>6, <1>7, <1>8, <1>9, Disown
  <2> QED
    BY <1>8, <2>1
<1>11. Len(cs) = slotuse(U, c)
  <2>1. Len(K[c]) = Len(cs) + 1
    BY <1>9 DEF Inserted
  <2>2. Len(cs) \in Nat
    BY <1>9
  <2> QED
    BY <1>1, <1>2, <1>7, <2>1, <2>2
<1>12. cs \in Seq(NodeId)
  <2>1. A \subseteq NodeId
    BY <1>5 DEF Allocated
  <2> QED
    BY <1>9, <2>1
<1>13. SameFrame(U, M, {c}) /\ M[c].keys = ks /\ M[c].child = cs
  BY <1>4, <1>12, RewriteIs
<1>14. PICK L : L = Put(K, c, cs)
  OBVIOUS
<1>15. \A n \in Allocated(U) : Kids(M, n) = L[n]
  <2>1. L[c] = cs /\ \A n \in A \ {c} : L[n] = K[n]
    BY <1>7, <1>14, PutIs
  <2>2. Kids(M, c) = cs
    BY <1>13 DEF SameFrame
  <2>3. \A n \in A \ {c} : Kids(M, n) = K[n]
    <3>1. \A n \in A \ {c} : n \in NodeId \ {c} /\ K[n] = Kids(U, n)
      BY <1>5, LevelAt DEF Allocated
    <3>2. \A n \in NodeId \ {c} : Kids(M, n) = Kids(U, n)
      BY <1>13 DEF SameFrame
    <3> QED
      BY <3>1, <3>2
  <2> QED
    BY <1>5, <2>1, <2>2, <2>3
<1>16. Tree(M, root, {d}, R)
  <2>1. SameFrame(U, M, {c}) /\ Tree(U, root, {}, R)
    BY <1>13
  <2>2. X \cup {d} = ({root} \ {NULL}) \cup {d}
    BY <1>5
  <2>3. Forest(Allocated(U), LevelsOf(U), L, ({root} \ {NULL}) \cup {d}, R)
    BY <1>5, <1>10, <1>14, <2>2
  <2>4. \A n \in {} \ {d} : U[n].level < U[root].level
    OBVIOUS
  <2> QED
    BY <1>15, <2>1, <2>3, <2>4, FrameTree
<1>17. Kids(M, d) = <<>> /\ slotuse(M, d) = 0
  <2>1. Kids(U, d) = <<>> /\ slotuse(U, d) = 0
    BY DEF NodesHold
  <2>2. d \in NodeId \ {c}
    BY <1>3 DEF Allocated
  <2> QED
    BY <1>13, <2>1, <2>2 DEF SameFrame
<1> QED
  BY <1>3, <1>4, <1>11, <1>13, <1>16, <1>17 DEF IsUnhung

\* What is left when the empty child d of c is freed.
IsPruned(U, G, root, R, Q, c, d) ==
  /\ G \in Heaps /\ Shape(G, root, {}, {}, Q) /\ Filled(G, {c}, root, 1) /\ c \in InnerNodes(G)
  /\ slotuse(G, c) = slotuse(U, c) - 1 /\ Kept(U, G, U[c].level) /\ SameOrder(U, R, G, Q, U[c].level)
  /\ Leaves(G) = Leaves(U) \ {d} /\ InnerNodes(G) = InnerNodes(U) \ {d} /\ Pairs(G) = Pairs(U)

LEMMA PruneShape ==
  ASSUME NEW U \in Heaps, NEW root, root # NULL, NEW R, NEW c \in InnerNodes(U),
         NEW s \in 1 .. slotuse(U, c), NEW d, d = childid(U, c, s),
         Shape(U, root, {}, {d}, R), Filled(U, {d}, root, 1),
         NEW ks, ks = RemoveAt(U[c].keys, s), NEW cs, cs = RemoveAt(U[c].child, s + 1),
         NEW M, Rewritten(U, M, c, ks, cs), NEW G, G = [M EXCEPT ![d] = NULL],
         NEW Q, Q = OrderWithout(R, d)
  PROVE  IsPruned(U, G, root, R, Q, c, d)
<1>1. Tree(U, root, {}, R) /\ NodesHold(U, {d}) /\ Linked(U, {d}, R)
  BY DEF Shape
<1>2. c \in NodeId /\ c \in Allocated(U) /\ slotuse(U, c) \in Nat /\ ~isleafnode(U, c) /\ U[c].level \in Nat
  BY InnerNode
<1>3. d # c /\ slotuse(U, d) = 0 /\ d \in Allocated(U) /\ d \in NodeId
  <2>1. slotuse(U, d) = 0 /\ d \in Allocated(U)
    BY <1>1 DEF NodesHold
  <2> QED
    BY <1>2, <2>1 DEF Allocated
<1>4. IsUnhung(U, M, root, R, c, d)
  BY <1>1, <1>3, Unhung
<1>5. SameFrame(U, M, {c}) /\ Tree(M, root, {d}, R) /\ d # root /\ Kids(M, d) = <<>> /\ slotuse(M, d) = 0
      /\ U[d].level = U[c].level - 1
  BY <1>4 DEF IsUnhung
<1>6. M \in Heaps /\ Allocated(M) = Allocated(U) /\ Leaves(M) = Leaves(U) /\ InnerNodes(M) = InnerNodes(U)
  BY <1>5 DEF SameFrame
<1>7. IsFreed(M, G, d)
  BY <1>3, <1>6, FreedIs
<1>8. /\ G \in Heaps /\ Allocated(G) = Allocated(U) \ {d}
      /\ Leaves(G) = Leaves(U) \ {d} /\ InnerNodes(G) = InnerNodes(U) \ {d}
      /\ \A n \in NodeId \ {d} :
           /\ G[n] = M[n] /\ slotuse(G, n) = slotuse(M, n) /\ Kids(G, n) = Kids(M, n)
           /\ isleafnode(G, n) <=> isleafnode(M, n)
  BY <1>6, <1>7 DEF IsFreed
<1>9. Tree(G, root, {}, Q)
  BY <1>5, <1>6, <1>7, FreedTree
<1>10. Linked(M, {d}, R) /\ Pairs(M) = Pairs(U)
  <2>1. Linked(U, {d}, R) /\ Leaves(U) \ {d} = Leaves(U) \ {d}
    BY <1>1
  <2> QED
    BY <1>5, <2>1, FrameLinks
<1>11. R \in [Allocated(M) -> SUBSET Allocated(M)]
  <2>1. Forest(Allocated(U), LevelsOf(U), KidsOf(U), ({root} \ {NULL}) \cup {}, R)
    BY <1>1, TreeIs
  <2> QED
    BY <1>6, <2>1 DEF Forest, LevelOrder
<1>12. Linked(G, {}, Q)
  BY <1>6, <1>7, <1>10, <1>11, FreedLinks
<1>13. Pairs(G) = Pairs(U)
  BY <1>5, <1>7, <1>10, FreedPairs
\* Nodes that are not c.
<1>14. \A n \in Allocated(U) \ {c, d} :
         /\ n \in Allocated(G) /\ G[n].level = U[n].level /\ (isleafnode(G, n) <=> isleafnode(U, n))
         /\ slotuse(G, n) = slotuse(U, n) /\ Kids(G, n) = Kids(U, n)
  <2>1. \A n \in Allocated(U) \ {c, d} : n \in NodeId \ {c} /\ n \in NodeId \ {d} /\ n \in Allocated(G)
    BY <1>8 DEF Allocated
  <2>2. \A n \in Allocated(U) : M[n].level = U[n].level /\ (isleafnode(M, n) <=> isleafnode(U, n))
    BY <1>5 DEF SameFrame
  <2>3. \A n \in NodeId \ {c} : slotuse(M, n) = slotuse(U, n) /\ Kids(M, n) = Kids(U, n)
    BY <1>5 DEF SameFrame
  <2> QED
    BY <1>8, <2>1, <2>2, <2>3
<1>15. /\ c \in Allocated(G) /\ G[c].level = U[c].level /\ ~isleafnode(G, c)
       /\ slotuse(G, c) = slotuse(U, c) - 1 /\ Len(Kids(G, c)) = slotuse(U, c)
  <2>1. c \in NodeId \ {d}
    BY <1>2, <1>3
  <2>2. M[c].level = U[c].level /\ ~isleafnode(M, c) /\ slotuse(M, c) = Len(M[c].keys)
        /\ Kids(M, c) = M[c].child
    BY <1>2, <1>5 DEF SameFrame
  <2>3. Len(M[c].keys) = slotuse(U, c) - 1 /\ Len(M[c].child) = slotuse(U, c)
    BY <1>4 DEF IsUnhung
  <2> QED
    BY <1>2, <1>3, <1>8, <2>1, <2>2, <2>3
<1>16. c \in InnerNodes(G)
  BY <1>15 DEF InnerNodes
<1>17. \A n \in Allocated(G) : n = c \/ n \in Allocated(U) \ {c, d}
  BY <1>8
<1>18. NodesHold(G, {})
  <2>1. ASSUME NEW n \in Allocated(G)
        PROVE  IF isleafnode(G, n) THEN slotuse(G, n) <= leafslotmax
               ELSE slotuse(G, n) <= innerslotmax /\ Len(Kids(G, n)) = slotuse(G, n) + 1
    <3>1. CASE n = c
      <4>1. slotuse(U, c) <= innerslotmax
        BY <1>1, <1>2, <1>3 DEF NodesHold
      <4> QED
        BY <1>2, <1>15, <3>1, <4>1, Sizes
    <3>2. CASE n \in Allocated(U) \ {c, d}
      <4>1. IF isleafnode(U, n) THEN slotuse(U, n) <= leafslotmax
            ELSE slotuse(U, n) <= innerslotmax /\ Len(Kids(U, n)) = slotuse(U, n) + 1
        BY <1>1, <3>2 DEF NodesHold
      <4> QED
        BY <1>14, <3>2, <4>1
    <3> QED
      BY <1>17, <3>1, <3>2
  <2> QED
    BY <2>1 DEF NodesHold
<1>19. Filled(G, {c}, root, 1)
  <2>1. \A n \in Allocated(U) \ {c, d} :
          slotuse(U, n) >= IF n # root THEN mininnerslots ELSE IF isleafnode(U, n) THEN 1 ELSE 1
    BY DEF Filled
  <2>2. \A n \in Allocated(G) \ {c} : n \in Allocated(U) \ {c, d}
    BY <1>17
  <2> SUFFICES ASSUME NEW n \in Allocated(G) \ {c}
               PROVE  slotuse(G, n) >= IF n # root THEN mininnerslots ELSE IF isleafnode(G, n) THEN 1 ELSE 1
    BY DEF Filled
  <2>3. n \in Allocated(U) \ {c, d}
    BY <2>2
  <2>4. slotuse(G, n) = slotuse(U, n) /\ (isleafnode(G, n) <=> isleafnode(U, n))
    BY <1>14, <2>3
  <2>5. slotuse(U, n) >= IF n # root THEN mininnerslots ELSE IF isleafnode(U, n) THEN 1 ELSE 1
    BY <2>1, <2>3
  <2> QED
    BY <2>4, <2>5, Zenon
<1>20. Kept(U, G, U[c].level)
  <2>3. \A n \in Allocated(U) : n = c \/ n = d \/ n \in Allocated(U) \ {c, d}
    OBVIOUS
  <2>4. ~(U[c].level > U[c].level)
    BY <1>2
  <2>5. ~(U[d].level > U[c].level) /\ ~(U[d].level >= U[c].level)
    BY <1>2, <1>5
  <2> QED
    BY <1>14, <1>15, <2>3, <2>4, <2>5 DEF Kept
<1>21. SameOrder(U, R, G, Q, U[c].level)
  <2> SUFFICES ASSUME NEW a \in Allocated(U), NEW b \in Allocated(U), U[a].level > U[c].level,
                      IsNext(Allocated(U), R, a, b)
               PROVE  IsNext(Allocated(G), Q, a, b)
    BY DEF SameOrder
  <2>1. Forest(Allocated(U), LevelsOf(U), KidsOf(U), ({root} \ {NULL}) \cup {}, R)
    BY <1>1, TreeIs
  <2>2. LevelsOf(U)[a] = U[a].level /\ LevelsOf(U)[b] = U[b].level
    BY LevelAt
  <2>3. b \in R[a] /\ \A x \in Allocated(U) : ~(x \in R[a] /\ b \in R[x])
    BY DEF IsNext
  <2>4. U[b].level = U[a].level
    BY <2>1, <2>2, <2>3 DEF Forest, LevelOrder
  <2>5. a # d /\ b # d
    BY <1>2, <1>5, <2>4
  <2>6. DOMAIN R = Allocated(U)
    BY <2>1, ForestTypes
  <2>7. \A x \in Allocated(G) : x \in Allocated(U) /\ x # d
    BY <1>8
  <2>8. \A x \in Allocated(U) : x # d => Q[x] = R[x] \ {d}
    BY <2>6 DEF OrderWithout
  <2> QED
    BY <2>3, <2>5, <2>7, <2>8 DEF IsNext
<1>22. Shape(G, root, {}, {}, Q)
  BY <1>9, <1>12, <1>18 DEF Shape
<1> QED
  BY <1>8, <1>13, <1>15, <1>16, <1>19, <1>20, <1>21, <1>22 DEF IsPruned

-----------------------------------------------------------------------------
(* A node that an erase comes back to                                      *)

\* H is J with a child of c less, or the same, and other keys.
Opened(J, R, H, Q, root, c) ==
  /\ H \in Heaps /\ Shape(H, root, {}, {}, Q) /\ Filled(H, {c}, root, 1) /\ c \in InnerNodes(H)
  /\ slotuse(H, c) + 1 >= IF c # root THEN mininnerslots ELSE 1
  /\ Kept(J, H, J[c].level) /\ SameOrder(J, R, H, Q, J[c].level)

\* Keys that change make no difference, before and after.
LEMMA OpenedRekeyed ==
  ASSUME NEW J \in Heaps, NEW G \in Heaps, NEW root, root # NULL, NEW R, NEW Q,
         NEW c \in InnerNodes(J), Opened(J, R, G, Q, root, c), NEW H \in Heaps, Rekeyed(G, H)
  PROVE  Opened(J, R, H, Q, root, c)
<1>1. /\ Shape(G, root, {}, {}, Q) /\ Filled(G, {c}, root, 1) /\ c \in InnerNodes(G)
      /\ slotuse(G, c) + 1 >= IF c # root THEN mininnerslots ELSE 1
      /\ Kept(J, G, J[c].level) /\ SameOrder(J, R, G, Q, J[c].level)
  BY DEF Opened
<1>2. root \in Allocated(G)
  BY <1>1, RootIs DEF Shape
<1>3. Shape(H, root, {}, {}, Q)
  BY <1>1, <1>2, RekeyedShape
<1>4. Filled(H, {c}, root, 1)
  BY <1>1, RekeyedKeeps
<1>5. c \in InnerNodes(H) /\ slotuse(H, c) = slotuse(G, c)
  BY <1>1, RekeyedNode
<1>6. SameNodes(G, H) /\ SameSizes(G, H)
  BY DEF Rekeyed
<1>7. Kept(J, H, J[c].level)
  <2>1. PICK l : l = J[c].level
    OBVIOUS
  <2>2. Kept(J, G, l) /\ Kept(G, H, l)
    BY <1>1, <2>1, KeptRekeyed
  <2>3. l \in Int
    BY <2>1, InnerNode
  <2>4. \A n \in Allocated(J) : J[n].level \in Int
    BY NodeIs
  <2> QED
    BY <2>1, <2>2, <2>3, <2>4, KeptTwice
<1>8. SameOrder(J, R, H, Q, J[c].level)
  BY <1>1, <1>6 DEF SameOrder, SameNodes
<1> QED
  BY <1>1, <1>3, <1>4, <1>5, <1>7, <1>8 DEF Opened

\* Without a merge below.
LEMMA OpenedSame ==
  ASSUME NEW J \in Heaps, NEW root, root # NULL, NEW R, Shape(J, root, {}, {}, R),
         Filled(J, {}, root, 1), NEW c \in InnerNodes(J),
         slotuse(J, c) >= IF c # root THEN mininnerslots ELSE 1
  PROVE  Opened(J, R, J, R, root, c)
<1>1. Filled(J, {c}, root, 1)
  BY DEF Filled
<1>2. slotuse(J, c) \in Nat
  BY InnerNode
<1>3. slotuse(J, c) + 1 >= IF c # root THEN mininnerslots ELSE 1
  BY <1>2, Sizes
<1>4. Rekeyed(J, J)
  BY RekeyedSelf
<1>5. Kept(J, J, J[c].level)
  BY <1>4, KeptRekeyed
<1>6. SameOrder(J, R, J, R, J[c].level)
  BY DEF SameOrder
<1> QED
  BY <1>1, <1>3, <1>5, <1>6 DEF Opened

\* With one: the key for the merged leaf.
LEMMA MergedKey ==
  ASSUME NEW U \in Heaps, NEW G, NEW root, root # NULL, NEW R, NEW Q, NEW c, NEW d,
         IsPruned(U, G, root, R, Q, c, d), NEW s \in 1 .. slotuse(U, c), slotuse(U, c) \in Nat,
         NEW H, H = IF G[c].level = 1 THEN SetKey(G, c, s - 1, LastKey(G, childid(G, c, s - 1))) ELSE G
  PROVE  H \in Heaps /\ Rekeyed(G, H)
<1>1. /\ G \in Heaps /\ Shape(G, root, {}, {}, Q) /\ Filled(G, {c}, root, 1) /\ c \in InnerNodes(G)
      /\ slotuse(G, c) = slotuse(U, c) - 1
  BY DEF IsPruned
<1>2. CASE G[c].level = 1
  <2>1. PICK x : x = childid(G, c, s - 1)
    OBVIOUS
  <2>2. c \in Allocated(G) /\ G[c].level > 0
    BY <1>1, InnerNode
  <2>3. s - 1 \in 0 .. slotuse(G, c)
    BY <1>1
  <2>4. x \in Allocated(G) /\ G[x].level = G[c].level - 1
    <3>1. Tree(G, root, {}, Q) /\ NodesHold(G, {}) /\ c \in Allocated(G) \ {}
      BY <1>1, <2>2 DEF Shape
    <3>2. childid(G, c, s - 1) \in Allocated(G) /\ G[childid(G, c, s - 1)].level = G[c].level - 1
      BY <1>1, <2>2, <2>3, <3>1, ChildOf
    <3> QED
      BY <2>1, <3>2
  <2>5. x \in Allocated(G) \ {c}
    BY <1>2, <2>4
  <2>6. slotuse(G, x) >= IF x # root THEN mininnerslots ELSE IF isleafnode(G, x) THEN 1 ELSE 1
    BY <1>1, <2>5 DEF Filled
  <2>7. slotuse(G, x) \in Nat
    BY <1>1, <2>4, NodeIs
  <2>8. slotuse(G, x) >= 1
    BY <2>6, <2>7, Sizes
  <2>9. LastKey(G, x) \in Key
    BY <1>1, <2>4, <2>8, SlotKey
  <2>10. PICK k, t : k = LastKey(G, x) /\ t = s - 1
    OBVIOUS
  <2>11. SetKey(G, c, t, k) \in Heaps /\ Rekeyed(G, SetKey(G, c, t, k))
    BY <1>1, <2>2, <2>9, <2>10, SetKeyIs
  <2> QED
    BY <1>2, <2>1, <2>10, <2>11
<1>3. CASE G[c].level # 1
  BY <1>1, <1>3, RekeyedSelf
<1> QED
  BY <1>2, <1>3

\* H has the nodes of J but for the child d of c.
OneLess(J, H, c, d) ==
  /\ Leaves(H) = Leaves(J) \ {d} /\ InnerNodes(H) = InnerNodes(J) \ {d} /\ Pairs(H) = Pairs(J)
  /\ d \in Allocated(J) /\ J[d].level = J[c].level - 1

LEMMA PruneOpened ==
  ASSUME NEW J \in Heaps, NEW U \in Heaps, Rekeyed(J, U), NEW root, root # NULL, NEW R,
         NEW c \in InnerNodes(J), NEW s \in 1 .. slotuse(J, c), NEW d, d = childid(J, c, s), d # c,
         Shape(J, root, {}, {d}, R), slotuse(J, c) >= IF c # root THEN mininnerslots ELSE 1,
         NEW G, NEW Q, IsPruned(U, G, root, R, Q, c, d), NEW H \in Heaps, Rekeyed(G, H)
  PROVE  Opened(J, R, H, Q, root, c) /\ OneLess(J, H, c, d)
<1>1. /\ G \in Heaps /\ Shape(G, root, {}, {}, Q) /\ Filled(G, {c}, root, 1) /\ c \in InnerNodes(G)
      /\ slotuse(G, c) = slotuse(U, c) - 1 /\ Kept(U, G, U[c].level) /\ SameOrder(U, R, G, Q, U[c].level)
      /\ Leaves(G) = Leaves(U) \ {d} /\ InnerNodes(G) = InnerNodes(U) \ {d} /\ Pairs(G) = Pairs(U)
  BY DEF IsPruned
<1>2. c \in InnerNodes(U) /\ U[c].level = J[c].level /\ slotuse(U, c) = slotuse(J, c)
  BY RekeyedNode
<1>3. SameNodes(J, U) /\ SameNodes(G, H)
  BY DEF Rekeyed
<1>4. c \in Allocated(J) /\ J[c].level \in Nat /\ J[c].level > 0 /\ slotuse(J, c) \in Nat
  BY InnerNode
<1>5. slotuse(G, c) + 1 >= IF c # root THEN mininnerslots ELSE 1
  BY <1>1, <1>2, <1>4, Sizes
<1>6. Kept(J, G, J[c].level)
  <2>1. PICK l : l = J[c].level
    OBVIOUS
  <2>2. Kept(J, U, l) /\ Kept(U, G, l)
    BY <1>1, <1>2, <2>1, KeptRekeyed
  <2>3. l \in Int
    BY <1>4, <2>1
  <2>4. \A n \in Allocated(J) : J[n].level \in Int
    BY NodeIs
  <2> QED
    BY <2>1, <2>2, <2>3, <2>4, KeptTwice
<1>7. SameOrder(J, R, G, Q, J[c].level)
  BY <1>1, <1>2, <1>3 DEF SameOrder, SameNodes
<1>8. Opened(J, R, G, Q, root, c)
  BY <1>1, <1>5, <1>6, <1>7 DEF Opened
<1>9. Opened(J, R, H, Q, root, c)
  BY <1>1, <1>8, OpenedRekeyed
<1>10. Leaves(U) = Leaves(J) /\ InnerNodes(U) = InnerNodes(J) /\ Leaves(H) = Leaves(G)
       /\ InnerNodes(H) = InnerNodes(G)
  BY <1>3, SameKinds
<1>11. Pairs(U) = Pairs(J) /\ Pairs(H) = Pairs(G)
  BY RekeyedKeeps
<1>12. d \in Allocated(J) /\ J[d].level = J[c].level - 1
  <2>1. Tree(J, root, {}, R) /\ NodesHold(J, {d})
    BY DEF Shape
  <2>2. s \in 0 .. slotuse(J, c) /\ c \in Allocated(J) \ {d}
    BY <1>4
  <2>3. childid(J, c, s) \in Allocated(J) /\ J[childid(J, c, s)].level = J[c].level - 1
    BY <1>4, <2>1, <2>2, ChildOf
  <2> QED
    BY <2>3
<1>13. OneLess(J, H, c, d)
  BY <1>1, <1>10, <1>11, <1>12 DEF OneLess
<1> QED
  BY <1>9, <1>13

\* A leaf less when c is above the leaves, an inner node less otherwise.
LEMMA OneLessCounted ==
  ASSUME NEW J \in Heaps, NEW H, NEW c \in InnerNodes(J), NEW d, OneLess(J, H, c, d),
         NEW stats \in [itemcount : Nat, leaves : Nat, innernodes : Nat], Counted(J, stats, 1),
         NEW now, now = IF J[c].level = 1 THEN [stats EXCEPT !.leaves = @ - 1]
                        ELSE [stats EXCEPT !.innernodes = @ - 1]
  PROVE  now \in [itemcount : Nat, leaves : Nat, innernodes : Nat] /\ Counted(H, now, 1)
<1>1. /\ Leaves(H) = Leaves(J) \ {d} /\ InnerNodes(H) = InnerNodes(J) \ {d} /\ Pairs(H) = Pairs(J)
      /\ d \in Allocated(J) /\ J[d].level = J[c].level - 1
  BY DEF OneLess
<1>2. J[c].level \in Nat /\ J[c].level > 0 /\ J[d].level \in Nat
  BY <1>1, InnerNode, NodeIs
<1>3. /\ IsFiniteSet(Leaves(J)) /\ IsFiniteSet(InnerNodes(J))
      /\ Cardinality(Leaves(J)) \in Nat /\ Cardinality(InnerNodes(J)) \in Nat
      /\ Cardinality(Leaves(H)) \in Nat /\ Cardinality(InnerNodes(H)) \in Nat
  BY AllocatedFinite
<1>4. stats.leaves = Cardinality(Leaves(J)) /\ stats.innernodes = Cardinality(InnerNodes(J))
      /\ stats.itemcount = Cardinality(Pairs(J)) + 1
  BY DEF Counted
<1>5. stats.leaves \in Nat /\ stats.innernodes \in Nat /\ stats.itemcount \in Nat
  OBVIOUS
<1>6. CASE J[c].level = 1
  <2>1. d \in Leaves(J) /\ d \notin InnerNodes(J)
    BY <1>1, <1>6 DEF Leaves, InnerNodes, isleafnode
  <2>2. Cardinality(Leaves(H)) = Cardinality(Leaves(J)) - 1
    BY <1>1, <1>3, <2>1, FS_RemoveElement
  <2>3. InnerNodes(H) = InnerNodes(J)
    BY <1>1, <2>1
  <2>4. now.leaves = stats.leaves - 1 /\ now.innernodes = stats.innernodes /\ now.itemcount = stats.itemcount
        /\ now = [itemcount |-> stats.itemcount, leaves |-> stats.leaves - 1, innernodes |-> stats.innernodes]
    BY <1>6
  <2>5. stats.leaves - 1 \in Nat
    BY <1>3, <1>4, <2>2
  <2>6. now \in [itemcount : Nat, leaves : Nat, innernodes : Nat]
    BY <1>5, <2>4, <2>5
  <2>7. Counted(H, now, 1)
    BY <1>1, <1>4, <2>2, <2>3, <2>4 DEF Counted
  <2> QED
    BY <2>6, <2>7
<1>7. CASE J[c].level # 1
  <2>1. d \in InnerNodes(J) /\ d \notin Leaves(J)
    BY <1>1, <1>2, <1>7 DEF Leaves, InnerNodes, isleafnode
  <2>2. Cardinality(InnerNodes(H)) = Cardinality(InnerNodes(J)) - 1
    BY <1>1, <1>3, <2>1, FS_RemoveElement
  <2>3. Leaves(H) = Leaves(J)
    BY <1>1, <2>1
  <2>4. now.leaves = stats.leaves /\ now.innernodes = stats.innernodes - 1 /\ now.itemcount = stats.itemcount
        /\ now = [itemcount |-> stats.itemcount, leaves |-> stats.leaves, innernodes |-> stats.innernodes - 1]
    BY <1>7
  <2>5. stats.innernodes - 1 \in Nat
    BY <1>3, <1>4, <2>2
  <2>6. now \in [itemcount : Nat, leaves : Nat, innernodes : Nat]
    BY <1>5, <2>4, <2>5
  <2>7. Counted(H, now, 1)
    BY <1>1, <1>4, <2>2, <2>3, <2>4 DEF Counted
  <2> QED
    BY <2>6, <2>7
<1> QED
  BY <1>6, <1>7

\* What EraseAbove goes on with.
Stats == [itemcount : Nat, leaves : Nat, innernodes : Nat]

\* What EraseAbove does to the nodes, after the child is gone: those of E are
\* empty now.
IsFixed(H, G, root, Q, E, l) ==
  /\ G \in Heaps /\ Shape(G, root, {}, E, Q) /\ Filled(G, E, root, 1) /\ Allocated(G) = Allocated(H)
  /\ Leaves(G) = Leaves(H) /\ InnerNodes(G) = InnerNodes(H) /\ Pairs(G) = Pairs(H) /\ Kept(H, G, l)

-----------------------------------------------------------------------------
(* The root is freed                                                       *)

\* c has one child x: apart from c the nodes are a tree below x.
LEMMA OnlyChild ==
  ASSUME NEW H \in Heaps, NEW c \in InnerNodes(H), c # NULL, NEW R, Tree(H, c, {}, R),
         Len(Kids(H, c)) = 1, NEW x, x = Kids(H, c)[1],
         NEW M, SameFrame(H, M, {c}), Kids(M, c) = <<>>
  PROVE  Tree(M, x, {c}, R) /\ x \in Allocated(H) /\ x # c
<1>a. PICK A, lv, K, X : A = Allocated(H) /\ lv = LevelsOf(H) /\ K = KidsOf(H) /\ X = {c}
  OBVIOUS
<1>1. Forest(A, lv, K, X, R)
  <2>1. ({c} \ {NULL}) \cup {} = {c}
    OBVIOUS
  <2> QED
    BY <1>a, <2>1, TreeIs
<1>2. c \in A /\ K[c] = Kids(H, c) /\ K[c] \in Seq(A) /\ DOMAIN K = A /\ Len(K[c]) = 1
  BY <1>1, <1>a, InnerNode, LevelAt, ForestTypes
<1>3. x \in A /\ K[c][1] = x /\ lv[x] = lv[c] - 1 /\ x \notin X
  <2>a. 1 \in 1 .. 1
    OBVIOUS
  <2>1. 1 \in 1 .. Len(K[c])
    BY <1>2, <2>a
  <2>2. K[c][1] \in A
    BY <1>1, <1>2, <2>1, ForestTypes
  <2>3. lv[K[c][1]] = lv[c] - 1 /\ K[c][1] \notin X
    BY <1>1, <1>2, <2>1 DEF Forest, ForestKids
  <2> QED
    BY <1>2, <2>2, <2>3
<1>4. \A n \in A : lv[n] \in Nat
  BY <1>1, ForestTypes
<1>5. Forest(A, lv, Put(K, c, <<>>), X \cup {x}, R)
  <2>1. PICK e, k : e = <<>> /\ k = K[c]
    OBVIOUS
  <2>2. e \in Seq(A) /\ Len(e) = 0 /\ Len(k) = 1
    BY <1>2, <2>1
  <2>3. 1 \in 1 .. Len(k) /\ Len(k) = Len(e) + 1
    BY <2>2
  <2>4. Inserted(e, k, 1, k[1])
    BY <2>2, <2>3 DEF Inserted
  <2>5. 1 \in 1 .. Len(K[c]) /\ Inserted(e, K[c], 1, K[c][1])
    BY <2>1, <2>3, <2>4
  <2>6. Forest(A, lv, Put(K, c, e), X \cup {K[c][1]}, R)
    BY <1>1, <1>2, <2>2, <2>5, Disown
  <2> QED
    BY <1>3, <2>1, <2>6
\* No other node is as high as x.
<1>6. \A n \in A : n = x \/ n \in {c} \/ lv[n] < lv[x]
  <2> SUFFICES ASSUME NEW n \in A, n # x, n # c
               PROVE  lv[n] < lv[x]
    OBVIOUS
  <2>1. \A m \in A : m = c \/ lv[m] < lv[c]
    <3>1. \A m \in Allocated(H) : m = c \/ m \in {} \/ H[m].level < H[c].level
      BY DEF Tree
    <3>2. \A m \in A : lv[m] = H[m].level
      BY <1>a, LevelAt
    <3> QED
      BY <1>2, <1>a, <3>1, <3>2
  <2>2. PICK p \in A : \E i \in 1 .. Len(K[p]) : K[p][i] = n
    BY <1>1, <1>a DEF Forest, HasParent
  <2>3. PICK i \in 1 .. Len(K[p]) : K[p][i] = n
    BY <2>2
  <2>4. lv[n] = lv[p] - 1
    BY <1>1, <2>3 DEF Forest, ForestKids
  <2>5. CASE p = c
    <3>a. i \in 1 .. 1
      BY <1>2, <2>5
    <3>1. i = 1
      BY <3>a
    <3> QED
      BY <1>3, <2>3, <2>5, <3>1
  <2>6. CASE p # c
    <3>1. lv[p] < lv[c] /\ lv[p] \in Nat /\ lv[c] \in Nat
      BY <1>2, <1>4, <2>1, <2>6
    <3> QED
      BY <1>3, <2>4, <3>1
  <2> QED
    BY <2>5, <2>6
<1>7. PICK L : L = Put(K, c, <<>>)
  OBVIOUS
<1>8. Allocated(M) = A /\ \A n \in A : M[n].level = lv[n] /\ Kids(M, n) = L[n]
  <2>1. L[c] = <<>> /\ \A n \in A \ {c} : L[n] = K[n]
    BY <1>2, <1>7, PutIs
  <2>2. \A n \in A \ {c} : n \in NodeId \ {c} /\ K[n] = Kids(H, n)
    BY <1>a, LevelAt DEF Allocated
  <2>3. \A n \in NodeId \ {c} : Kids(M, n) = Kids(H, n)
    BY DEF SameFrame
  <2>4. \A n \in A : lv[n] = H[n].level
    BY <1>a, LevelAt
  <2>5. Allocated(M) = A /\ \A n \in A : M[n].level = H[n].level
    BY <1>a DEF SameFrame
  <2>6. \A n \in A : Kids(M, n) = L[n]
    BY <2>1, <2>2, <2>3
  <2> QED
    BY <2>4, <2>5, <2>6
<1>9. x # NULL
  BY <1>3, <1>a, NodeIs
<1>10. Forest(A, lv, L, ({x} \ {NULL}) \cup {c}, R)
  <2>1. X \cup {x} = ({x} \ {NULL}) \cup {c}
    BY <1>9, <1>a
  <2> QED
    BY <1>5, <1>7, <2>1
<1>11. Tree(M, x, {c}, R)
  BY <1>3, <1>6, <1>8, <1>10, TreeFrom
<1> QED
  BY <1>3, <1>11, <1>a

IsRootGone(H, G, x, Q, c) ==
  /\ G \in Heaps /\ Shape(G, x, {}, {}, Q) /\ Filled(G, {}, x, 1) /\ x \in NodeId
  /\ Leaves(G) = Leaves(H) /\ InnerNodes(G) = InnerNodes(H) \ {c} /\ Pairs(G) = Pairs(H)

LEMMA RootGone ==
  ASSUME NEW H \in Heaps, NEW c \in InnerNodes(H), c # NULL, NEW R, Shape(H, c, {}, {}, R),
         Filled(H, {c}, c, 1), slotuse(H, c) = 0, NEW x, x = childid(H, c, 0),
         NEW G, G = [H EXCEPT ![c] = NULL], NEW Q, Q = OrderWithout(R, c)
  PROVE  IsRootGone(H, G, x, Q, c)
<1>1. /\ c \in NodeId /\ c \in Allocated(H) /\ ~isleafnode(H, c) /\ Kids(H, c) = H[c].child
      /\ Tree(H, c, {}, R) /\ NodesHold(H, {}) /\ Linked(H, {}, R)
  BY InnerNode DEF Shape
<1>2. Len(Kids(H, c)) = 1 /\ x = Kids(H, c)[1]
  <2>1. Len(Kids(H, c)) = slotuse(H, c) + 1
    BY <1>1 DEF NodesHold
  <2> QED
    BY <1>1, <2>1 DEF childid
<1>3. PICK e, f, M : e = <<>> /\ f = <<>> /\ M = [H EXCEPT ![c].keys = e, ![c].child = f]
  OBVIOUS
<1>4. SameFrame(H, M, {c}) /\ M[c].keys = <<>> /\ M[c].child = <<>>
  <2>1. e \in Seq(Key) /\ f \in Seq(NodeId)
    BY <1>3
  <2>2. Rewritten(H, M, c, e, f)
    BY <1>3 DEF Rewritten
  <2>3. SameFrame(H, M, {c}) /\ M[c].keys = e /\ M[c].child = f
    BY <2>1, <2>2, RewriteIs
  <2> QED
    BY <1>3, <2>3
<1>5. M \in Heaps /\ Kids(M, c) = <<>> /\ slotuse(M, c) = 0 /\ Allocated(M) = Allocated(H)
      /\ Leaves(M) = Leaves(H) /\ InnerNodes(M) = InnerNodes(H)
  <2>1. Len(<<>>) = 0
    OBVIOUS
  <2> QED
    BY <1>4, <2>1 DEF SameFrame
<1>6. Tree(M, x, {c}, R) /\ x \in Allocated(H) /\ x # c
  BY <1>1, <1>2, <1>4, <1>5, OnlyChild
<1>7. G = [M EXCEPT ![c] = NULL]
  <2>1. DOMAIN H = NodeId /\ DOMAIN M = NodeId
    BY <1>5 DEF Heaps
  <2>2. \A n \in NodeId \ {c} : M[n] = H[n]
    BY <1>3, <2>1
  <2> QED
    BY <2>1, <2>2, <1>3
<1>8. IsFreed(M, G, c)
  BY <1>1, <1>5, <1>7, FreedIs
<1>9. x # NULL /\ x \in NodeId
  BY <1>6, NodeIs
<1>10. Tree(G, x, {}, Q)
  BY <1>5, <1>6, <1>8, <1>9, FreedTree
<1>11. Linked(M, {c}, R) /\ Pairs(M) = Pairs(H)
  <2>1. Leaves(H) \ {} = Leaves(H) \ {c}
    BY <1>1 DEF Leaves
  <2> QED
    BY <1>1, <1>4, <2>1, FrameLinks
<1>12. R \in [Allocated(M) -> SUBSET Allocated(M)]
  <2>1. Forest(Allocated(H), LevelsOf(H), KidsOf(H), ({c} \ {NULL}) \cup {}, R)
    BY <1>1, TreeIs
  <2> QED
    BY <1>5, <2>1 DEF Forest, LevelOrder
<1>13. Linked(G, {}, Q) /\ Pairs(G) = Pairs(H)
  BY <1>5, <1>8, <1>11, <1>12, FreedLinks, FreedPairs
<1>14. /\ G \in Heaps /\ Allocated(G) = Allocated(H) \ {c}
       /\ Leaves(G) = Leaves(H) \ {c} /\ InnerNodes(G) = InnerNodes(H) \ {c}
  BY <1>5, <1>8 DEF IsFreed
<1>15. Leaves(G) = Leaves(H)
  BY <1>1, <1>14 DEF Leaves
<1>16. \A n \in Allocated(G) :
         /\ n \in Allocated(H) /\ n # c /\ slotuse(G, n) = slotuse(H, n) /\ Kids(G, n) = Kids(H, n)
         /\ isleafnode(G, n) <=> isleafnode(H, n)
  <2>1. \A n \in Allocated(G) : n \in Allocated(H) /\ n # c /\ n \in NodeId \ {c}
    BY <1>14 DEF Allocated
  <2>2. \A n \in NodeId \ {c} : G[n] = H[n]
    BY DEF Heaps
  <2> QED
    BY <2>1, <2>2 DEF slotuse, Kids, isleafnode
<1>17. NodesHold(G, {})
  BY <1>1, <1>16 DEF NodesHold
<1>18. Filled(G, {}, x, 1)
  <2> SUFFICES ASSUME NEW n \in Allocated(G)
               PROVE  slotuse(G, n) >= IF n # x THEN mininnerslots ELSE IF isleafnode(G, n) THEN 1 ELSE 1
    BY DEF Filled
  <2>1. n \in Allocated(H) \ {c} /\ slotuse(G, n) = slotuse(H, n)
    BY <1>16
  <2>2. slotuse(H, n) >= IF n # c THEN mininnerslots ELSE IF isleafnode(H, n) THEN 1 ELSE 1
    BY <2>1 DEF Filled
  <2>3. slotuse(H, n) >= mininnerslots /\ slotuse(H, n) \in Nat
    BY <2>1, <2>2, NodeIs
  <2> QED
    BY <2>1, <2>3, Sizes
<1>19. Shape(G, x, {}, {}, Q)
  BY <1>10, <1>13, <1>17 DEF Shape
<1> QED
  BY <1>9, <1>13, <1>14, <1>15, <1>18, <1>19 DEF IsRootGone

-----------------------------------------------------------------------------
(* Two inner nodes are merged, or one takes children from the other        *)

LEMMA NextInnersAre ==
  ASSUME NEW H \in Heaps, NEW root, root # NULL, NEW R, Shape(H, root, {}, {}, R),
         NEW p \in Allocated(H), H[p].level > 1, NEW s \in 0 .. slotuse(H, p), s < slotuse(H, p),
         NEW a, a = childid(H, p, s), NEW b, b = childid(H, p, s + 1)
  PROVE  NextInners(H, root, R, a, b)
<1>1. Tree(H, root, {}, R) /\ NodesHold(H, {})
  BY DEF Shape
<1>2. p \in Allocated(H) \ {} /\ H[p].level > 0 /\ slotuse(H, p) \in Nat /\ H[p].level \in Nat
  BY NodeIs
<1>3. a \in Allocated(H) /\ H[a].level = H[p].level - 1 /\ a # root
  BY <1>1, <1>2, ChildOf
<1>4. s + 1 \in 0 .. slotuse(H, p)
  BY <1>2
<1>5. PICK k : k = s + 1
  OBVIOUS
<1>6. b \in Allocated(H) /\ H[b].level = H[p].level - 1 /\ b # root
  BY <1>1, <1>2, <1>4, <1>5, ChildOf
<1>7. IsNext(Allocated(H), R, a, b)
  BY <1>1, <1>2, SiblingNext
<1>8. a \in InnerNodes(H) /\ b \in InnerNodes(H)
  <2>1. H[a].level > 0 /\ H[b].level > 0
    BY <1>2, <1>3, <1>6
  <2> QED
    BY <1>3, <1>6, <2>1 DEF InnerNodes, isleafnode
<1>9. a # b
  <2>1. Forest(Allocated(H), LevelsOf(H), KidsOf(H), ({root} \ {NULL}) \cup {}, R)
    BY <1>1, TreeIs
  <2>2. b \in R[a] => a \notin R[b]
    BY <1>3, <1>6, <2>1 DEF Forest, LevelOrder
  <2> QED
    BY <1>7, <2>2 DEF IsNext
<1> QED
  BY <1>3, <1>6, <1>7, <1>8, <1>9 DEF NextInners

\* What is written into the two; those of E get nothing.
GoodTwo(s, ka, ca, kb, cb, b, E) ==
  /\ ka \in Seq(Key) /\ kb \in Seq(Key) /\ ca \in Seq(NodeId) /\ cb \in Seq(NodeId)
  /\ Joins(s, ca, cb) /\ HalfFull(ka, ca)
  /\ (E = {} /\ HalfFull(kb, cb)) \/ (E = {b} /\ kb = <<>> /\ cb = <<>>)

\* The parts of a sequence have its elements.
LEMMA ElementsIn ==
  ASSUME NEW S, NEW A, NEW s \in Seq(S), s \in Seq(A), NEW l \in Seq(S), NEW r \in Seq(S),
         Joins(s, l, r)
  PROVE  l \in Seq(A) /\ r \in Seq(A)
<1>1. /\ \A j \in 1 .. Len(l) : j \in 1 .. Len(s) /\ s[j] = l[j]
      /\ \A j \in 1 .. Len(r) : j + Len(l) \in 1 .. Len(s) /\ s[j + Len(l)] = r[j]
  BY JoinsElements
<1>2. \A j \in 1 .. Len(s) : s[j] \in A
  OBVIOUS
<1>3. (\A j \in 1 .. Len(l) : l[j] \in A) /\ \A j \in 1 .. Len(r) : r[j] \in A
  BY <1>1, <1>2
<1> QED
  BY <1>3, SubsetSeq

\* The same children, taken together, in another cut.
LEMMA TwoTree ==
  ASSUME NEW H \in Heaps, NEW root, root # NULL, NEW R, Tree(H, root, {}, R),
         NEW a, NEW b, NextInners(H, root, R, a, b),
         NEW s, s = H[a].child \o H[b].child,
         NEW ca \in Seq(NodeId), NEW cb \in Seq(NodeId), Joins(s, ca, cb),
         NEW G, SameFrame(H, G, {a, b}), G[a].child = ca, G[b].child = cb
  PROVE  Tree(G, root, {}, R)
<1>a. PICK A, lv, K, X : A = Allocated(H) /\ lv = LevelsOf(H) /\ K = KidsOf(H) /\ X = {root}
  OBVIOUS
<1>1. /\ a \in InnerNodes(H) /\ b \in InnerNodes(H) /\ IsNext(A, R, a, b) /\ a # b
      /\ H[a].level = H[b].level
  BY <1>a DEF NextInners
<1>2. Forest(A, lv, K, X, R)
  <2>1. ({root} \ {NULL}) \cup {} = {root}
    OBVIOUS
  <2> QED
    BY <1>a, <2>1, TreeIs
<1>3. /\ a \in A /\ b \in A /\ Kids(H, a) = H[a].child /\ Kids(H, b) = H[b].child
      /\ H[a].child \in Seq(NodeId) /\ H[b].child \in Seq(NodeId)
  BY <1>1, <1>a, InnerNode
<1>4. PICK ka, kb : ka = K[a] /\ kb = K[b]
  OBVIOUS
<1>5. ka \in Seq(A) /\ kb \in Seq(A) /\ ka = H[a].child /\ kb = H[b].child /\ DOMAIN K = A
  <2>1. K[a] = Kids(H, a) /\ K[b] = Kids(H, b) /\ DOMAIN K = A
    BY <1>3, <1>a, LevelAt
  <2> QED
    BY <1>2, <1>3, <1>4, <2>1, ForestTypes
<1>6. s \in Seq(A) /\ Joins(s, ka, kb)
  BY <1>5, ConcatIs
<1>7. ca \in Seq(A) /\ cb \in Seq(A)
  <2>1. s \in Seq(NodeId)
    BY <1>3
  <2>2. PICK t : t = s
    OBVIOUS
  <2>3. t \in Seq(NodeId) /\ t \in Seq(A) /\ Joins(t, ca, cb)
    BY <2>1, <2>2, <1>6
  <2> QED
    BY <2>3, ElementsIn
<1>8. Forest(A, lv, Put(Put(K, a, ca), b, cb), X, R)
  BY <1>1, <1>2, <1>3, <1>4, <1>5, <1>6, <1>7, Exchange
<1>9. PICK L : L = Put(Put(K, a, ca), b, cb)
  OBVIOUS
<1>10. \A n \in Allocated(H) : Kids(G, n) = L[n]
  <2>1. L[a] = ca /\ L[b] = cb /\ \A n \in A \ {a, b} : L[n] = K[n]
    BY <1>1, <1>3, <1>5, <1>9 DEF Put
  <2>2. Kids(G, a) = ca /\ Kids(G, b) = cb /\ \A n \in NodeId \ {a, b} : Kids(G, n) = Kids(H, n)
    BY DEF SameFrame
  <2>3. \A n \in A : n \in NodeId /\ K[n] = Kids(H, n)
    BY <1>a, LevelAt DEF Allocated
  <2> QED
    BY <1>a, <2>1, <2>2, <2>3
<1>11. X = ({root} \ {NULL}) \cup {}
  BY <1>a
<1>12. Forest(Allocated(H), LevelsOf(H), L, ({root} \ {NULL}) \cup {}, R)
  BY <1>8, <1>9, <1>11, <1>a
<1>13. \A n \in {} \ {} : H[n].level < H[root].level
  OBVIOUS
<1> QED
  BY <1>10, <1>12, <1>13, FrameTree

LEMMA InnerTwo ==
  ASSUME NEW H \in Heaps, NEW root, root # NULL, NEW R, Shape(H, root, {}, {}, R),
         NEW a, NEW b, NextInners(H, root, R, a, b),
         NEW F, F \subseteq {a, b}, Filled(H, F, root, 1),
         NEW s, s = H[a].child \o H[b].child, NEW E,
         NEW ka, NEW ca, NEW kb, NEW cb, GoodTwo(s, ka, ca, kb, cb, b, E),
         NEW G, RewrittenTwo(H, G, a, b, ka, ca, kb, cb), NEW l, l = H[a].level
  PROVE  IsFixed(H, G, root, R, E, l)
<1>1. a \in InnerNodes(H) /\ b \in InnerNodes(H) /\ a # b /\ H[a].level = l /\ H[b].level = l
  BY DEF NextInners
<1>2. /\ ka \in Seq(Key) /\ kb \in Seq(Key) /\ ca \in Seq(NodeId) /\ cb \in Seq(NodeId)
      /\ Joins(s, ca, cb) /\ HalfFull(ka, ca)
      /\ (E = {} /\ HalfFull(kb, cb)) \/ (E = {b} /\ kb = <<>> /\ cb = <<>>)
  BY DEF GoodTwo
<1>3. Tree(H, root, {}, R) /\ NodesHold(H, {}) /\ Linked(H, {}, R)
  BY DEF Shape
<1>4. SameFrame(H, G, {a, b}) /\ G[a].keys = ka /\ G[a].child = ca /\ G[b].keys = kb /\ G[b].child = cb
  <2>1. IsTwo(H, G, a, b, ka, ca, kb, cb)
    BY <1>1, <1>2, RewriteTwoIs
  <2> QED
    BY <2>1 DEF IsTwo
<1>5. Tree(G, root, {}, R)
  BY <1>2, <1>3, <1>4, TwoTree
<1>6. PICK D : D = {a, b}
  OBVIOUS
<1>7. SameFrame(H, G, D) /\ E \subseteq D /\ {} \subseteq D /\ E \subseteq {b}
  BY <1>2, <1>4, <1>6
<1>8. \A n \in D \ E : HalfFull(G[n].keys, G[n].child)
  BY <1>2, <1>4, <1>6
<1>9. NodesHold(G, E)
  <2>1. \A n \in D \ E : Len(G[n].keys) <= innerslotmax /\ Len(G[n].child) = Len(G[n].keys) + 1
    BY <1>8 DEF HalfFull
  <2>2. \A n \in E : G[n].keys = <<>> /\ G[n].child = <<>>
    BY <1>2, <1>4
  <2> QED
    BY <1>3, <1>7, <2>1, <2>2, FrameHolds
<1>10. Filled(G, E, root, 1)
  <2>1. Filled(H, D, root, 1)
    BY <1>6 DEF Filled
  <2>2. \A n \in D \ E : Len(G[n].keys) >= IF n # root THEN mininnerslots ELSE 1
    <3>1. ASSUME NEW n \in D \ E PROVE Len(G[n].keys) >= IF n # root THEN mininnerslots ELSE 1
      <4>1. G[n].keys \in Seq(Key)
        BY <1>2, <1>4, <1>6
      <4>2. Len(G[n].keys) >= mininnerslots
        BY <1>8, <3>1 DEF HalfFull
      <4>3. n # root
        BY <1>6, <3>1 DEF NextInners
      <4> QED
        BY <4>2, <4>3
    <3> QED
      BY <3>1
  <2>3. root = root \/ (root = NULL /\ root \in D)
    OBVIOUS
  <2> QED
    BY <1>7, <2>1, <2>2, <2>3, FrameFilled
<1>11. Linked(G, E, R) /\ Pairs(G) = Pairs(H)
  <2>1. Leaves(H) \ {} = Leaves(H) \ E
    <3>1. b \notin Leaves(H)
      BY <1>1 DEF Leaves, InnerNodes
    <3> QED
      BY <1>7, <3>1
  <2> QED
    BY <1>3, <1>7, <2>1, FrameLinks
<1>12. Kept(H, G, l)
  <2>1. \A n \in D : H[n].level = l
    BY <1>1, <1>6
  <2> QED
    BY <1>7, <2>1, FrameKept
<1>13. Shape(G, root, {}, E, R)
  BY <1>5, <1>9, <1>11 DEF Shape
<1>14. G \in Heaps /\ Allocated(G) = Allocated(H) /\ Leaves(G) = Leaves(H) /\ InnerNodes(G) = InnerNodes(H)
  BY <1>7 DEF SameFrame
<1> QED
  BY <1>10, <1>11, <1>12, <1>13, <1>14 DEF IsFixed

LEMMA FixedRekeyed ==
  ASSUME NEW H \in Heaps, NEW M, NEW root, root # NULL, NEW R, NEW l \in Nat,
         IsFixed(H, M, root, R, {}, l), NEW G \in Heaps, Rekeyed(M, G)
  PROVE  IsFixed(H, G, root, R, {}, l)
<1>1. /\ M \in Heaps /\ Shape(M, root, {}, {}, R) /\ Filled(M, {}, root, 1)
      /\ Allocated(M) = Allocated(H) /\ Leaves(M) = Leaves(H) /\ InnerNodes(M) = InnerNodes(H)
      /\ Pairs(M) = Pairs(H) /\ Kept(H, M, l)
  BY DEF IsFixed
<1>2. root \in Allocated(M)
  BY <1>1, RootIs DEF Shape
<1>3. Shape(G, root, {}, {}, R) /\ Filled(G, {}, root, 1) /\ Pairs(G) = Pairs(M)
  <2>1. Shape(G, root, {}, {}, R)
    BY <1>1, <1>2, RekeyedShape
  <2> QED
    BY <1>1, <2>1, RekeyedKeeps
<1>4. SameNodes(M, G)
  BY DEF Rekeyed
<1>5. Allocated(G) = Allocated(M) /\ Leaves(G) = Leaves(M) /\ InnerNodes(G) = InnerNodes(M)
  BY <1>4, SameKinds DEF SameNodes
<1>6. Kept(H, G, l)
  <2>1. Kept(M, G, l) /\ l \in Int
    BY KeptRekeyed
  <2>2. \A n \in Allocated(H) : H[n].level \in Int
    BY NodeIs
  <2> QED
    BY <1>1, <2>1, <2>2, KeptTwice
<1> QED
  BY <1>1, <1>3, <1>5, <1>6 DEF IsFixed

LEMMA MergeInnerIs ==
  ASSUME NEW H \in Heaps, NEW root, root # NULL, NEW R, Shape(H, root, {}, {}, R),
         NEW a, NEW b, NextInners(H, root, R, a, b),
         NEW F, F \subseteq {a, b}, Filled(H, F, root, 1),
         (slotuse(H, a) + slotuse(H, b)) + 1 \in mininnerslots .. innerslotmax,
         NEW p, NEW slot, slotkey(H, p, slot) \in Key, NEW G, G = merge_inner(H, a, b, p, slot),
         NEW l, l = H[a].level
  PROVE  IsFixed(H, G, root, R, {b}, l)
<1>a. PICK x, y, c, d, k : /\ x = H[a].keys /\ y = H[b].keys /\ c = H[a].child /\ d = H[b].child
                           /\ k = slotkey(H, p, slot)
  OBVIOUS
<1>b. PICK ka, ca, kb, cb : ka = Append(x, k) \o y /\ ca = c \o d /\ kb = <<>> /\ cb = <<>>
  OBVIOUS
<1>1. /\ x \in Seq(Key) /\ y \in Seq(Key) /\ c \in Seq(NodeId) /\ d \in Seq(NodeId)
      /\ Len(x) = slotuse(H, a) /\ Len(y) = slotuse(H, b)
      /\ Len(c) = Len(x) + 1 /\ Len(d) = Len(y) + 1
      /\ slotuse(H, a) \in 0 .. innerslotmax /\ slotuse(H, b) \in 0 .. innerslotmax
      /\ a \in NodeId /\ b \in NodeId /\ DOMAIN H = NodeId
      /\ H[a] \in Inner /\ H[b] \in Inner /\ a # b
  <2>1. AreTwo(H, a, b, x, y, c, d)
    BY <1>a, TwoInners
  <2> QED
    BY <2>1 DEF AreTwo
<1>2. ka \in Seq(Key) /\ Len(ka) = (Len(x) + Len(y)) + 1
  <2>1. k \in Key /\ x \in Seq(Key) /\ y \in Seq(Key) /\ ka = Append(x, k) \o y
    BY <1>1, <1>a, <1>b
  <2> QED
    BY <2>1, KeyBetween
<1>3. ca \in Seq(NodeId) /\ Len(ca) = Len(c) + Len(d)
  BY <1>1, <1>b, ConcatIs DEF Joins
<1>4. PICK s : s = H[a].child \o H[b].child
  OBVIOUS
<1>5. s = ca
  BY <1>4, <1>a, <1>b
<1>6. kb \in Seq(Key) /\ cb \in Seq(NodeId) /\ Len(cb) = 0 /\ kb = <<>> /\ cb = <<>>
  BY <1>b
<1>7. Joins(s, ca, cb)
  BY <1>3, <1>5, <1>6 DEF Joins
<1>8. HalfFull(ka, ca)
  <2>1. Len(ka) \in mininnerslots .. innerslotmax
    BY <1>1, <1>2
  <2>2. Len(ca) = Len(ka) + 1
    BY <1>1, <1>2, <1>3
  <2> QED
    BY <2>1, <2>2 DEF HalfFull
<1>9. PICK E : E = {b}
  OBVIOUS
<1>10. GoodTwo(s, ka, ca, kb, cb, b, E)
  BY <1>2, <1>3, <1>6, <1>7, <1>8, <1>9 DEF GoodTwo
<1>11. RewrittenTwo(H, G, a, b, ka, ca, kb, cb)
  <2>1. G = [H EXCEPT ![a].keys = Append(@, k) \o H[b].keys,
                      ![a].child = @ \o H[b].child, ![b].keys = <<>>, ![b].child = <<>>]
    BY <1>a DEF merge_inner
  <2>2. G = [H EXCEPT ![a].keys = ka, ![a].child = ca, ![b].keys = kb, ![b].child = cb]
    BY <1>1, <1>a, <1>b, <2>1 DEF Inner
  <2> QED
    BY <2>2 DEF RewrittenTwo
<1>12. IsFixed(H, G, root, R, E, l)
  BY <1>4, <1>10, <1>11, InnerTwo
<1> QED
  BY <1>9, <1>12

\* A shift among inner nodes leaves a tree that is in order.
LEMMA ShiftedInnersFixed ==
  ASSUME NEW H \in Heaps, NEW root, root # NULL, NEW R, Shape(H, root, {}, {}, R),
         NEW a, NEW b, NextInners(H, root, R, a, b),
         NEW F, F \subseteq {a, b}, Filled(H, F, root, 1),
         NEW s, s = H[a].child \o H[b].child,
         NEW ka \in Seq(Key), NEW ca \in Seq(NodeId), NEW kb \in Seq(Key), NEW cb \in Seq(NodeId),
         Joins(s, ca, cb), HalfFull(ka, ca), HalfFull(kb, cb),
         NEW M, RewrittenTwo(H, M, a, b, ka, ca, kb, cb), NEW l \in Nat, l = H[a].level,
         NEW p \in Allocated(H), H[p].level > 0, NEW k \in Key, NEW slot,
         NEW G, G = SetKey(M, p, slot, k)
  PROVE  IsFixed(H, G, root, R, {}, l)
<1>1. PICK E : E = {}
  OBVIOUS
<1>2. GoodTwo(s, ka, ca, kb, cb, b, E)
  BY <1>1 DEF GoodTwo
<1>3. IsFixed(H, M, root, R, E, l)
  BY <1>2, InnerTwo
<1>4. IsFixed(H, M, root, R, {}, l)
  BY <1>1, <1>3
<1>5. M \in Heaps /\ Allocated(M) = Allocated(H) /\ InnerNodes(M) = InnerNodes(H)
  BY <1>4 DEF IsFixed
<1>6. p \in InnerNodes(H)
  <2>1. ~isleafnode(H, p)
    BY DEF isleafnode
  <2> QED
    BY <2>1 DEF InnerNodes
<1>7. p \in Allocated(M) /\ M[p].level > 0
  BY <1>5, <1>6, InnerNode
<1>8. G \in Heaps /\ Rekeyed(M, G)
  BY <1>5, <1>7, SetKeyIs
<1> QED
  BY <1>4, <1>8, FixedRekeyed

\* What both nodes get in a shift.
GoodCut(s, ka, ca, kb, cb) ==
  /\ ka \in Seq(Key) /\ kb \in Seq(Key) /\ ca \in Seq(NodeId) /\ cb \in Seq(NodeId)
  /\ Joins(s, ca, cb) /\ HalfFull(ka, ca) /\ HalfFull(kb, cb)

\* Keys y1 go behind x and the key between them, children d1 behind c.
LEMMA JoinForLeft ==
  ASSUME NEW x \in Seq(Key), NEW y1 \in Seq(Key), NEW kb \in Seq(Key),
         NEW c \in Seq(NodeId), NEW d \in Seq(NodeId), NEW d1 \in Seq(NodeId), NEW cb \in Seq(NodeId),
         Joins(d, d1, cb), NEW k \in Key,
         Len(c) = Len(x) + 1, Len(d1) = Len(y1) + 1, Len(cb) = Len(kb) + 1,
         Len(x) + Len(d1) \in mininnerslots .. innerslotmax, Len(kb) \in mininnerslots .. innerslotmax
  PROVE  GoodCut(c \o d, Append(x, k) \o y1, c \o d1, kb, cb)
<1>1. PICK s, ka, ca : s = c \o d /\ ka = Append(x, k) \o y1 /\ ca = c \o d1
  OBVIOUS
<1>2. s \in Seq(NodeId) /\ Joins(s, c, d)
  BY <1>1, ConcatIs
<1>3. ca \in Seq(NodeId) /\ Len(ca) = Len(c) + Len(d1)
  BY <1>1, ConcatIs DEF Joins
<1>4. ka \in Seq(Key) /\ Len(ka) = (Len(x) + Len(y1)) + 1
  BY <1>1, KeyBetween
<1>5. Joins(s, ca, cb)
  BY <1>1, <1>2, JoinOnLeft
<1>6. Len(ka) = Len(x) + Len(d1) /\ Len(ca) = Len(ka) + 1
  BY <1>3, <1>4
<1>7. HalfFull(ka, ca) /\ HalfFull(kb, cb)
  BY <1>6 DEF HalfFull
<1>8. GoodCut(s, ka, ca, kb, cb)
  BY <1>3, <1>4, <1>5, <1>7 DEF GoodCut
<1> QED
  BY <1>1, <1>8

LEMMA JoinForRight ==
  ASSUME NEW y \in Seq(Key), NEW x2 \in Seq(Key), NEW ka \in Seq(Key),
         NEW c \in Seq(NodeId), NEW d \in Seq(NodeId), NEW c2 \in Seq(NodeId), NEW ca \in Seq(NodeId),
         Joins(c, ca, c2), NEW k \in Key,
         Len(d) = Len(y) + 1, Len(c2) = Len(x2) + 1, Len(ca) = Len(ka) + 1,
         Len(y) + Len(c2) \in mininnerslots .. innerslotmax, Len(ka) \in mininnerslots .. innerslotmax
  PROVE  GoodCut(c \o d, ka, ca, Append(x2, k) \o y, c2 \o d)
<1>1. PICK s, kb, cb : s = c \o d /\ kb = Append(x2, k) \o y /\ cb = c2 \o d
  OBVIOUS
<1>2. s \in Seq(NodeId) /\ Joins(s, c, d)
  BY <1>1, ConcatIs
<1>3. cb \in Seq(NodeId) /\ Len(cb) = Len(c2) + Len(d)
  BY <1>1, ConcatIs DEF Joins
<1>4. kb \in Seq(Key) /\ Len(kb) = (Len(x2) + Len(y)) + 1
  BY <1>1, KeyBetween
<1>5. Joins(s, ca, cb)
  BY <1>1, <1>2, JoinOnRight
<1>6. Len(kb) = Len(y) + Len(c2) /\ Len(cb) = Len(kb) + 1
  BY <1>3, <1>4
<1>7. HalfFull(ka, ca) /\ HalfFull(kb, cb)
  BY <1>6 DEF HalfFull
<1>8. GoodCut(s, ka, ca, kb, cb)
  BY <1>3, <1>4, <1>5, <1>7 DEF GoodCut
<1> QED
  BY <1>1, <1>8

\* From one that can spare a slot to one that is a slot short.
LEMMA ShiftLeftInnerIs ==
  ASSUME NEW H \in Heaps, NEW root, root # NULL, NEW R, Shape(H, root, {}, {}, R),
         NEW a, NEW b, NextInners(H, root, R, a, b),
         NEW F, F \subseteq {a, b}, Filled(H, F, root, 1),
         slotuse(H, a) + 1 = mininnerslots, ~isfew(H, b),
         NEW p \in Allocated(H), H[p].level > 0, NEW slot, slotkey(H, p, slot) \in Key,
         NEW G, G = shift_left_inner(H, a, b, p, slot), NEW l \in Nat, l = H[a].level
  PROVE  IsFixed(H, G, root, R, {}, l)
<1>a. PICK x, y, c, d, k : /\ x = H[a].keys /\ y = H[b].keys /\ c = H[a].child /\ d = H[b].child
                           /\ k = slotkey(H, p, slot)
  OBVIOUS
<1>n. PICK n, u, v : n = ShiftNum(H, b, a) /\ u = slotuse(H, a) /\ v = slotuse(H, b)
  OBVIOUS
<1>b. PICK y1, d1, kb, cb : /\ y1 = SubSeq(y, 1, n - 1) /\ d1 = SubSeq(d, 1, n)
                            /\ kb = SubSeq(y, n + 1, Len(y)) /\ cb = SubSeq(d, n + 1, Len(d))
  OBVIOUS
<1>c. PICK s, ka, ca : s = c \o d /\ ka = Append(x, k) \o y1 /\ ca = c \o d1
  OBVIOUS
<1>1. AreTwo(H, a, b, x, y, c, d)
  BY <1>a, TwoInners
<1>2. /\ x \in Seq(Key) /\ y \in Seq(Key) /\ c \in Seq(NodeId) /\ d \in Seq(NodeId)
      /\ Len(x) = u /\ Len(y) = v /\ Len(c) = u + 1 /\ Len(d) = v + 1
      /\ u \in Nat /\ v \in Nat /\ v <= innerslotmax /\ ~isleafnode(H, b)
      /\ a \in NodeId /\ b \in NodeId /\ DOMAIN H = NodeId
      /\ H[a] \in Inner /\ H[b] \in Inner /\ a # b /\ b \in Allocated(H)
  BY <1>1, <1>n DEF AreTwo
<1>3. n \in 1 .. v /\ n < v /\ u + n \in mininnerslots .. innerslotmax /\ v - n \in mininnerslots .. innerslotmax
  <2>1. n = (v - u) \div 2
    BY <1>n DEF ShiftNum
  <2>2. v >= mininnerslots + 1
    BY <1>2, <1>n, Sizes DEF isfew
  <2>3. u + 1 = mininnerslots
    BY <1>n
  <2> QED
    BY <1>2, <2>1, <2>2, <2>3, Sizes, ShiftCounts
<1>4. n - 1 \in 0 .. Len(y) /\ n \in 0 .. Len(y) /\ n \in 0 .. Len(d) /\ n \in Nat
  BY <1>2, <1>3
<1>5. y1 \in Seq(Key) /\ Len(y1) = n - 1
  BY <1>2, <1>4, <1>b, CutIs
<1>6. kb \in Seq(Key) /\ Len(kb) = v - n
  BY <1>2, <1>4, <1>b, CutIs
<1>7. /\ d1 \in Seq(NodeId) /\ cb \in Seq(NodeId) /\ Len(d1) = n /\ Len(cb) = (v + 1) - n
      /\ Joins(d, d1, cb)
  BY <1>2, <1>4, <1>b, CutIs
<1>8. k \in Key /\ slotkey(H, b, n - 1) \in Key
  <2>1. n - 1 \in 0 .. slotuse(H, b) - 1
    BY <1>2, <1>3, <1>n
  <2> QED
    BY <1>2, <1>a, <2>1, SlotKey
<1>9. GoodCut(s, ka, ca, kb, cb)
  <2>1. /\ Len(d1) = Len(y1) + 1 /\ Len(cb) = Len(kb) + 1 /\ Len(c) = Len(x) + 1
        /\ Len(x) + Len(d1) \in mininnerslots .. innerslotmax
        /\ Len(kb) \in mininnerslots .. innerslotmax
    BY <1>2, <1>3, <1>4, <1>5, <1>6, <1>7
  <2> QED
    BY <1>2, <1>5, <1>6, <1>7, <1>8, <1>c, <2>1, JoinForLeft
<1>10. PICK M, z : M = [H EXCEPT ![a].keys = ka, ![a].child = ca, ![b].keys = kb, ![b].child = cb]
                   /\ z = slotkey(H, b, n - 1)
  OBVIOUS
<1>11. G = SetKey(M, p, slot, z)
  <2>1. PICK N : N = [H EXCEPT ![a].keys = Append(@, slotkey(H, p, slot)) \o SubSeq(H[b].keys, 1, n - 1),
                               ![a].child = @ \o SubSeq(H[b].child, 1, n),
                               ![b].keys = SubSeq(@, n + 1, Len(@)),
                               ![b].child = SubSeq(@, n + 1, Len(@))]
    OBVIOUS
  <2>2. G = SetKey(N, p, slot, slotkey(H, b, n - 1))
    BY <1>n, <2>1 DEF shift_left_inner
  <2>3. N = M
    BY <1>2, <1>a, <1>b, <1>c, <1>10, <2>1 DEF Inner
  <2> QED
    BY <1>10, <2>2, <2>3
<1>12. RewrittenTwo(H, M, a, b, ka, ca, kb, cb)
  BY <1>10 DEF RewrittenTwo
<1>13. /\ ka \in Seq(Key) /\ kb \in Seq(Key) /\ ca \in Seq(NodeId) /\ cb \in Seq(NodeId)
       /\ Joins(s, ca, cb) /\ HalfFull(ka, ca) /\ HalfFull(kb, cb)
  BY <1>9 DEF GoodCut
<1>14. s = H[a].child \o H[b].child /\ z \in Key
  BY <1>8, <1>10, <1>a, <1>c
<1> QED
  BY <1>11, <1>12, <1>13, <1>14, ShiftedInnersFixed

LEMMA ShiftRightInnerIs ==
  ASSUME NEW H \in Heaps, NEW root, root # NULL, NEW R, Shape(H, root, {}, {}, R),
         NEW a, NEW b, NextInners(H, root, R, a, b),
         NEW F, F \subseteq {a, b}, Filled(H, F, root, 1),
         slotuse(H, b) + 1 = mininnerslots, ~isfew(H, a),
         NEW p \in Allocated(H), H[p].level > 0, NEW slot, slotkey(H, p, slot) \in Key,
         NEW G, G = shift_right_inner(H, a, b, p, slot), NEW l \in Nat, l = H[a].level
  PROVE  IsFixed(H, G, root, R, {}, l)
<1>a. PICK x, y, c, d, k : /\ x = H[a].keys /\ y = H[b].keys /\ c = H[a].child /\ d = H[b].child
                           /\ k = slotkey(H, p, slot)
  OBVIOUS
<1>n. PICK n, u, v : n = ShiftNum(H, a, b) /\ u = slotuse(H, b) /\ v = slotuse(H, a)
  OBVIOUS
<1>k. PICK keep, m : keep = v - n /\ m = keep + 1
  OBVIOUS
<1>b. PICK ka, ca, x2, c2 : /\ ka = SubSeq(x, 1, keep) /\ ca = SubSeq(c, 1, m)
                            /\ x2 = SubSeq(x, m + 1, Len(x)) /\ c2 = SubSeq(c, m + 1, Len(c))
  OBVIOUS
<1>c. PICK s, kb, cb : s = c \o d /\ kb = Append(x2, k) \o y /\ cb = c2 \o d
  OBVIOUS
<1>1. AreTwo(H, a, b, x, y, c, d)
  BY <1>a, TwoInners
<1>2. /\ x \in Seq(Key) /\ y \in Seq(Key) /\ c \in Seq(NodeId) /\ d \in Seq(NodeId)
      /\ Len(x) = v /\ Len(y) = u /\ Len(c) = v + 1 /\ Len(d) = u + 1
      /\ u \in Nat /\ v \in Nat /\ v <= innerslotmax /\ ~isleafnode(H, a)
      /\ a \in NodeId /\ b \in NodeId /\ DOMAIN H = NodeId
      /\ H[a] \in Inner /\ H[b] \in Inner /\ a # b /\ a \in Allocated(H)
  BY <1>1, <1>n DEF AreTwo
<1>3. n \in 1 .. v /\ n < v /\ u + n \in mininnerslots .. innerslotmax /\ v - n \in mininnerslots .. innerslotmax
  <2>1. n = (v - u) \div 2
    BY <1>n DEF ShiftNum
  <2>2. v >= mininnerslots + 1
    BY <1>2, <1>n, Sizes DEF isfew
  <2>3. u + 1 = mininnerslots
    BY <1>n
  <2> QED
    BY <1>2, <2>1, <2>2, <2>3, Sizes, ShiftCounts
<1>4. /\ keep \in 0 .. Len(x) /\ m \in 0 .. Len(x) /\ m \in 0 .. Len(c)
      /\ keep \in Nat /\ keep < v /\ keep + 1 = m /\ keep + 2 = m + 1 /\ v - m = n - 1 /\ (v + 1) - m = n
  BY <1>2, <1>3, <1>k
<1>5. ka \in Seq(Key) /\ Len(ka) = keep
  BY <1>2, <1>4, <1>b, CutIs
<1>6. x2 \in Seq(Key) /\ Len(x2) = v - m
  BY <1>2, <1>4, <1>b, CutIs
<1>7. /\ ca \in Seq(NodeId) /\ c2 \in Seq(NodeId) /\ Len(ca) = m /\ Len(c2) = (v + 1) - m
      /\ Joins(c, ca, c2)
  <2>1. /\ ca \in Seq(NodeId) /\ c2 \in Seq(NodeId) /\ Len(ca) = m /\ Len(c2) = Len(c) - m
        /\ Joins(c, ca, c2)
    <3>1. c \in Seq(NodeId) /\ m \in 0 .. Len(c)
      BY <1>2, <1>4
    <3> QED
      BY <3>1, <1>b, CutIs
  <2> QED
    BY <1>2, <2>1
<1>8. k \in Key /\ slotkey(H, a, keep) \in Key
  <2>1. keep \in 0 .. slotuse(H, a) - 1
    BY <1>2, <1>4, <1>n
  <2> QED
    BY <1>2, <1>a, <2>1, SlotKey
<1>9. GoodCut(s, ka, ca, kb, cb)
  <2>1. /\ Len(c2) = Len(x2) + 1 /\ Len(ca) = Len(ka) + 1 /\ Len(d) = Len(y) + 1
        /\ Len(y) + Len(c2) \in mininnerslots .. innerslotmax
        /\ Len(ka) \in mininnerslots .. innerslotmax
    BY <1>2, <1>3, <1>4, <1>5, <1>6, <1>7, <1>k
  <2> QED
    BY <1>2, <1>5, <1>6, <1>7, <1>8, <1>c, <2>1, JoinForRight
<1>10. PICK M, z : M = [H EXCEPT ![a].keys = ka, ![a].child = ca, ![b].keys = kb, ![b].child = cb]
                   /\ z = slotkey(H, a, keep)
  OBVIOUS
<1>11. G = SetKey(M, p, slot, z)
  <2>1. PICK N : N = [H EXCEPT ![a].keys = SubSeq(@, 1, keep),
                               ![a].child = SubSeq(@, 1, keep + 1),
                               ![b].keys = Append(SubSeq(H[a].keys, keep + 2, Len(H[a].keys)),
                                                  slotkey(H, p, slot)) \o @,
                               ![b].child = SubSeq(H[a].child, keep + 2, Len(H[a].child)) \o @]
    OBVIOUS
  <2>2. G = SetKey(N, p, slot, slotkey(H, a, keep))
    BY <1>n, <1>k, <2>1 DEF shift_right_inner
  <2>3. N = M
    BY <1>2, <1>4, <1>a, <1>b, <1>c, <1>10, <2>1 DEF Inner
  <2> QED
    BY <1>10, <2>2, <2>3
<1>12. RewrittenTwo(H, M, a, b, ka, ca, kb, cb)
  BY <1>10 DEF RewrittenTwo
<1>13. /\ ka \in Seq(Key) /\ kb \in Seq(Key) /\ ca \in Seq(NodeId) /\ cb \in Seq(NodeId)
       /\ Joins(s, ca, cb) /\ HalfFull(ka, ca) /\ HalfFull(kb, cb)
  BY <1>9 DEF GoodCut
<1>14. s = H[a].child \o H[b].child /\ z \in Key
  BY <1>8, <1>10, <1>a, <1>c
<1> QED
  BY <1>11, <1>12, <1>13, <1>14, ShiftedInnersFixed

\* A neighbour under the same parent.
LEMMA NeighbourFilled ==
  ASSUME NEW H \in Heaps, NEW root, root # NULL, NEW R, NEW a, NEW b, NextInners(H, root, R, a, b),
         NEW F, Filled(H, F, root, 1), NEW c \in {a, b}, c \notin F
  PROVE  /\ slotuse(H, c) >= mininnerslots /\ slotuse(H, c) \in Nat
         /\ isfew(H, c) => slotuse(H, c) = mininnerslots
<1>1. c \in InnerNodes(H) /\ c # root
  BY DEF NextInners
<1>2. c \in Allocated(H) /\ ~isleafnode(H, c) /\ slotuse(H, c) \in Nat
  BY <1>1, InnerNode
<1>3. slotuse(H, c) >= IF c # root THEN mininnerslots ELSE IF isleafnode(H, c) THEN 1 ELSE 1
  BY <1>2 DEF Filled
<1>4. slotuse(H, c) >= mininnerslots
  BY <1>1, <1>3
<1>5. isfew(H, c) => slotuse(H, c) <= mininnerslots
  BY <1>2 DEF isfew
<1> QED
  BY <1>2, <1>4, <1>5, Sizes

\* A merge of one that is a slot short with one that has none to spare.
LEMMA InnerMergeCounts ==
  ASSUME NEW u \in Nat, u + 1 = mininnerslots
  PROVE  /\ (u + mininnerslots) + 1 \in mininnerslots .. innerslotmax
         /\ (mininnerslots + u) + 1 \in mininnerslots .. innerslotmax
BY Sizes DEF mininnerslots

-----------------------------------------------------------------------------
(* No node is left                                                         *)

LEMMA NoNodes ==
  /\ Cardinality({}) = 0
  /\ \A Q : Q = [n \in {} |-> {}] => \A G : Allocated(G) = {} =>
       /\ Shape(G, NULL, {}, {}, Q) /\ Filled(G, {}, NULL, 1)
       /\ Counted(G, [itemcount |-> 0, leaves |-> 0, innernodes |-> 0], 0)
<1>1. Cardinality({}) = 0
  BY FS_EmptySet
<1>2. ASSUME NEW Q, Q = [n \in {} |-> {}], NEW G, Allocated(G) = {}
      PROVE  /\ Shape(G, NULL, {}, {}, Q) /\ Filled(G, {}, NULL, 1)
             /\ Counted(G, [itemcount |-> 0, leaves |-> 0, innernodes |-> 0], 0)
  <2>1. IsEmptyTree(G, Q)
    BY <1>2, EmptyTree
  <2> QED
    BY <1>1, <2>1 DEF IsEmptyTree, Counted
<1> QED
  BY <1>1, <1>2

-----------------------------------------------------------------------------
(* Frames and the neighbours they name                                     *)

Capacity(H, n) ==
  /\ slotuse(H, n) <= IF isleafnode(H, n) THEN leafslotmax ELSE innerslotmax
  /\ ~isleafnode(H, n) => Len(H[n].child) \in {slotuse(H, n) + 1, 0}

LEMMA CapacityIs ==
  ASSUME NEW H \in Heaps, NEW E, NodesHold(H, E), NEW n \in Allocated(H)
  PROVE  Capacity(H, n)
<1>1. ~isleafnode(H, n) => Kids(H, n) = H[n].child
  BY DEF Kids
<1>2. CASE n \in E
  <2>1. slotuse(H, n) = 0 /\ Kids(H, n) = <<>>
    BY <1>2 DEF NodesHold
  <2>2. Len(Kids(H, n)) = 0
    BY <2>1
  <2> QED
    BY <1>1, <2>1, <2>2, Sizes DEF Capacity
<1>3. CASE n \notin E
  BY <1>1, <1>3 DEF NodesHold, Capacity
<1> QED
  BY <1>2, <1>3

\* What SiblingsStillAdjacent says of a frame.
Adjacent(H, f) ==
  /\ f.curr \in Allocated(H)
  /\ {f.left, f.right, f.parent, f.leftparent, f.rightparent} \subseteq Allocated(H) \cup {NULL}
  /\ f.parent # NULL =>
       /\ childid(H, f.parent, f.parentslot) = f.curr
       /\ f.leftparent = f.parent => childid(H, f.parent, f.parentslot - 1) = f.left
       /\ f.rightparent = f.parent => childid(H, f.parent, f.parentslot + 1) = f.right
       /\ f.leftparent = f.parent \/ f.rightparent = f.parent
  /\ f.left # NULL => H[f.left].level = H[f.curr].level
  /\ f.right # NULL => H[f.right].level = H[f.curr].level
  /\ isleafnode(H, f.curr) /\ f.left # NULL /\ f.leftparent = f.parent =>
       H[f.left].next = f.curr
  /\ isleafnode(H, f.curr) /\ f.right # NULL => H[f.curr].next = f.right

LEMMA NextLevel ==
  ASSUME NEW H, NEW root, NEW S, NEW R, Tree(H, root, S, R), NEW a \in Allocated(H),
         NEW b \in Allocated(H), IsNext(Allocated(H), R, a, b)
  PROVE  H[b].level = H[a].level
<1>1. LevelOrder(Allocated(H), LevelsOf(H), R)
  BY DEF Tree, Forest
<1>2. b \in R[a]
  BY DEF IsNext
<1> QED
  BY <1>1, <1>2, LevelAt DEF LevelOrder

LEMMA FrameAdjacent ==
  ASSUME NEW H \in Heaps, NEW root, root # NULL, NEW R, NEW E, Shape(H, root, {}, E, R),
         Filled(H, E, root, 1), NEW f \in EraseFrame, f.curr \in Allocated(H),
         Placed(H, f), Neighbours(H, R, f),
         f.parent # NULL => f.parent \notin E, isleafnode(H, f.curr) => E = {}
  PROVE  Adjacent(H, f)
<1>1. Tree(H, root, {}, R) /\ NodesHold(H, E)
  BY DEF Shape
<1>2. /\ f.parentslot \in Nat
      /\ f.left # NULL => f.left \in Allocated(H) /\ H[f.left].level = H[f.curr].level
      /\ f.right # NULL => f.right \in Allocated(H) /\ IsNext(Allocated(H), R, f.curr, f.right)
      /\ f.leftparent # NULL => f.leftparent \in Allocated(H)
      /\ f.rightparent # NULL => f.rightparent \in Allocated(H)
  BY DEF Neighbours, EraseFrame
<1>3. f.right # NULL => H[f.right].level = H[f.curr].level
  BY <1>1, <1>2, NextLevel
<1>4. f.parent # NULL => f.parent \in Allocated(H) /\ H[f.parent].level = H[f.curr].level + 1
  BY DEF Placed
<1>5. {f.left, f.right, f.parent, f.leftparent, f.rightparent} \subseteq Allocated(H) \cup {NULL}
  BY <1>2, <1>4
<1>6. ASSUME f.parent # NULL
      PROVE  /\ slotuse(H, f.parent) \in Nat /\ slotuse(H, f.parent) >= 1
             /\ H[f.parent].level > 0 /\ f.parent \in Allocated(H) \ E
  <2>1. f.parent \in Allocated(H) \ E /\ H[f.parent].level = H[f.curr].level + 1
    BY <1>4, <1>6
  <2>2. H[f.curr].level \in Nat
    BY NodeIs
  <2>3. slotuse(H, f.parent) \in Nat /\ ~isleafnode(H, f.parent)
    BY <2>1, <2>2, NodeIs
  <2>4. slotuse(H, f.parent) >= 1
    BY <2>1, <2>3, Sizes DEF Filled
  <2> QED
    BY <2>1, <2>2, <2>3, <2>4
<1>7. ASSUME f.parent # NULL
      PROVE  /\ childid(H, f.parent, f.parentslot) = f.curr
             /\ f.leftparent = f.parent => childid(H, f.parent, f.parentslot - 1) = f.left
             /\ f.rightparent = f.parent => childid(H, f.parent, f.parentslot + 1) = f.right
             /\ f.leftparent = f.parent \/ f.rightparent = f.parent
  <2>1. /\ childid(H, f.parent, f.parentslot) = f.curr
        /\ HasLeft(H, f) \/ (f.parentslot = 0 /\ f.leftparent # f.parent)
        /\ HasRight(H, f) \/ (f.parentslot = slotuse(H, f.parent) /\ f.rightparent # f.parent)
    BY <1>7 DEF Placed
  <2>2. slotuse(H, f.parent) # 0
    BY <1>6, <1>7
  <2> QED
    BY <2>1, <2>2 DEF HasLeft, HasRight
<1>8. ASSUME isleafnode(H, f.curr), f.left # NULL, f.leftparent = f.parent
      PROVE  H[f.left].next = f.curr
  <2>1. f.parent # NULL
    BY <1>8 DEF Placed
  <2>2. HasLeft(H, f) /\ childid(H, f.parent, f.parentslot) = f.curr
    BY <1>8, <2>1 DEF Placed
  <2>s. PICK s : s = f.parentslot - 1
    OBVIOUS
  <2>p. PICK p : p = f.parent
    OBVIOUS
  <2>3. /\ s \in 0 .. slotuse(H, p) /\ s < slotuse(H, p) /\ s + 1 = f.parentslot
        /\ childid(H, p, s) = f.left /\ childid(H, p, s + 1) = f.curr
    BY <1>2, <1>6, <2>1, <2>2, <2>p, <2>s DEF HasLeft
  <2>4. E = {} /\ p \in Allocated(H) \ E /\ H[p].level > 0
    BY <1>6, <1>8, <2>1, <2>p
  <2>5. IsNext(Allocated(H), R, childid(H, p, s), childid(H, p, s + 1))
    BY <1>1, <2>3, <2>4, SiblingNext
  <2>6. IsNext(Allocated(H), R, f.left, f.curr)
    BY <2>3, <2>5
  <2>7. H[f.curr].level = 0 /\ H[f.left].level = 0 /\ f.left \in Allocated(H)
    BY <1>2, <1>8, NodeIs
  <2> QED
    BY <2>4, <2>6, <2>7, NextIsNext
<1>9. ASSUME isleafnode(H, f.curr), f.right # NULL
      PROVE  H[f.curr].next = f.right
  <2>1. E = {} /\ H[f.curr].level = 0 /\ H[f.right].level = 0 /\ f.right \in Allocated(H)
        /\ IsNext(Allocated(H), R, f.curr, f.right)
    BY <1>2, <1>3, <1>9, NodeIs
  <2> QED
    BY <2>1, NextIsNext
<1> QED
  BY <1>2, <1>3, <1>5, <1>7, <1>8, <1>9 DEF Adjacent

\* The frames above are a descent, too.
LEMMA FrameOf ==
  ASSUME NEW H \in Heaps, NEW root, NEW R, NEW st, IsDescent(H, root, R, st),
         NEW i \in 1 .. Len(st)
  PROVE  /\ Placed(H, st[i]) /\ Neighbours(H, R, st[i]) /\ st[i] \in EraseFrame
         /\ st[i].curr \in Allocated(H) /\ Last(st).curr \in Allocated(H)
         /\ H[st[i].curr].level >= H[Last(st).curr].level
<1>1. st \in Seq(EraseFrame) /\ st # <<>> /\ Path(H, root, st) /\ Surrounded(H, R, st)
  BY DEF IsDescent
<1>L. PICK L : L = Len(st)
  OBVIOUS
<1>u. PICK u : u = SubSeq(st, 1, i)
  OBVIOUS
<1>2. L \in Nat \ {0} /\ i \in 1 .. L /\ Last(st) = st[L] /\ st[i] \in EraseFrame
  BY <1>1, <1>L DEF Last
<1>3. /\ u \in Seq(EraseFrame) /\ u # <<>> /\ Len(u) = i /\ Last(u) = st[i]
      /\ \A j \in 1 .. i : u[j] = st[j]
  BY <1>1, <1>2, <1>L, <1>u DEF Last
<1>4. /\ \A j \in 1 .. L : st[j].curr \in Allocated(H) /\ H[st[j].curr].level = H[root].level - j + 1
      /\ \A j \in 1 .. L - 1 : AtChild(H, st[j]) /\ childid(H, st[j].curr, st[j].slot) = st[j + 1].curr
      /\ st[1].curr = root
  BY <1>1, <1>L DEF Path
<1>5. /\ \A j \in 1 .. L : Neighbours(H, R, st[j])
      /\ st[1].parent = NULL /\ st[1].left = NULL /\ st[1].right = NULL
      /\ \A j \in 1 .. L - 1 : BelowFrame(H, st[j], st[j + 1])
  BY <1>1, <1>L DEF Surrounded
<1>6. /\ 1 \in 1 .. i /\ \A j \in 1 .. i : j \in 1 .. L
      /\ \A j \in 1 .. i - 1 : j \in 1 .. i /\ j + 1 \in 1 .. i /\ j \in 1 .. L - 1
  BY <1>2
<1>7. Path(H, root, u)
  BY <1>3, <1>4, <1>6 DEF Path
<1>8. Surrounded(H, R, u)
  BY <1>3, <1>5, <1>6 DEF Surrounded
<1>9. IsPlaced(H, root, u)
  BY <1>3, <1>7, <1>8, PlacedIs DEF IsDescent
<1>10. Placed(H, st[i])
  BY <1>3, <1>9 DEF IsPlaced
<1>11. H[st[i].curr].level >= H[Last(st).curr].level
  <2>1. 1 \in 1 .. L /\ L \in 1 .. L
    BY <1>2
  <2>2. H[root].level \in Nat
    BY <1>4, <2>1, NodeIs
  <2>3. H[st[i].curr].level = H[root].level - i + 1 /\ H[Last(st).curr].level = H[root].level - L + 1
    BY <1>2, <1>4, <2>1
  <2>4. \A y \in Nat : y - i + 1 >= y - L + 1
    BY <1>2
  <2> QED
    BY <2>2, <2>3, <2>4
<1> QED
  BY <1>2, <1>4, <1>5, <1>10, <1>11

LEMMA StackAdjacent ==
  ASSUME NEW H \in Heaps, NEW root, NEW R, NEW E, Shape(H, root, {}, E, R),
         Filled(H, E, root, 1), NEW st, st \in Seq(EraseFrame), Path(H, root, st),
         Surrounded(H, R, st),
         st # <<>> => \A n \in E : n \in Allocated(H) /\ H[n].level < H[Last(st).curr].level
  PROVE  \A i \in DOMAIN st : Adjacent(H, st[i])
<1> SUFFICES ASSUME NEW i \in DOMAIN st PROVE Adjacent(H, st[i])
  OBVIOUS
<1>1. i \in 1 .. Len(st) /\ st # <<>>
  OBVIOUS
<1>2. IsDescent(H, root, R, st)
  BY <1>1 DEF IsDescent
<1>f. PICK f : f = st[i]
  OBVIOUS
<1>3. /\ Placed(H, f) /\ Neighbours(H, R, f) /\ f \in EraseFrame
      /\ f.curr \in Allocated(H) /\ Last(st).curr \in Allocated(H)
      /\ H[f.curr].level >= H[Last(st).curr].level
  BY <1>1, <1>2, <1>f, FrameOf
<1>4. H[f.curr].level \in Nat /\ H[Last(st).curr].level \in Nat
  BY <1>3, NodeIs
<1>5. f.parent # NULL => H[f.parent].level = H[f.curr].level + 1
  BY <1>3 DEF Placed
<1>6. \A n \in E : H[n].level \in Nat /\ H[n].level < H[f.curr].level
  BY <1>1, <1>3, <1>4, NodeIs
<1>7. f.parent # NULL => f.parent \notin E
  BY <1>4, <1>5, <1>6
<1>8. isleafnode(H, f.curr) => E = {}
  BY <1>3, <1>4, <1>6, NodeIs
<1>9. root # NULL
  <2>1. st[1].curr = root /\ st[1].curr \in Allocated(H)
    BY <1>1 DEF Path
  <2> QED
    BY <2>1, NodeIs
<1>10. Adjacent(H, f)
  BY <1>3, <1>7, <1>8, <1>9, FrameAdjacent
<1> QED
  BY <1>10, <1>f

-----------------------------------------------------------------------------
(* An erase comes back to an inner node                                    *)

\* The node a merge below has emptied, if there was one.
Emptied == IF ret.fixmerge THEN Hollow(heap, Top) ELSE {}

IsRising(R) ==
  /\ heap \in Heaps /\ m_root # NULL /\ stack \in Seq(EraseFrame) /\ stack # <<>>
  /\ IsDescent(heap, m_root, R, stack) /\ Top = Last(stack) /\ Top \in EraseFrame
  /\ Top.curr \in InnerNodes(heap) /\ Placed(heap, Top) /\ IsPlaced(heap, m_root, stack)
  /\ Top.slot \in 0 .. slotuse(heap, Top.curr)
  /\ Shape(heap, m_root, {}, Emptied, R) /\ Filled(heap, Emptied, m_root, 1)
  /\ Counted(heap, m_stats, 1) /\ op \in Call
  /\ ret.fixmerge \in BOOLEAN /\ ret.lastkey \in Key \cup {NULL}
  /\ ret.fixmerge => EmptySlot(heap, Top) \in 1 .. slotuse(heap, Top.curr)

LEMMA RisingIs ==
  ASSUME TypeOK, NEW R, Phase(R), EraseAbove
  PROVE  IsRising(R)
<1>1. heap \in Heaps /\ Returning(EraseKinds) /\ ~ret.notFound /\ Going(EraseKinds) /\ op \in Call
      /\ stack # <<>>
  BY CallIs DEF EraseAbove, Returning
<1>2. /\ ~ret.fixmerge => EraseUp(R)
      /\ ret.fixmerge => EraseMerged(R)
  BY <1>1, PhaseIs
<1>3. /\ ret \in EraseResult /\ stack \in Seq(EraseFrame) /\ Path(heap, m_root, stack)
      /\ Paused(heap, stack) /\ Surrounded(heap, R, stack) /\ Counted(heap, m_stats, 1)
      /\ Shape(heap, m_root, {}, Emptied, R) /\ Filled(heap, Emptied, m_root, 1)
      /\ ret.fixmerge => EmptySlot(heap, Top) \in 1 .. slotuse(heap, Top.curr)
  <2>1. CASE ret.fixmerge
    BY <1>1, <1>2, <2>1 DEF EraseMerged, Emptied
  <2>2. CASE ~ret.fixmerge
    BY <1>1, <1>2, <2>2 DEF EraseUp, Emptied
  <2> QED
    BY <2>1, <2>2
<1>4. IsDescent(heap, m_root, R, stack)
  BY <1>1, <1>3 DEF IsDescent
<1>5. Top = Last(stack) /\ Top \in EraseFrame /\ Top.curr \in Allocated(heap) /\ m_root \in Allocated(heap)
  BY <1>1, <1>3, TopIs
<1>6. m_root # NULL
  BY <1>1, <1>5, NodeIs
<1>7. IsPlaced(heap, m_root, stack)
  BY <1>1, <1>4, PlacedIs
<1>8. Placed(heap, Top)
  BY <1>5, <1>7 DEF IsPlaced
<1>9. heap[Top.curr].level > 0 /\ Top.slot \in 0 .. slotuse(heap, Top.curr)
  BY <1>1, <1>3, <1>5 DEF Paused, AtChild
<1>10. Top.curr \in InnerNodes(heap)
  BY <1>1, <1>5, <1>9 DEF InnerNodes, isleafnode
<1>11. ret.fixmerge \in BOOLEAN /\ ret.lastkey \in Key \cup {NULL}
  BY <1>3 DEF EraseResult
<1> QED
  BY <1>1, <1>3, <1>4, <1>5, <1>6, <1>7, <1>8, <1>9, <1>10, <1>11 DEF IsRising

\* The node of the frame is not one of the emptied ones, nor is its parent.
LEMMA RisingFilled ==
  ASSUME NEW R, IsRising(R), NEW n \in Allocated(heap), heap[n].level >= heap[Top.curr].level
  PROVE  /\ slotuse(heap, n) \in Nat /\ slotuse(heap, n) >= 1
         /\ slotuse(heap, n) >= IF n # m_root THEN mininnerslots ELSE 1
<1>a. PICK c : c = Top.curr
  OBVIOUS
<1>1. /\ heap \in Heaps /\ c \in InnerNodes(heap) /\ Filled(heap, Emptied, m_root, 1)
      /\ Shape(heap, m_root, {}, Emptied, R)
      /\ ret.fixmerge => EmptySlot(heap, Top) \in 1 .. slotuse(heap, c)
      /\ m_root # NULL
  BY <1>a DEF IsRising
<1>2. c \in Allocated(heap) /\ slotuse(heap, c) \in Nat /\ heap[c].level \in Nat /\ heap[c].level > 0
      /\ heap[n].level \in Nat /\ slotuse(heap, n) \in Nat
  BY <1>1, InnerNode, NodeIs
<1>3. n \notin Emptied
  <2> SUFFICES ASSUME ret.fixmerge, n \in Hollow(heap, Top)
               PROVE  FALSE
    BY DEF Emptied
  <2>1. PICK s : s = EmptySlot(heap, Top)
    OBVIOUS
  <2>2. n = childid(heap, c, s) /\ s \in 1 .. slotuse(heap, c) /\ Emptied = {n}
    BY <1>a, <1>1, <2>1 DEF Hollow, Emptied
  <2>3. NodesHold(heap, {n}) /\ Tree(heap, m_root, {}, R)
    BY <1>1, <2>2 DEF Shape
  <2>4. slotuse(heap, n) = 0
    BY <2>3 DEF NodesHold
  <2>5. n # c
    BY <1>2, <2>2, <2>4
  <2>6. s \in 0 .. slotuse(heap, c) /\ c \in Allocated(heap) \ {n}
    BY <1>2, <2>2, <2>5
  <2>7. heap[childid(heap, c, s)].level = heap[c].level - 1
    BY <1>1, <1>2, <2>3, <2>6, ChildOf
  <2>8. heap[n].level = heap[c].level - 1
    BY <2>2, <2>7
  <2> QED
    BY <1>a, <1>2, <2>8
<1>4. slotuse(heap, n) >= IF n # m_root THEN mininnerslots ELSE IF isleafnode(heap, n) THEN 1 ELSE 1
  BY <1>1, <1>3 DEF Filled
<1>5. slotuse(heap, n) >= IF n # m_root THEN mininnerslots ELSE 1
  BY <1>4
<1> QED
  BY <1>2, <1>5, Sizes

LEMMA NoNeighboursAbove ==
  ASSUME NEW R, IsRising(R), Top.left = NULL, Top.right = NULL
  PROVE  Top.parent = NULL /\ Top.curr = m_root /\ Front(stack) = <<>>
<1>1. /\ heap \in Heaps /\ Placed(heap, Top) /\ IsPlaced(heap, m_root, stack) /\ Top = Last(stack)
      /\ Top.curr \in InnerNodes(heap)
  BY DEF IsRising
<1>2. heap[Top.curr].level \in Nat
  BY <1>1, InnerNode
<1>3. ASSUME Top.parent # NULL PROVE FALSE
  <2>1. PICK p : p = Top.parent
    OBVIOUS
  <2>2. p \in Allocated(heap) /\ heap[p].level = heap[Top.curr].level + 1
    BY <1>1, <1>3, <2>1 DEF Placed
  <2>3. ~HasLeft(heap, Top) /\ ~HasRight(heap, Top)
    BY <1>1, <1>3 DEF Placed, HasLeft, HasRight
  <2>4. Top.parentslot = 0 /\ Top.parentslot = slotuse(heap, p)
    BY <1>1, <1>3, <2>1, <2>3 DEF Placed
  <2>5. slotuse(heap, p) >= 1
    BY <1>2, <2>2, RisingFilled
  <2> QED
    BY <2>4, <2>5
<1>4. Top.parent = NULL
  BY <1>3
<1> QED
  BY <1>1, <1>4 DEF IsPlaced

LEMMA UpdatedIs ==
  ASSUME NEW R, IsRising(R), NEW U, U = Updated(heap, Top)
  PROVE  U \in Heaps /\ Rekeyed(heap, U)
<1>1. heap \in Heaps /\ Placed(heap, Top) /\ Top.curr \in InnerNodes(heap) /\ ret.lastkey \in Key \cup {NULL}
  BY DEF IsRising
<1>2. CASE ret.lastkey # NULL /\ OwnsKey(heap, Top)
  <2>1. PICK p, s, k : p = Top.parent /\ s = Top.parentslot /\ k = ret.lastkey
    OBVIOUS
  <2>2. p \in Allocated(heap) /\ heap[p].level = heap[Top.curr].level + 1 /\ k \in Key
    BY <1>1, <1>2, <2>1 DEF Placed, OwnsKey
  <2>3. heap[p].level > 0
    BY <1>1, <2>2, InnerNode
  <2>4. SetKey(heap, p, s, k) \in Heaps /\ Rekeyed(heap, SetKey(heap, p, s, k))
    BY <1>1, <2>2, <2>3, SetKeyIs
  <2>5. U = SetKey(heap, p, s, k)
    BY <1>2, <2>1 DEF Updated
  <2> QED
    BY <2>4, <2>5
<1>3. CASE ~(ret.lastkey # NULL /\ OwnsKey(heap, Top))
  BY <1>1, <1>3, RekeyedSelf DEF Updated
<1> QED
  BY <1>2, <1>3

IsOpened(R, H, Q) ==
  /\ Opened(heap, R, H, Q, m_root, Top.curr)
  /\ Counted(H, StatsPruned(heap, Top, m_stats), 1) /\ StatsPruned(heap, Top, m_stats) \in Stats

LEMMA NotPruned ==
  ASSUME TypeOK, NEW R, IsRising(R), ~ret.fixmerge, NEW U \in Heaps, Rekeyed(heap, U)
  PROVE  IsOpened(R, U, R)
<1>a. PICK c : c = Top.curr
  OBVIOUS
<1>1. /\ heap \in Heaps /\ c \in InnerNodes(heap) /\ m_root # NULL
      /\ Shape(heap, m_root, {}, {}, R) /\ Filled(heap, {}, m_root, 1) /\ Counted(heap, m_stats, 1)
  BY <1>a DEF IsRising, Emptied
<1>2. c \in Allocated(heap) /\ heap[c].level >= heap[Top.curr].level
  BY <1>a, <1>1, InnerNode
<1>3. slotuse(heap, c) >= IF c # m_root THEN mininnerslots ELSE 1
  BY <1>2, RisingFilled
<1>4. Opened(heap, R, heap, R, m_root, c)
  BY <1>1, <1>3, OpenedSame
<1>5. Opened(heap, R, U, R, m_root, c)
  BY <1>1, <1>4, OpenedRekeyed
<1>6. StatsPruned(heap, Top, m_stats) = m_stats
  BY DEF StatsPruned
<1>7. m_stats \in Stats
  BY DEF TypeOK, Stats
<1>8. Leaves(U) = Leaves(heap) /\ InnerNodes(U) = InnerNodes(heap) /\ Pairs(U) = Pairs(heap)
  BY SameKinds, RekeyedKeeps DEF Rekeyed
<1>9. Counted(U, m_stats, 1)
  BY <1>1, <1>8 DEF Counted
<1> QED
  BY <1>a, <1>5, <1>6, <1>7, <1>9 DEF IsOpened

LEMMA PrunedIs ==
  ASSUME TypeOK, NEW R, IsRising(R), ret.fixmerge, NEW U \in Heaps, Rekeyed(heap, U),
         NEW H, H = Pruned(U, Top)
  PROVE  \E Q : IsOpened(R, H, Q)
<1>a. PICK c, s, t : c = Top.curr /\ s = EmptySlot(heap, Top) /\ t = Top.slot
  OBVIOUS
<1>b. PICK d : d = childid(heap, c, s)
  OBVIOUS
<1>1. /\ heap \in Heaps /\ c \in InnerNodes(heap) /\ m_root # NULL /\ s \in 1 .. slotuse(heap, c)
      /\ Shape(heap, m_root, {}, {d}, R) /\ Filled(heap, {d}, m_root, 1) /\ Counted(heap, m_stats, 1)
      /\ t \in 0 .. slotuse(heap, c)
  BY <1>a, <1>b DEF IsRising, Emptied, Hollow
<1>2. c \in Allocated(heap) /\ heap[c].level >= heap[Top.curr].level /\ heap[c].level > 0
      /\ slotuse(heap, c) \in Nat
  BY <1>a, <1>1, InnerNode
<1>3. slotuse(heap, c) >= (IF c # m_root THEN mininnerslots ELSE 1) /\ slotuse(heap, c) >= 1
  BY <1>2, RisingFilled
<1>4. NodesHold(heap, {d}) /\ Tree(heap, m_root, {}, R)
  BY <1>1 DEF Shape
<1>5. d # c
  BY <1>3, <1>4 DEF NodesHold
<1>6. /\ c \in InnerNodes(U) /\ U[c].level = heap[c].level /\ slotuse(U, c) = slotuse(heap, c)
      /\ U[c].child = heap[c].child /\ \A i : childid(U, c, i) = childid(heap, c, i)
  BY <1>1, RekeyedNode
<1>7. EmptySlot(U, Top) = s
  <2>1. childid(heap, c, t) \in Allocated(heap)
    BY <1>1, <1>2, <1>4, <1>5, ChildOf
  <2>2. slotuse(U, childid(heap, c, t)) = slotuse(heap, childid(heap, c, t))
    BY <2>1 DEF Rekeyed, SameSizes
  <2> QED
    BY <1>a, <1>6, <2>2 DEF EmptySlot
<1>8. Shape(U, m_root, {}, {d}, R) /\ Filled(U, {d}, m_root, 1)
  <2>1. m_root \in Allocated(heap)
    BY <1>1, <1>4, RootIs
  <2>2. Shape(U, m_root, {}, {d}, R)
    BY <1>1, <2>1, RekeyedShape
  <2> QED
    BY <1>1, <2>2, RekeyedKeeps
<1>9. PICK ks, cs : ks = RemoveAt(U[c].keys, s) /\ cs = RemoveAt(U[c].child, s + 1)
  OBVIOUS
<1>10. PICK M : M = [U EXCEPT ![c].keys = ks, ![c].child = cs]
  OBVIOUS
<1>11. PICK G, Q : G = [M EXCEPT ![d] = NULL] /\ Q = OrderWithout(R, d)
  OBVIOUS
<1>12. IsPruned(U, G, m_root, R, Q, c, d)
  <2>1. Rewritten(U, M, c, ks, cs)
    BY <1>10 DEF Rewritten
  <2>2. d = childid(U, c, s) /\ s \in 1 .. slotuse(U, c)
    BY <1>b, <1>1, <1>6
  <2> QED
    BY <1>1, <1>6, <1>8, <1>9, <1>11, <2>1, <2>2, PruneShape
<1>13. H = IF G[c].level = 1 THEN SetKey(G, c, s - 1, LastKey(G, childid(G, c, s - 1))) ELSE G
  <2>1. U = [n \in NodeId |-> U[n]] /\ DOMAIN U = NodeId
    BY DEF Heaps
  <2>2. c \in NodeId
    BY <1>1, InnerNode
  <2>3. U[c] \in Inner
    BY <1>6, InnerNode
  <2>4. DOMAIN U[c] = {"level", "keys", "child"}
    BY <2>3 DEF Inner
  <2>5. [U EXCEPT ![c].keys = RemoveAt(@, s), ![c].child = RemoveAt(@, s + 1), ![d] = NULL] = G
    BY <1>9, <1>10, <1>11, <2>1, <2>2, <2>4
  <2>6. childid(U, c, s) = d
    BY <1>b, <1>6
  <2>7. H = LET X == [U EXCEPT ![Top.curr].keys = RemoveAt(@, EmptySlot(U, Top)),
                                ![Top.curr].child = RemoveAt(@, EmptySlot(U, Top) + 1),
                                ![childid(U, Top.curr, EmptySlot(U, Top))] = NULL]
            IN IF X[Top.curr].level = 1
                 THEN SetKey(X, Top.curr, EmptySlot(U, Top) - 1,
                             LastKey(X, childid(X, Top.curr, EmptySlot(U, Top) - 1)))
                 ELSE X
    BY DEF Pruned
  <2>8. H = LET X == [U EXCEPT ![c].keys = RemoveAt(@, s), ![c].child = RemoveAt(@, s + 1), ![d] = NULL]
            IN IF X[c].level = 1 THEN SetKey(X, c, s - 1, LastKey(X, childid(X, c, s - 1))) ELSE X
    BY <1>a, <1>7, <2>6, <2>7
  <2> QED
    BY <2>5, <2>8
<1>14. H \in Heaps /\ Rekeyed(G, H)
  <2>1. s \in 1 .. slotuse(U, c) /\ slotuse(U, c) \in Nat
    BY <1>1, <1>2, <1>6
  <2> QED
    BY <1>1, <1>12, <1>13, <2>1, MergedKey
<1>15. Opened(heap, R, H, Q, m_root, c) /\ OneLess(heap, H, c, d)
  BY <1>b, <1>1, <1>3, <1>5, <1>12, <1>14, PruneOpened
<1>16. StatsPruned(heap, Top, m_stats) = IF heap[c].level = 1 THEN [m_stats EXCEPT !.leaves = @ - 1]
                                         ELSE [m_stats EXCEPT !.innernodes = @ - 1]
  BY <1>a DEF StatsPruned
<1>17. m_stats \in [itemcount : Nat, leaves : Nat, innernodes : Nat]
  BY DEF TypeOK
<1>18. StatsPruned(heap, Top, m_stats) \in Stats /\ Counted(H, StatsPruned(heap, Top, m_stats), 1)
  BY <1>1, <1>15, <1>16, <1>17, OneLessCounted DEF Stats
<1> QED
  BY <1>a, <1>15, <1>18 DEF IsOpened

LEMMA EraseAboveIs ==
  ASSUME TypeOK, NEW R, Phase(R), EraseAbove
  PROVE  /\ IsRising(R) /\ UNCHANGED <<m_headleaf, m_tailleaf, op>> /\ Going(EraseKinds)
         /\ \E H, Q, up : /\ IsOpened(R, H, Q) /\ up \in Key \cup {NULL}
                          /\ InnerKept(H, up) \/ RootReplaced(H) \/ InnerBalanced(H, up)
<1>1. IsRising(R)
  BY RisingIs
<1>2. UNCHANGED <<m_headleaf, m_tailleaf, op>> /\ Going(EraseKinds)
  BY DEF EraseAbove, Returning
<1>3. PICK U, H, up : U = Updated(heap, Top) /\ H = Pruned(U, Top) /\ up = PassedKey(heap, Top)
  OBVIOUS
<1>4. U \in Heaps /\ Rekeyed(heap, U)
  BY <1>1, <1>3, UpdatedIs
<1>5. \E Q : IsOpened(R, H, Q)
  <2>1. CASE ret.fixmerge
    BY <1>1, <1>3, <1>4, <2>1, PrunedIs
  <2>2. CASE ~ret.fixmerge
    <3>1. H = U
      BY <1>3, <2>2 DEF Pruned
    <3>2. IsOpened(R, U, R)
      BY <1>1, <1>4, <2>2, NotPruned
    <3> QED
      BY <3>1, <3>2
  <2> QED
    BY <2>1, <2>2
<1>6. up \in Key \cup {NULL}
  BY <1>1, <1>3 DEF PassedKey, IsRising
<1>7. InnerKept(H, up) \/ RootReplaced(H) \/ InnerBalanced(H, up)
  BY <1>3 DEF EraseAbove
<1> QED
  BY <1>1, <1>2, <1>5, <1>6, <1>7

\* The frames above an inner node after a change among the nodes of its level.
LEMMA AboveInner ==
  ASSUME NEW R, IsRising(R), NEW l, l = heap[Top.curr].level,
         NEW G, Kept(heap, G, l), NEW Q, SameOrder(heap, R, G, Q, l)
  PROVE  AboveIs(G, Q)
<1>1. /\ heap \in Heaps /\ m_root # NULL /\ stack \in Seq(EraseFrame) /\ stack # <<>>
      /\ IsDescent(heap, m_root, R, stack) /\ Top = Last(stack) /\ Tree(heap, m_root, {}, R)
  BY DEF IsRising, Shape
<1>2. Path(heap, m_root, stack) /\ Surrounded(heap, R, stack)
  BY <1>1 DEF IsDescent
<1>3. Kept(heap, G, heap[Last(stack).curr].level)
  BY <1>1
<1>4. SameOrder(heap, R, G, Q, heap[Last(stack).curr].level)
  BY <1>1
<1>5. Forest(Allocated(heap), LevelsOf(heap), KidsOf(heap), {m_root}, R)
  <2>1. ({m_root} \ {NULL}) \cup {} = {m_root}
    BY <1>1
  <2> QED
    BY <1>1, <2>1, TreeIs
<1>6. Surrounded(G, Q, Front(stack))
  BY <1>1, <1>2, <1>3, <1>4, <1>5, SurroundedKept
<1>7. Path(G, m_root, Front(stack)) /\ Paused(G, Front(stack))
  BY <1>1, <1>2, <1>3, PathKept
<1>8. Front(stack) \in Seq(EraseFrame)
  BY <1>1, FrontIs
<1> QED
  BY <1>6, <1>7, <1>8 DEF AboveIs

LEMMA FixedAbove ==
  ASSUME NEW R, IsRising(R), NEW H, NEW Q, IsOpened(R, H, Q), NEW l, l = heap[Top.curr].level,
         NEW G, NEW E, IsFixed(H, G, m_root, Q, E, l)
  PROVE  AboveIs(G, Q) /\ Counted(G, StatsPruned(heap, Top, m_stats), 1)
<1>1. /\ heap \in Heaps /\ Top.curr \in InnerNodes(heap)
  BY DEF IsRising
<1>2. /\ Kept(heap, H, l) /\ SameOrder(heap, R, H, Q, l)
      /\ Counted(H, StatsPruned(heap, Top, m_stats), 1)
  BY DEF IsOpened, Opened
<1>3. /\ Allocated(G) = Allocated(H) /\ Leaves(G) = Leaves(H) /\ InnerNodes(G) = InnerNodes(H)
      /\ Pairs(G) = Pairs(H) /\ Kept(H, G, l)
  BY DEF IsFixed
<1>4. Kept(heap, G, l)
  <2>1. l \in Int
    BY <1>1, InnerNode
  <2>2. \A n \in Allocated(heap) : heap[n].level \in Int
    BY <1>1, NodeIs
  <2> QED
    BY <1>2, <1>3, <2>1, <2>2, KeptTwice
<1>5. SameOrder(heap, R, G, Q, l)
  BY <1>2, <1>3 DEF SameOrder
<1>6. AboveIs(G, Q)
  BY <1>4, <1>5, AboveInner
<1>7. Counted(G, StatsPruned(heap, Top, m_stats), 1)
  BY <1>2, <1>3 DEF Counted
<1> QED
  BY <1>6, <1>7

\* The call returns to the level above, with a tree that is in order again.
LEMMA InnerGoesUp ==
  ASSUME TypeOK, NEW R, IsRising(R), Going(EraseKinds), NEW H, NEW Q, IsOpened(R, H, Q),
         NEW G, heap' = G, IsFixed(H, G, m_root, Q, {}, heap[Top.curr].level),
         NEW up \in Key \cup {NULL}, EraseReturns(Found(FALSE, up)),
         m_stats' = StatsPruned(heap, Top, m_stats), UNCHANGED <<m_root, m_headleaf, m_tailleaf, op>>
  PROVE  TypeOK' /\ Phase(Q)'
<1>1. AboveIs(G, Q) /\ Counted(G, m_stats', 1)
  BY FixedAbove
<1>2. G \in Heaps /\ Shape(G, m_root, {}, {}, Q) /\ Filled(G, {}, m_root, 1)
  BY DEF IsFixed
<1>3. stack' = Front(stack) /\ ret' = [notFound |-> FALSE, fixmerge |-> FALSE, lastkey |-> up]
  BY DEF EraseReturns, Found
<1>4. ret' \in EraseResult /\ ~ret'.fixmerge /\ ~ret'.notFound
  BY <1>3 DEF EraseResult
<1>5. /\ stack' \in Seq(EraseFrame) /\ Path(heap', m_root', stack') /\ Paused(heap', stack')
      /\ Surrounded(heap', Q, stack')
  BY <1>1, <1>3 DEF AboveIs
<1>6. TypeOK'
  <2>1. m_stats' \in [itemcount : Nat, leaves : Nat, innernodes : Nat]
    BY DEF IsOpened, Stats
  <2> QED
    BY <1>2, <1>4, <1>5, <2>1 DEF TypeOK, Heaps
<1>7. Going(EraseKinds)' /\ Shape(heap', m_root', {}, {}, Q) /\ Filled(heap', {}, m_root', 1)
  BY <1>2 DEF Going
<1>8. Counted(heap', m_stats', IF ret'.notFound THEN 0 ELSE 1)
  BY <1>1, <1>4
<1>9. EraseUp(Q)'
  BY <1>4, <1>5, <1>7, <1>8 DEF EraseUp
<1> QED
  BY <1>6, <1>9 DEF Phase

\* ... or with an empty node b next to the one it was at, or in its place.
LEMMA InnerMergeGoesUp ==
  ASSUME TypeOK, NEW R, IsRising(R), Going(EraseKinds), NEW H, NEW Q, IsOpened(R, H, Q),
         Top.parent # NULL, NEW G, heap' = G,
         NEW b, b = childid(G, Top.parent, EmptySlot(G, Above(stack))),
         EmptySlot(G, Above(stack)) \in 1 .. slotuse(G, Top.parent),
         IsFixed(H, G, m_root, Q, {b}, heap[Top.curr].level),
         NEW up \in Key \cup {NULL}, EraseReturns(Found(TRUE, up)),
         m_stats' = StatsPruned(heap, Top, m_stats), UNCHANGED <<m_root, m_headleaf, m_tailleaf, op>>
  PROVE  TypeOK' /\ Phase(Q)'
<1>1. AboveIs(G, Q) /\ Counted(G, m_stats', 1)
  BY FixedAbove
<1>2. G \in Heaps /\ Shape(G, m_root, {}, {b}, Q) /\ Filled(G, {b}, m_root, 1)
  BY DEF IsFixed
<1>3. stack' = Front(stack) /\ ret' = [notFound |-> FALSE, fixmerge |-> TRUE, lastkey |-> up]
  BY DEF EraseReturns, Found
<1>4. ret' \in EraseResult /\ ret'.fixmerge /\ ~ret'.notFound
  BY <1>3 DEF EraseResult
<1>5. /\ stack' \in Seq(EraseFrame) /\ Path(heap', m_root', stack') /\ Paused(heap', stack')
      /\ Surrounded(heap', Q, stack')
  BY <1>1, <1>3 DEF AboveIs
<1>6. TypeOK'
  <2>1. m_stats' \in [itemcount : Nat, leaves : Nat, innernodes : Nat]
    BY DEF IsOpened, Stats
  <2> QED
    BY <1>2, <1>4, <1>5, <2>1 DEF TypeOK, Heaps
<1>7. stack' # <<>> /\ Top' = Above(stack) /\ Above(stack).curr = Top.parent
  BY <1>3 DEF IsRising, IsPlaced, Above, Top
<1>8. Hollow(heap', Top') = {b} /\ EmptySlot(heap', Top') \in 1 .. slotuse(heap', Top'.curr)
  BY <1>7 DEF Hollow
<1>9. Going(EraseKinds)' /\ Counted(heap', m_stats', 1)
  BY <1>1 DEF Going
<1>10. Shape(heap', m_root', {}, Hollow(heap', Top'), Q) /\ Filled(heap', Hollow(heap', Top'), m_root', 1)
  BY <1>2, <1>8
<1>11. EraseMerged(Q)'
  BY <1>4, <1>5, <1>7, <1>8, <1>9, <1>10 DEF EraseMerged
<1> QED
  BY <1>6, <1>11 DEF Phase

LEMMA InnerKeptKeeps ==
  ASSUME TypeOK, NEW R, IsRising(R), Going(EraseKinds), NEW H, NEW Q, IsOpened(R, H, Q),
         NEW up \in Key \cup {NULL}, InnerKept(H, up), UNCHANGED <<m_headleaf, m_tailleaf, op>>
  PROVE  TypeOK' /\ Phase(Q)'
<1>a. PICK c, l : c = Top.curr /\ l = heap[Top.curr].level
  OBVIOUS
<1>1. H \in Heaps /\ Shape(H, m_root, {}, {}, Q) /\ Filled(H, {c}, m_root, 1) /\ c \in InnerNodes(H)
  BY <1>a DEF IsOpened, Opened
<1>2. /\ ~NeedsRemedy(H, c) /\ heap' = H /\ EraseReturns(Found(FALSE, up))
      /\ m_stats' = StatsPruned(heap, Top, m_stats) /\ m_root' = m_root
  BY <1>a DEF InnerKept
<1>3. slotuse(H, c) \in Nat /\ ~isleafnode(H, c)
  BY <1>1, InnerNode
<1>4. slotuse(H, c) >= IF c # m_root THEN mininnerslots ELSE 1
  BY <1>2, <1>3, Sizes DEF NeedsRemedy, isunderflow
<1>5. Filled(H, {}, m_root, 1)
  <2> SUFFICES ASSUME NEW n \in Allocated(H)
               PROVE  slotuse(H, n) >= IF n # m_root THEN mininnerslots
                                       ELSE IF isleafnode(H, n) THEN 1 ELSE 1
    BY DEF Filled
  <2>1. CASE n = c
    BY <1>4, <2>1
  <2>2. CASE n # c
    BY <1>1, <2>2 DEF Filled
  <2> QED
    BY <2>1, <2>2
<1>6. Kept(H, H, l)
  BY RekeyedSelf, KeptRekeyed
<1>7. IsFixed(H, H, m_root, Q, {}, l)
  BY <1>1, <1>5, <1>6 DEF IsFixed
<1> QED
  BY <1>2, <1>7, <1>a, InnerGoesUp

-----------------------------------------------------------------------------
(* The root goes                                                           *)

LEMMA RootReplacedKeeps ==
  ASSUME TypeOK, NEW R, IsRising(R), Going(EraseKinds), NEW H, NEW Q, IsOpened(R, H, Q),
         RootReplaced(H), UNCHANGED <<m_headleaf, m_tailleaf, op>>
  PROVE  TypeOK' /\ \E P : Phase(P)'
<1>a. PICK c, x, G, P, S : /\ c = Top.curr /\ x = childid(H, Top.curr, 0) /\ G = heap'
                           /\ P = OrderWithout(Q, Top.curr) /\ S = StatsPruned(heap, Top, m_stats)
  OBVIOUS
<1>1. /\ NeedsRemedy(H, c) /\ Top.left = NULL /\ Top.right = NULL /\ m_root' = x
      /\ G = [H EXCEPT ![c] = NULL] /\ m_stats' = [S EXCEPT !.innernodes = @ - 1]
      /\ EraseReturns(Found(FALSE, NULL))
  BY <1>a DEF RootReplaced
<1>2. c = m_root /\ Front(stack) = <<>> /\ m_root # NULL
  BY <1>1, <1>a, NoNeighboursAbove DEF IsRising
<1>3. /\ H \in Heaps /\ Shape(H, c, {}, {}, Q) /\ Filled(H, {c}, c, 1) /\ c \in InnerNodes(H)
      /\ Counted(H, S, 1) /\ S \in Stats
  BY <1>2, <1>a DEF IsOpened, Opened
<1>4. slotuse(H, c) = 0
  <2>1. slotuse(H, c) \in Nat
    BY <1>3, InnerNode
  <2> QED
    BY <1>1, <1>2, <2>1 DEF NeedsRemedy
<1>5. IsRootGone(H, G, x, P, c)
  <2>1. x = childid(H, c, 0) /\ P = OrderWithout(Q, c) /\ c # NULL
    BY <1>2, <1>a
  <2> QED
    BY <1>1, <1>3, <1>4, <2>1, RootGone
<1>6. /\ G \in Heaps /\ Shape(G, x, {}, {}, P) /\ Filled(G, {}, x, 1) /\ x \in NodeId
      /\ Leaves(G) = Leaves(H) /\ InnerNodes(G) = InnerNodes(H) \ {c} /\ Pairs(G) = Pairs(H)
  BY <1>5 DEF IsRootGone
<1>7. m_stats' \in Stats /\ Counted(G, m_stats', 1)
  <2>1. S.itemcount \in Nat /\ S.leaves \in Nat /\ S.innernodes \in Nat
    BY <1>3 DEF Stats
  <2>2. m_stats' = [itemcount |-> S.itemcount, leaves |-> S.leaves, innernodes |-> S.innernodes - 1]
    BY <1>1, <1>3 DEF Stats
  <2>3. S.leaves = Cardinality(Leaves(H)) /\ S.innernodes = Cardinality(InnerNodes(H))
        /\ S.itemcount = Cardinality(Pairs(H)) + 1
    BY <1>3 DEF Counted
  <2>4. IsFiniteSet(InnerNodes(H)) /\ Cardinality(InnerNodes(H)) \in Nat /\ Cardinality(InnerNodes(G)) \in Nat
    BY AllocatedFinite
  <2>5. Cardinality(InnerNodes(G)) = Cardinality(InnerNodes(H)) - 1
    BY <1>3, <1>6, <2>4, FS_RemoveElement
  <2>6. S.innernodes - 1 \in Nat
    BY <2>3, <2>4, <2>5
  <2>7. m_stats' \in Stats
    BY <2>1, <2>2, <2>6 DEF Stats
  <2>8. m_stats'.leaves = S.leaves /\ m_stats'.innernodes = S.innernodes - 1
        /\ m_stats'.itemcount = S.itemcount
    BY <2>2
  <2>9. Counted(G, m_stats', 1)
    BY <1>6, <2>3, <2>5, <2>8 DEF Counted
  <2> QED
    BY <2>7, <2>9
<1>8. stack' = <<>> /\ ret' = [notFound |-> FALSE, fixmerge |-> FALSE, lastkey |-> NULL]
  BY <1>1, <1>2 DEF EraseReturns, Found
<1>9. ret' \in EraseResult /\ ~ret'.fixmerge /\ ~ret'.notFound
  BY <1>8 DEF EraseResult
<1>10. /\ stack' \in Seq(EraseFrame) /\ Path(G, x, stack') /\ Paused(G, stack')
       /\ Surrounded(G, P, stack')
  BY <1>8 DEF Path, Paused, Surrounded
<1>11. TypeOK'
  BY <1>1, <1>6, <1>7, <1>9, <1>10, <1>a DEF TypeOK, Heaps, Stats
<1>12. Counted(G, m_stats', IF ret'.notFound THEN 0 ELSE 1)
  BY <1>7, <1>9
<1>13. Going(EraseKinds)'
  BY DEF Going
<1>14. EraseUp(P)'
  BY <1>1, <1>6, <1>9, <1>10, <1>12, <1>13, <1>a DEF EraseUp
<1> QED
  BY <1>11, <1>14 DEF Phase

-----------------------------------------------------------------------------
(* Two inner nodes exchange keys and children                              *)

\* An inner node that has to be merged or refilled.
IsPoorInner(H) ==
  /\ Top.parent # NULL /\ Top.parent \in Allocated(H) /\ H[Top.parent].level > 1
  /\ H[Top.parent].level > heap[Top.curr].level
  /\ Top.curr # m_root /\ slotuse(H, Top.curr) + 1 = mininnerslots
  /\ H[Top.curr].level = heap[Top.curr].level /\ heap[Top.curr].level \in Nat
  /\ slotuse(H, Top.parent) \in Nat /\ Placed(H, Top) /\ GoodRemedy(H, Top)
  /\ Above(stack).curr = Top.parent /\ Above(stack).slot = Top.parentslot

LEMMA PoorInnerIs ==
  ASSUME NEW R, IsRising(R), NEW H, NEW Q, IsOpened(R, H, Q), NeedsRemedy(H, Top.curr),
         Top.left # NULL \/ Top.right # NULL
  PROVE  IsPoorInner(H)
<1>a. PICK a, p, t, l : a = Top.curr /\ p = Top.parent /\ t = Top /\ l = heap[Top.curr].level
  OBVIOUS
<1>1. /\ heap \in Heaps /\ m_root # NULL /\ Placed(heap, t) /\ IsPlaced(heap, m_root, stack)
      /\ a \in InnerNodes(heap) /\ t = Last(stack)
  BY <1>a DEF IsRising
<1>2. /\ H \in Heaps /\ Filled(H, {a}, m_root, 1) /\ Kept(heap, H, l) /\ a \in InnerNodes(H)
      /\ slotuse(H, a) + 1 >= IF a # m_root THEN mininnerslots ELSE 1
  BY <1>a DEF IsOpened, Opened
<1>3. l \in Nat /\ l > 0 /\ slotuse(H, a) \in Nat /\ a \in Allocated(heap)
  <2>1. l \in Nat /\ l > 0 /\ a \in Allocated(heap)
    BY <1>1, <1>a, InnerNode
  <2>2. slotuse(H, a) \in Nat
    BY <1>2, InnerNode
  <2> QED
    BY <2>1, <2>2
<1>4. p # NULL
  BY <1>1, <1>a DEF Placed
<1>5. p \in Allocated(heap) /\ heap[p].level = l + 1
  BY <1>1, <1>4, <1>a DEF Placed
<1>6. H[a].level = l
  BY <1>2, <1>3, <1>a DEF Kept
<1>7. p \in Allocated(H) /\ H[p].level = l + 1
  BY <1>2, <1>3, <1>5 DEF Kept
<1>8. H[p].level > 1 /\ H[p].level > l /\ p # a
  BY <1>3, <1>6, <1>7
<1>9. a # m_root /\ Above(stack).curr = p /\ Above(stack).slot = t.parentslot
  BY <1>1, <1>4, <1>a DEF IsPlaced
<1>10. slotuse(H, a) + 1 = mininnerslots
  <2>1. slotuse(H, a) < mininnerslots
    BY <1>a DEF NeedsRemedy, isunderflow
  <2>2. slotuse(H, a) + 1 >= mininnerslots
    BY <1>2, <1>9
  <2> QED
    BY <1>3, <2>1, <2>2, Sizes
<1>11. slotuse(H, p) \in Nat /\ slotuse(H, p) >= 1
  <2>1. slotuse(H, p) >= IF p # m_root THEN mininnerslots ELSE IF isleafnode(H, p) THEN 1 ELSE 1
    BY <1>2, <1>7, <1>8 DEF Filled
  <2>2. slotuse(H, p) \in Nat
    BY <1>2, <1>7, NodeIs
  <2> QED
    BY <2>1, <2>2, Sizes
<1>12. Placed(H, t)
  <2>1. Kept(heap, H, heap[t.curr].level) /\ t.curr \in Allocated(heap)
    BY <1>2, <1>3, <1>a
  <2> QED
    BY <1>1, <2>1, PlacedKept
<1>13. GoodRemedy(H, t)
  BY <1>4, <1>11, <1>12, <1>a, RemedyIs
<1> QED
  BY <1>3, <1>4, <1>6, <1>7, <1>8, <1>9, <1>10, <1>11, <1>12, <1>13, <1>a DEF IsPoorInner

\* What InnerBalanced finds and what it leaves.
Climbing(R, H, Q) ==
  /\ TypeOK /\ IsRising(R) /\ Going(EraseKinds) /\ IsOpened(R, H, Q) /\ IsPoorInner(H)
  /\ m_stats' = StatsPruned(heap, Top, m_stats) /\ UNCHANGED <<m_root, m_headleaf, m_tailleaf, op>>

IsClimbing(H, Q, a, p, l) ==
  /\ H \in Heaps /\ m_root # NULL /\ Shape(H, m_root, {}, {}, Q) /\ Filled(H, {a}, m_root, 1)
  /\ p \in Allocated(H) /\ H[p].level > 1 /\ H[p].level > l /\ H[a].level = l /\ l \in Nat
  /\ slotuse(H, a) + 1 = mininnerslots /\ slotuse(H, p) \in Nat
  /\ childid(H, p, Top.parentslot) = a
  /\ Above(stack).curr = p /\ Above(stack).slot = Top.parentslot

LEMMA ClimbingIs ==
  ASSUME NEW R, NEW H, NEW Q, Climbing(R, H, Q),
         NEW a, a = Top.curr, NEW p, p = Top.parent, NEW l, l = heap[Top.curr].level
  PROVE  IsClimbing(H, Q, a, p, l)
BY DEF IsClimbing, Climbing, IsRising, IsOpened, Opened, IsPoorInner, Placed

LEMMA InnerMergeLeft ==
  ASSUME NEW R, NEW H, NEW Q, Climbing(R, H, Q), NEW up \in Key \cup {NULL},
         Remedy(H, Top) = "merge_left",
         heap' = merge_inner(H, Top.left, Top.curr, Top.leftparent, Top.parentslot - 1),
         EraseReturns(Found(TRUE, up))
  PROVE  TypeOK' /\ Phase(Q)'
<1>a. PICK a, p, d, s, l, G : a = Top.curr /\ p = Top.parent /\ d = Top.left /\ s = Top.parentslot - 1
                              /\ l = heap[Top.curr].level /\ G = heap'
  OBVIOUS
<1>1. /\ H \in Heaps /\ m_root # NULL /\ Shape(H, m_root, {}, {}, Q) /\ Filled(H, {a}, m_root, 1)
      /\ p \in Allocated(H) /\ H[p].level > 1 /\ H[p].level > l /\ H[a].level = l /\ l \in Nat
      /\ slotuse(H, a) + 1 = mininnerslots /\ slotuse(H, p) \in Nat
      /\ childid(H, p, Top.parentslot) = a
      /\ Above(stack).curr = p /\ Above(stack).slot = Top.parentslot
  <2>1. IsClimbing(H, Q, a, p, l)
    BY <1>a, ClimbingIs
  <2> QED
    BY <2>1, <1>a DEF IsClimbing
<1>2. /\ TypeOK /\ IsRising(R) /\ Going(EraseKinds) /\ IsOpened(R, H, Q) /\ IsPoorInner(H)
      /\ m_stats' = StatsPruned(heap, Top, m_stats) /\ UNCHANGED <<m_root, m_headleaf, m_tailleaf, op>>
      /\ Top.parent # NULL
  BY DEF Climbing, IsPoorInner
<1>3. HasLeft(H, Top) /\ isfew(H, d)
  BY <1>2, <1>a DEF IsPoorInner, GoodRemedy
<1>4. Top.parentslot \in 1 .. slotuse(H, p) /\ d = childid(H, p, s) /\ Top.leftparent = p
  BY <1>3, <1>a DEF HasLeft
<1>5. s \in 0 .. slotuse(H, p) /\ s < slotuse(H, p) /\ s + 1 = Top.parentslot /\ s \in 0 .. slotuse(H, p) - 1
  BY <1>1, <1>4, <1>a
<1>6. a = childid(H, p, s + 1)
  BY <1>1, <1>5
<1>7. NextInners(H, m_root, Q, d, a)
  BY <1>1, <1>4, <1>5, <1>6, NextInnersAre
<1>8. d # a /\ H[d].level = l /\ a \in InnerNodes(H)
  BY <1>1, <1>7 DEF NextInners
<1>9. slotuse(H, a) \in Nat
  BY <1>1, <1>8, InnerNode
<1>10. PICK F : F = {a}
  OBVIOUS
<1>11. Filled(H, F, m_root, 1) /\ F \subseteq {d, a}
  BY <1>1, <1>10
<1>12. slotuse(H, d) = mininnerslots
  <2>1. d \in {d, a} /\ d \notin F
    BY <1>8, <1>10
  <2> QED
    BY <1>1, <1>3, <1>7, <1>11, <2>1, NeighbourFilled
<1>13. (slotuse(H, d) + slotuse(H, a)) + 1 \in mininnerslots .. innerslotmax
  BY <1>1, <1>9, <1>12, InnerMergeCounts
<1>14. slotkey(H, p, s) \in Key
  BY <1>1, <1>5, SlotKey
<1>15. G = merge_inner(H, d, a, p, s)
  BY <1>4, <1>a
<1>16. IsFixed(H, G, m_root, Q, {a}, l)
  <2>1. l = H[d].level
    BY <1>8
  <2> QED
    BY <1>1, <1>7, <1>11, <1>13, <1>14, <1>15, <2>1, MergeInnerIs
<1>17. G \in Heaps /\ Kept(H, G, l) /\ Shape(G, m_root, {}, {a}, Q)
  BY <1>16 DEF IsFixed
<1>18. slotuse(G, p) = slotuse(H, p) /\ childid(G, p, Top.parentslot) = a
  BY <1>1, <1>17, KeptChild
<1>19. slotuse(G, a) = 0
  <2>1. slotuse(G, a) = Len(G[a].keys)
    <3>1. InnerNodes(G) = InnerNodes(H)
      BY <1>16 DEF IsFixed
    <3> QED
      BY <1>8, <1>17, <3>1, InnerNode
  <2>2. G[a].keys = <<>>
    <3>1. G = [H EXCEPT ![d].keys = Append(@, slotkey(H, p, s)) \o H[a].keys,
                        ![d].child = @ \o H[a].child, ![a].keys = <<>>, ![a].child = <<>>]
      BY <1>15, Zenon DEF merge_inner
    <3>2. a \in NodeId /\ d \in NodeId /\ DOMAIN H = NodeId /\ H[a] \in Inner
      BY <1>1, <1>7, InnerNode DEF NextInners, Heaps
    <3> QED
      BY <1>8, <3>1, <3>2 DEF Inner
  <2> QED
    BY <2>1, <2>2
<1>20. EmptySlot(G, Above(stack)) = Top.parentslot
  BY <1>1, <1>18, <1>19 DEF EmptySlot
<1>21. PICK b : b = childid(G, Top.parent, EmptySlot(G, Above(stack)))
  OBVIOUS
<1>22. b = a
  BY <1>18, <1>20, <1>21, <1>a
<1>23. EmptySlot(G, Above(stack)) \in 1 .. slotuse(G, Top.parent)
  BY <1>4, <1>18, <1>20, <1>a
<1>24. IsFixed(H, G, m_root, Q, {b}, heap[Top.curr].level)
  BY <1>16, <1>22, <1>a
<1>25. heap' = G
  BY <1>a
<1> QED
  BY <1>2, <1>21, <1>23, <1>24, <1>25, InnerMergeGoesUp

LEMMA InnerMergeRight ==
  ASSUME NEW R, NEW H, NEW Q, Climbing(R, H, Q), NEW up \in Key \cup {NULL},
         Remedy(H, Top) = "merge_right",
         heap' = merge_inner(H, Top.curr, Top.right, Top.rightparent, Top.parentslot),
         EraseReturns(Found(TRUE, up))
  PROVE  TypeOK' /\ Phase(Q)'
<1>a. PICK a, p, d, s, l, G : a = Top.curr /\ p = Top.parent /\ d = Top.right /\ s = Top.parentslot
                              /\ l = heap[Top.curr].level /\ G = heap'
  OBVIOUS
<1>1. /\ H \in Heaps /\ m_root # NULL /\ Shape(H, m_root, {}, {}, Q) /\ Filled(H, {a}, m_root, 1)
      /\ p \in Allocated(H) /\ H[p].level > 1 /\ H[p].level > l /\ H[a].level = l /\ l \in Nat
      /\ slotuse(H, a) + 1 = mininnerslots /\ slotuse(H, p) \in Nat
      /\ childid(H, p, s) = a
      /\ Above(stack).curr = p /\ Above(stack).slot = s
  <2>1. IsClimbing(H, Q, a, p, l)
    BY <1>a, ClimbingIs
  <2> QED
    BY <2>1, <1>a DEF IsClimbing
<1>2. /\ TypeOK /\ IsRising(R) /\ Going(EraseKinds) /\ IsOpened(R, H, Q) /\ IsPoorInner(H)
      /\ m_stats' = StatsPruned(heap, Top, m_stats) /\ UNCHANGED <<m_root, m_headleaf, m_tailleaf, op>>
      /\ Top.parent # NULL
  BY DEF Climbing, IsPoorInner
<1>3. HasRight(H, Top) /\ isfew(H, d)
  BY <1>2, <1>a DEF IsPoorInner, GoodRemedy
<1>4. s \in 0 .. slotuse(H, p) /\ s < slotuse(H, p) /\ d = childid(H, p, s + 1) /\ Top.rightparent = p
  BY <1>3, <1>a DEF HasRight
<1>5. s \in 0 .. slotuse(H, p) - 1 /\ s + 1 \in 1 .. slotuse(H, p)
  BY <1>1, <1>4
<1>6. a = childid(H, p, s)
  BY <1>1
<1>7. NextInners(H, m_root, Q, a, d)
  BY <1>1, <1>4, <1>6, NextInnersAre
<1>8. d # a /\ a \in InnerNodes(H)
  BY <1>7 DEF NextInners
<1>9. slotuse(H, a) \in Nat
  BY <1>1, <1>8, InnerNode
<1>10. PICK F : F = {a}
  OBVIOUS
<1>11. Filled(H, F, m_root, 1) /\ F \subseteq {a, d}
  BY <1>1, <1>10
<1>12. slotuse(H, d) = mininnerslots
  <2>1. d \in {a, d} /\ d \notin F
    BY <1>8, <1>10
  <2> QED
    BY <1>1, <1>3, <1>7, <1>11, <2>1, NeighbourFilled
<1>13. (slotuse(H, a) + slotuse(H, d)) + 1 \in mininnerslots .. innerslotmax
  BY <1>1, <1>9, <1>12, InnerMergeCounts
<1>14. slotkey(H, p, s) \in Key
  BY <1>1, <1>5, SlotKey
<1>15. G = merge_inner(H, a, d, p, s)
  BY <1>4, <1>a
<1>16. IsFixed(H, G, m_root, Q, {d}, l)
  <2>1. l = H[a].level
    BY <1>1
  <2> QED
    BY <1>1, <1>7, <1>11, <1>13, <1>14, <1>15, <2>1, MergeInnerIs, ZenonT(40)
<1>17. G \in Heaps /\ Kept(H, G, l) /\ Filled(G, {d}, m_root, 1) /\ Allocated(G) = Allocated(H)
  BY <1>16 DEF IsFixed
<1>18. /\ slotuse(G, p) = slotuse(H, p) /\ childid(G, p, s) = a
       /\ childid(G, p, s + 1) = d
  BY <1>1, <1>4, <1>17, KeptChild
<1>19. slotuse(G, a) # 0
  <2>1. a \in Allocated(G) /\ a \notin {d}
    BY <1>1, <1>8, <1>17, InnerNode
  <2>2. slotuse(G, a) >= IF a # m_root THEN mininnerslots ELSE IF isleafnode(G, a) THEN 1 ELSE 1
    BY <1>17, <2>1 DEF Filled
  <2>3. slotuse(G, a) \in Nat
    BY <1>17, <2>1, NodeIs
  <2> QED
    BY <2>2, <2>3, Sizes
<1>20. EmptySlot(G, Above(stack)) = s + 1
  BY <1>1, <1>18, <1>19 DEF EmptySlot
<1>21. PICK b : b = childid(G, Top.parent, EmptySlot(G, Above(stack)))
  OBVIOUS
<1>22. b = d
  BY <1>18, <1>20, <1>21, <1>a
<1>23. EmptySlot(G, Above(stack)) \in 1 .. slotuse(G, Top.parent)
  BY <1>5, <1>18, <1>20, <1>a
<1>24. IsFixed(H, G, m_root, Q, {b}, heap[Top.curr].level)
  BY <1>16, <1>22, <1>a
<1>25. heap' = G
  BY <1>a
<1> QED
  BY <1>2, <1>21, <1>23, <1>24, <1>25, InnerMergeGoesUp

LEMMA InnerShiftLeft ==
  ASSUME NEW R, NEW H, NEW Q, Climbing(R, H, Q), NEW up \in Key \cup {NULL},
         Remedy(H, Top) = "shift_left",
         heap' = shift_left_inner(H, Top.curr, Top.right, Top.rightparent, Top.parentslot),
         EraseReturns(Found(FALSE, up))
  PROVE  TypeOK' /\ Phase(Q)'
<1>a. PICK a, p, d, s, l, G : a = Top.curr /\ p = Top.parent /\ d = Top.right /\ s = Top.parentslot
                              /\ l = heap[Top.curr].level /\ G = heap'
  OBVIOUS
<1>1. /\ H \in Heaps /\ m_root # NULL /\ Shape(H, m_root, {}, {}, Q) /\ Filled(H, {a}, m_root, 1)
      /\ p \in Allocated(H) /\ H[p].level > 1 /\ H[a].level = l /\ l \in Nat
      /\ slotuse(H, a) + 1 = mininnerslots /\ slotuse(H, p) \in Nat
      /\ childid(H, p, s) = a
  <2>1. IsClimbing(H, Q, a, p, l)
    BY <1>a, ClimbingIs
  <2> QED
    BY <2>1, <1>a DEF IsClimbing
<1>2. /\ TypeOK /\ IsRising(R) /\ Going(EraseKinds) /\ IsOpened(R, H, Q) /\ IsPoorInner(H)
      /\ m_stats' = StatsPruned(heap, Top, m_stats) /\ UNCHANGED <<m_root, m_headleaf, m_tailleaf, op>>
  BY DEF Climbing
<1>3. HasRight(H, Top) /\ ~isfew(H, d)
  BY <1>2, <1>a DEF IsPoorInner, GoodRemedy
<1>4. s \in 0 .. slotuse(H, p) /\ s < slotuse(H, p) /\ d = childid(H, p, s + 1) /\ Top.rightparent = p
  BY <1>3, <1>a DEF HasRight
<1>5. s \in 0 .. slotuse(H, p) - 1
  BY <1>1, <1>4
<1>6. a = childid(H, p, s)
  BY <1>1
<1>7. NextInners(H, m_root, Q, a, d)
  BY <1>1, <1>4, <1>6, NextInnersAre
<1>8. PICK F : F = {a}
  OBVIOUS
<1>9. Filled(H, F, m_root, 1) /\ F \subseteq {a, d}
  BY <1>1, <1>8
<1>10. slotkey(H, p, s) \in Key /\ H[p].level > 0
  <2>1. H[p].level \in Nat
    BY <1>1, NodeIs
  <2> QED
    BY <1>1, <1>5, <2>1, SlotKey
<1>11. G = shift_left_inner(H, a, d, p, s) /\ l = H[a].level
  BY <1>1, <1>4, <1>a
<1>12. IsFixed(H, G, m_root, Q, {}, l)
  BY <1>1, <1>3, <1>7, <1>9, <1>10, <1>11, ShiftLeftInnerIs
<1>13. IsFixed(H, G, m_root, Q, {}, heap[Top.curr].level) /\ heap' = G
  BY <1>12, <1>a
<1> QED
  BY <1>2, <1>13, InnerGoesUp

LEMMA InnerShiftRight ==
  ASSUME NEW R, NEW H, NEW Q, Climbing(R, H, Q), NEW up \in Key \cup {NULL},
         Remedy(H, Top) = "shift_right",
         heap' = shift_right_inner(H, Top.left, Top.curr, Top.leftparent, Top.parentslot - 1),
         EraseReturns(Found(FALSE, up))
  PROVE  TypeOK' /\ Phase(Q)'
<1>a. PICK a, p, d, s, l, G : a = Top.curr /\ p = Top.parent /\ d = Top.left /\ s = Top.parentslot - 1
                              /\ l = heap[Top.curr].level /\ G = heap'
  OBVIOUS
<1>1. /\ H \in Heaps /\ m_root # NULL /\ Shape(H, m_root, {}, {}, Q) /\ Filled(H, {a}, m_root, 1)
      /\ p \in Allocated(H) /\ H[p].level > 1 /\ H[a].level = l /\ l \in Nat
      /\ slotuse(H, a) + 1 = mininnerslots /\ slotuse(H, p) \in Nat
      /\ childid(H, p, Top.parentslot) = a
  <2>1. IsClimbing(H, Q, a, p, l)
    BY <1>a, ClimbingIs
  <2> QED
    BY <2>1, <1>a DEF IsClimbing
<1>2. /\ TypeOK /\ IsRising(R) /\ Going(EraseKinds) /\ IsOpened(R, H, Q) /\ IsPoorInner(H)
      /\ m_stats' = StatsPruned(heap, Top, m_stats) /\ UNCHANGED <<m_root, m_headleaf, m_tailleaf, op>>
  BY DEF Climbing
<1>3. HasLeft(H, Top) /\ ~isfew(H, d)
  BY <1>2, <1>a DEF IsPoorInner, GoodRemedy
<1>4. Top.parentslot \in 1 .. slotuse(H, p) /\ d = childid(H, p, s) /\ Top.leftparent = p
  BY <1>3, <1>a DEF HasLeft
<1>5. s \in 0 .. slotuse(H, p) /\ s < slotuse(H, p) /\ s + 1 = Top.parentslot /\ s \in 0 .. slotuse(H, p) - 1
  BY <1>1, <1>4, <1>a
<1>6. a = childid(H, p, s + 1)
  BY <1>1, <1>5
<1>7. NextInners(H, m_root, Q, d, a)
  BY <1>1, <1>4, <1>5, <1>6, NextInnersAre
<1>8. PICK F : F = {a}
  OBVIOUS
<1>9. Filled(H, F, m_root, 1) /\ F \subseteq {d, a}
  BY <1>1, <1>8
<1>10. slotkey(H, p, s) \in Key /\ H[p].level > 0
  <2>1. H[p].level \in Nat
    BY <1>1, NodeIs
  <2> QED
    BY <1>1, <1>5, <2>1, SlotKey
<1>11. G = shift_right_inner(H, d, a, p, s)
  BY <1>4, <1>a
<1>12. l = H[d].level
  BY <1>1, <1>7 DEF NextInners
<1>13. IsFixed(H, G, m_root, Q, {}, l)
  BY <1>1, <1>3, <1>7, <1>9, <1>10, <1>11, <1>12, ShiftRightInnerIs
<1>14. IsFixed(H, G, m_root, Q, {}, heap[Top.curr].level) /\ heap' = G
  BY <1>13, <1>a
<1> QED
  BY <1>2, <1>14, InnerGoesUp

LEMMA InnerBalancedKeeps ==
  ASSUME TypeOK, NEW R, IsRising(R), Going(EraseKinds), NEW H, NEW Q, IsOpened(R, H, Q),
         NEW up \in Key \cup {NULL}, InnerBalanced(H, up), UNCHANGED <<m_headleaf, m_tailleaf, op>>
  PROVE  TypeOK' /\ Phase(Q)'
<1>1. /\ NeedsRemedy(H, Top.curr) /\ (Top.left # NULL \/ Top.right # NULL)
      /\ m_stats' = StatsPruned(heap, Top, m_stats) /\ UNCHANGED m_root
  BY DEF InnerBalanced
<1>2. IsPoorInner(H)
  BY <1>1, PoorInnerIs
<1>3. Climbing(R, H, Q)
  BY <1>1, <1>2 DEF Climbing
<1>4. \/ /\ Remedy(H, Top) = "merge_left"
         /\ heap' = merge_inner(H, Top.left, Top.curr, Top.leftparent, Top.parentslot - 1)
         /\ EraseReturns(Found(TRUE, up))
      \/ /\ Remedy(H, Top) = "merge_right"
         /\ heap' = merge_inner(H, Top.curr, Top.right, Top.rightparent, Top.parentslot)
         /\ EraseReturns(Found(TRUE, up))
      \/ /\ Remedy(H, Top) = "shift_left"
         /\ heap' = shift_left_inner(H, Top.curr, Top.right, Top.rightparent, Top.parentslot)
         /\ EraseReturns(Found(FALSE, up))
      \/ /\ Remedy(H, Top) = "shift_right"
         /\ heap' = shift_right_inner(H, Top.left, Top.curr, Top.leftparent, Top.parentslot - 1)
         /\ EraseReturns(Found(FALSE, up))
  BY DEF InnerBalanced
<1> QED
  BY <1>3, <1>4, InnerMergeLeft, InnerMergeRight, InnerShiftLeft, InnerShiftRight

LEMMA EraseAboveKeeps ==
  ASSUME TypeOK, NEW R, Phase(R), EraseAbove
  PROVE  TypeOK' /\ \E Q : Phase(Q)'
<1>1. /\ IsRising(R) /\ UNCHANGED <<m_headleaf, m_tailleaf, op>> /\ Going(EraseKinds)
      /\ \E H, Q, up : /\ IsOpened(R, H, Q) /\ up \in Key \cup {NULL}
                       /\ InnerKept(H, up) \/ RootReplaced(H) \/ InnerBalanced(H, up)
  BY EraseAboveIs
<1>2. PICK H, Q, up : /\ IsOpened(R, H, Q) /\ up \in Key \cup {NULL}
                      /\ InnerKept(H, up) \/ RootReplaced(H) \/ InnerBalanced(H, up)
  BY <1>1
<1>3. CASE InnerKept(H, up)
  BY <1>1, <1>2, <1>3, InnerKeptKeeps
<1>4. CASE RootReplaced(H)
  BY <1>1, <1>2, <1>4, RootReplacedKeeps
<1>5. CASE InnerBalanced(H, up)
  BY <1>1, <1>2, <1>5, InnerBalancedKeeps
<1> QED
  BY <1>2, <1>3, <1>4, <1>5

-----------------------------------------------------------------------------
(* Clear                                                                   *)

\* clear visits every node.
LEMMA SubtreeIs ==
  ASSUME heap \in Heaps, m_root # NULL, NEW R, Tree(heap, m_root, {}, R)
  PROVE  Subtree = Allocated(heap)
<1>a. PICK A, lv, K : A = Allocated(heap) /\ lv = LevelsOf(heap) /\ K = KidsOf(heap)
  OBVIOUS
<1>b. PICK C : C = [n \in A |-> Children(heap, n)]
  OBVIOUS
<1>1. Forest(A, lv, K, {m_root}, R)
  <2>1. Forest(Allocated(heap), LevelsOf(heap), KidsOf(heap), ({m_root} \ {NULL}) \cup {}, R)
    BY TreeIs
  <2>2. ({m_root} \ {NULL}) \cup {} = {m_root}
    OBVIOUS
  <2> QED
    BY <1>a, <2>1, <2>2
<1>2. /\ \A n \in A : lv[n] = heap[n].level /\ K[n] = Kids(heap, n)
      /\ lv \in [A -> Nat] /\ K \in [A -> Seq(A)]
  BY <1>1, <1>a, LevelAt DEF Forest, ForestKids
<1>3. m_root \in A /\ \A n \in A : lv[n] <= lv[m_root]
  <2>1. m_root \in Allocated(heap) /\ \A n \in Allocated(heap) \ {} : heap[n].level <= heap[m_root].level
    BY RootIs
  <2> QED
    BY <1>a, <1>2, <2>1
<1>4. ASSUME NEW n \in A
      PROVE  /\ C[n] = {K[n][i] : i \in 1 .. Len(K[n])} /\ C[n] \subseteq A
             /\ \A c \in C[n] : lv[c] < lv[n]
  <2>1. K[n] \in Seq(A) /\ DOMAIN K[n] = 1 .. Len(K[n]) /\ \A i \in 1 .. Len(K[n]) : K[n][i] \in A
    BY <1>1, ForestTypes
  <2>2. C[n] = {K[n][i] : i \in 1 .. Len(K[n])}
    <3>1. C[n] = Children(heap, n) /\ K[n] = Kids(heap, n)
      BY <1>2, <1>b
    <3>2. CASE isleafnode(heap, n)
      <4>1. C[n] = {} /\ K[n] = <<>>
        BY <3>1, <3>2 DEF Children, Kids
      <4> QED
        BY <4>1
    <3>3. CASE ~isleafnode(heap, n)
      BY <2>1, <3>1, <3>3 DEF Children, Kids, ToSet
    <3> QED
      BY <3>2, <3>3
  <2>3. \A i \in 1 .. Len(K[n]) : lv[K[n][i]] = lv[n] - 1
    BY <1>1 DEF Forest, ForestKids
  <2>4. \A c \in C[n] : c \in A /\ lv[c] = lv[n] - 1
    BY <2>1, <2>2, <2>3
  <2>5. lv[n] \in Nat
    BY <1>2
  <2> QED
    BY <2>2, <2>4, <2>5
<1>5. C \in [A -> SUBSET A] /\ \A n \in A : \A c \in C[n] : lv[c] < lv[n]
  BY <1>4, <1>b
<1>6. \A n \in A \ {m_root} : \E p \in A : n \in C[p]
  <2> SUFFICES ASSUME NEW n \in A \ {m_root} PROVE \E p \in A : n \in C[p]
    OBVIOUS
  <2>1. PICK p \in A : \E i \in 1 .. Len(K[p]) : K[p][i] = n
    BY <1>1 DEF Forest, HasParent
  <2> QED
    BY <1>4, <2>1
<1>7. \E f : IsBelow(A, C, f)
  <2>1. lv[m_root] \in Nat
    BY <1>2, <1>3
  <2> QED
    BY <1>2, <1>3, <1>5, <2>1, BelowExists
<1>8. PICK f : f = CHOOSE g : g = [n \in A |-> {n} \cup UNION {g[c] : c \in Children(heap, n)}]
  OBVIOUS
<1>9. ASSUME NEW g
      PROVE  IsBelow(A, C, g) <=> g = [n \in A |-> {n} \cup UNION {g[c] : c \in Children(heap, n)}]
  BY <1>b DEF IsBelow
<1>10. IsBelow(A, C, f)
  BY <1>7, <1>8, <1>9
<1>11. A \subseteq f[m_root]
  <2>1. PICK r : r = m_root
    OBVIOUS
  <2>2. r \in A /\ (\A n \in A : lv[n] <= lv[r]) /\ \A n \in A \ {r} : \E p \in A : n \in C[p]
    BY <1>3, <1>6, <2>1
  <2>3. A \subseteq f[r]
    <3>1. lv \in [A -> Nat]
      BY <1>2
    <3>2. C \in [A -> SUBSET A]
      BY <1>5
    <3>3. \A n \in A : \A c \in C[n] : lv[c] < lv[n]
      BY <1>5
    <3>4. \A n \in A : lv[n] <= lv[r]
      BY <2>2
    <3>5. \A n \in A \ {r} : \E p \in A : n \in C[p]
      BY <2>2
    <3>6. r \in A
      BY <2>2
    <3> QED
      BY <3>1, <3>2, <3>3, <3>4, <3>5, <3>6, <1>10, BelowRoot
  <2> QED
    BY <2>1, <2>3
<1>12. Subtree = f[m_root]
  BY <1>8, <1>a DEF Subtree
<1>13. f[m_root] \subseteq A
  <2>1. \A m \in A : f[m] \subseteq A
    <3>1. lv \in [A -> Nat]
      BY <1>2
    <3>2. C \in [A -> SUBSET A]
      BY <1>5
    <3>3. \A n \in A : \A c \in C[n] : lv[c] < lv[n]
      BY <1>5
    <3> QED
      BY <3>1, <3>2, <3>3, <1>10, BelowWithin
  <2> QED
    BY <1>3, <2>1
<1> QED
  BY <1>11, <1>12, <1>13, <1>a

LEMMA ClearKeeps ==
  ASSUME TypeOK, NEW R, Phase(R), Clear
  PROVE  TypeOK' /\ \E Q : Phase(Q)'
<1>1. AtRest(R) /\ heap \in Heaps
  BY PhaseIs, CallIs DEF Clear
<1>2. Tree(heap, m_root, {}, R) /\ m_root # NULL
  BY <1>1 DEF AtRest, Shape, Clear
<1>3. Allocated(heap) \subseteq Subtree
  BY <1>1, <1>2, SubtreeIs
<1>4. PICK G, Q : G = heap' /\ Q = [n \in {} |-> {}]
  OBVIOUS
<1>5. \A n \in NodeId : G[n] = NULL
  <2>1. heap' = [n \in NodeId |-> IF n \in Subtree THEN NULL ELSE heap[n]]
    BY DEF Clear
  <2>2. ASSUME NEW n \in NodeId PROVE G[n] = NULL
    <3>1. G[n] = IF n \in Subtree THEN NULL ELSE heap[n]
      BY <1>4, <2>1
    <3>2. n \notin Subtree => heap[n] = NULL
      BY <1>3 DEF Allocated
    <3> QED
      BY <3>1, <3>2
  <2> QED
    BY <2>2
<1>6. G = [n \in NodeId |-> G[n]]
  BY <1>4 DEF Clear
<1>7. Allocated(G) = {} /\ G \in Heaps
  BY <1>5, <1>6 DEF Allocated, Heaps
<1>8. /\ Shape(G, NULL, {}, {}, Q) /\ Filled(G, {}, NULL, 1)
      /\ Counted(G, [itemcount |-> 0, leaves |-> 0, innernodes |-> 0], 0)
  BY <1>4, <1>7, NoNodes
<1>9. /\ m_root' = NULL /\ m_headleaf' = NULL /\ m_tailleaf' = NULL
      /\ m_stats' = [itemcount |-> 0, leaves |-> 0, innernodes |-> 0]
      /\ op' = op /\ stack' = stack /\ ret' = ret
  BY DEF Clear, callVars
<1>10. AtRest(Q)'
  BY <1>1, <1>4, <1>8, <1>9 DEF AtRest
<1>11. TypeOK'
  BY <1>4, <1>7, <1>9 DEF TypeOK, Heaps
<1> QED
  BY <1>10, <1>11 DEF Phase

-----------------------------------------------------------------------------
(* The invariant                                                           *)

LEMMA InitHolds == Init => IInv
<1> SUFFICES ASSUME Init PROVE IInv
  OBVIOUS
<1>1. PICK Q : Q = [n \in {} |-> {}]
  OBVIOUS
<1>2. /\ heap = [n \in NodeId |-> NULL] /\ m_root = NULL /\ m_headleaf = NULL /\ m_tailleaf = NULL
      /\ m_stats = [itemcount |-> 0, leaves |-> 0, innernodes |-> 0]
      /\ op = NULL /\ stack = <<>> /\ ret = NULL
  BY DEF Init
<1>3. Allocated(heap) = {} /\ heap \in Heaps
  BY <1>2 DEF Allocated, Heaps
<1>4. TypeOK
  BY <1>2, <1>3 DEF TypeOK, Heaps
<1>5. AtRest(Q)
  BY <1>1, <1>2, <1>3, NoNodes DEF AtRest
<1> QED
  BY <1>4, <1>5 DEF IInv, Phase

LEMMA InsertKeeps ==
  ASSUME MergedFits, TypeOK, NEW R, Phase(R), InsertStep
  PROVE  TypeOK' /\ \E Q : Phase(Q)'
<1>1. CASE InsertDescend
  BY <1>1, InsertDescendKeeps
<1>2. CASE InsertIntoLeaf
  BY <1>2, InsertIntoLeafKeeps
<1>3. CASE InsertSplitLeaf
  BY <1>3, InsertSplitLeafKeeps
<1>4. CASE InsertPass
  BY <1>4, InsertPassKeeps
<1>5. CASE InsertIntoInner
  BY <1>5, InsertIntoInnerKeeps
<1>6. CASE InsertSplitInner
  BY <1>6, InsertSplitInnerKeeps
<1>7. CASE InsertFinish
  BY <1>7, InsertFinishKeeps
<1> QED
  BY <1>1, <1>2, <1>3, <1>4, <1>5, <1>6, <1>7 DEF InsertStep

LEMMA EraseKeeps ==
  ASSUME MergedFits, TypeOK, NEW R, Phase(R), EraseStep
  PROVE  TypeOK' /\ \E Q : Phase(Q)'
<1>1. CASE EraseDescend
  BY <1>1, EraseDescendKeeps
<1>2. CASE EraseMiss
  BY <1>2, EraseMissKeeps
<1>3. CASE EraseHit
  BY <1>3, EraseHitKeeps
<1>4. CASE EraseNextSlot
  BY <1>4, EraseNextSlotKeeps
<1>5. CASE ErasePass
  BY <1>5, ErasePassKeeps
<1>6. CASE EraseAbove
  BY <1>6, EraseAboveKeeps
<1>7. CASE EraseFinish
  BY <1>7, EraseFinishKeeps
<1> QED
  BY <1>1, <1>2, <1>3, <1>4, <1>5, <1>6, <1>7 DEF EraseStep

LEMMA NothingKeeps ==
  ASSUME TypeOK, NEW R, Phase(R), UNCHANGED vars
  PROVE  TypeOK' /\ Phase(R)'
<1>1. UNCHANGED <<heap, m_root, m_headleaf, m_tailleaf, m_stats, op, stack, ret>>
  BY DEF vars, treeVars, callVars
<1>2. TypeOK'
  BY <1>1 DEF TypeOK
<1>3. CASE AtRest(R)
  BY <1>1, <1>2, <1>3 DEF AtRest, Phase
<1>4. CASE InsertDown(R)
  BY <1>1, <1>2, <1>4 DEF InsertDown, Phase, Going
<1>5. CASE InsertUp(R)
  BY <1>1, <1>2, <1>5 DEF InsertUp, Phase, Going
<1>6. CASE InsertSplit(R)
  BY <1>1, <1>2, <1>6 DEF InsertSplit, Phase, Going, Top
<1>7. CASE EraseDown(R)
  BY <1>1, <1>2, <1>7 DEF EraseDown, Phase, Going
<1>8. CASE EraseUp(R)
  BY <1>1, <1>2, <1>8 DEF EraseUp, Phase, Going
<1>9. CASE EraseMerged(R)
  BY <1>1, <1>2, <1>9 DEF EraseMerged, Phase, Going, Top
<1> QED
  BY <1>2, <1>3, <1>4, <1>5, <1>6, <1>7, <1>8, <1>9 DEF Phase

LEMMA NextKeeps ==
  ASSUME MergedFits, IInv, [Next]_vars
  PROVE  IInv'
<1>1. PICK R : Phase(R)
  BY DEF IInv
<1>2. TypeOK
  BY DEF IInv
<1>3. TypeOK' /\ \E Q : Phase(Q)'
  <2>1. CASE UNCHANGED vars
    BY <1>1, <1>2, <2>1, NothingKeeps
  <2>2. CASE \E key \in Key, data \in Data : InsertStart(key, data)
    BY <1>1, <1>2, <2>2, InsertStartKeeps
  <2>3. CASE \E key \in Key, kind \in KeyKinds : EraseStart(kind, key)
    BY <1>1, <1>2, <2>3, EraseStartKeeps
  <2>4. CASE \E leaf \in NodeId, slot \in 0 .. leafslotmax - 1 : EraseIterStart(leaf, slot)
    <3>1. PICK leaf \in NodeId, slot \in 0 .. leafslotmax - 1 : EraseIterStart(leaf, slot)
      BY <2>4
    <3>2. slot \in Nat
      BY <3>1, Sizes
    <3> QED
      BY <1>1, <1>2, <3>1, <3>2, EraseIterStartKeeps
  <2>5. CASE Clear
    BY <1>1, <1>2, <2>5, ClearKeeps
  <2>6. CASE InsertStep
    BY <1>1, <1>2, <2>6, InsertKeeps
  <2>7. CASE EraseStep
    BY <1>1, <1>2, <2>7, EraseKeeps
  <2> QED
    BY <2>1, <2>2, <2>3, <2>4, <2>5, <2>6, <2>7 DEF Next, Step
<1> QED
  BY <1>3 DEF IInv

\* The invariant of every behaviour.
THEOREM Inductive ==
  ASSUME MergedFits
  PROVE  Spec => []IInv
<1>1. Init => IInv
  BY InitHolds
<1>2. IInv /\ [Next]_vars => IInv'
  BY NextKeeps
<1> QED
  BY <1>1, <1>2, PTL DEF Spec

\* The state is typed, in every state of every call: the addresses in it are
\* nodes, frames hold slots that exist, and the counters never go below zero.
THEOREM TypeCorrect ==
  ASSUME MergedFits
  PROVE  Spec => []TypeOK
<1>1. IInv => TypeOK
  BY DEF IInv
<1> QED
  BY <1>1, Inductive, PTL

-----------------------------------------------------------------------------
(* What the invariant says                                                 *)

LEMMA PhaseHolds ==
  ASSUME NEW R, Phase(R)
  PROVE  \E E : NodesHold(heap, E)
<1>1. CASE AtRest(R)
  BY <1>1 DEF AtRest, Shape
<1>2. CASE InsertDown(R)
  BY <1>2 DEF InsertDown, Shape
<1>3. CASE InsertUp(R)
  BY <1>3 DEF InsertUp, Shape
<1>4. CASE InsertSplit(R)
  BY <1>4 DEF InsertSplit, Shape
<1>5. CASE EraseDown(R)
  BY <1>5 DEF EraseDown, Shape
<1>6. CASE EraseUp(R)
  BY <1>6 DEF EraseUp, Shape
<1>7. CASE EraseMerged(R)
  BY <1>7 DEF EraseMerged, Shape
<1> QED
  BY <1>1, <1>2, <1>3, <1>4, <1>5, <1>6, <1>7 DEF Phase

\* No node ever holds more than its arrays have room for, also while the nodes
\* of a level are merged, shifted and split (CapacityKept).
THEOREM CapacityHolds ==
  ASSUME MergedFits
  PROVE  Spec => []CapacityKept
<1>1. IInv => CapacityKept
  <2> SUFFICES ASSUME IInv PROVE CapacityKept
    OBVIOUS
  <2>1. heap \in Heaps
    BY DEF IInv, TypeOK, Heaps
  <2>2. PICK E : NodesHold(heap, E)
    BY PhaseHolds DEF IInv
  <2>3. \A n \in Allocated(heap) : Capacity(heap, n)
    BY <2>1, <2>2, CapacityIs
  <2> QED
    BY <2>3 DEF Capacity, CapacityKept
<1> QED
  BY <1>1, Inductive, PTL

\* The emptied child is a level below the last frame.
LEMMA HollowBelow ==
  ASSUME heap \in Heaps, NEW R, stack \in Seq(EraseFrame), stack # <<>>,
         Path(heap, m_root, stack), Paused(heap, stack),
         EmptySlot(heap, Top) \in 1 .. slotuse(heap, Top.curr),
         Shape(heap, m_root, {}, Hollow(heap, Top), R)
  PROVE  \A n \in Hollow(heap, Top) :
           n \in Allocated(heap) /\ heap[n].level < heap[Last(stack).curr].level
<1>c. PICK c : c = Top.curr
  OBVIOUS
<1>s. PICK s : s = EmptySlot(heap, Top)
  OBVIOUS
<1>n. PICK n : n = childid(heap, c, s)
  OBVIOUS
<1>L. PICK L : L = Len(stack)
  OBVIOUS
<1>1. Hollow(heap, Top) = {n} /\ s \in 1 .. slotuse(heap, c)
  BY <1>c, <1>n, <1>s DEF Hollow
<1>2. L \in 1 .. L /\ stack[L] = Top /\ Last(stack) = Top
  BY <1>L DEF Last, Top
<1>3. c \in Allocated(heap) /\ heap[c].level > 0
  <2>1. \A j \in 1 .. L : stack[j].curr \in Allocated(heap)
    BY <1>L DEF Path
  <2>2. AtChild(heap, Last(stack))
    BY DEF Paused
  <2> QED
    BY <1>2, <1>c, <2>1, <2>2 DEF AtChild
<1>4. NodesHold(heap, {n}) /\ Tree(heap, m_root, {}, R)
  BY <1>1 DEF Shape
<1>5. slotuse(heap, n) = 0 /\ n \in Allocated(heap)
  BY <1>4 DEF NodesHold
<1>6. slotuse(heap, c) \in Nat /\ heap[c].level \in Nat
  BY <1>3, NodeIs
<1>7. n # c /\ s \in 0 .. slotuse(heap, c)
  BY <1>1, <1>5, <1>6
<1>8. heap[childid(heap, c, s)].level = heap[c].level - 1
  BY <1>3, <1>4, <1>7, ChildOf
<1>9. heap[n].level < heap[c].level
  BY <1>6, <1>8, <1>n
<1> QED
  BY <1>1, <1>2, <1>5, <1>9, <1>c

LEMMA PhaseAdjacent ==
  ASSUME TypeOK, NEW R, Phase(R), Going(EraseKinds)
  PROVE  \A i \in DOMAIN stack : Adjacent(heap, stack[i])
<1>0. heap \in Heaps
  BY DEF TypeOK, Heaps
<1>k. op \notin {NULL} /\ op.kind \in EraseKinds /\ op.kind \notin InsertKinds
  BY DEF Going, EraseKinds, KeyKinds, InsertKinds
<1>1. CASE AtRest(R)
  BY <1>1, <1>k DEF AtRest
<1>2. CASE InsertDown(R) \/ InsertUp(R) \/ InsertSplit(R)
  BY <1>2, <1>k DEF InsertDown, InsertUp, InsertSplit, Going
<1>3. CASE EraseDown(R)
  <2>1. /\ stack \in Seq(EraseFrame) /\ Path(heap, m_root, stack) /\ Surrounded(heap, R, stack)
        /\ Shape(heap, m_root, {}, {}, R) /\ Filled(heap, {}, m_root, 1)
    BY <1>3 DEF EraseDown
  <2> QED
    BY <1>0, <2>1, StackAdjacent
<1>4. CASE EraseUp(R)
  <2>1. /\ stack \in Seq(EraseFrame) /\ Path(heap, m_root, stack) /\ Surrounded(heap, R, stack)
        /\ Shape(heap, m_root, {}, {}, R) /\ Filled(heap, {}, m_root, 1)
    BY <1>4 DEF EraseUp
  <2> QED
    BY <1>0, <2>1, StackAdjacent
<1>5. CASE EraseMerged(R)
  <2>1. /\ stack \in Seq(EraseFrame) /\ Path(heap, m_root, stack) /\ Surrounded(heap, R, stack)
        /\ stack # <<>> /\ Paused(heap, stack) /\ EmptySlot(heap, Top) \in 1 .. slotuse(heap, Top.curr)
        /\ Shape(heap, m_root, {}, Hollow(heap, Top), R) /\ Filled(heap, Hollow(heap, Top), m_root, 1)
    BY <1>5 DEF EraseMerged
  <2>2. \A n \in Hollow(heap, Top) : n \in Allocated(heap) /\ heap[n].level < heap[Last(stack).curr].level
    BY <1>0, <2>1, HollowBelow
  <2> QED
    BY <1>0, <2>1, <2>2, StackAdjacent
<1> QED
  BY <1>1, <1>2, <1>3, <1>4, <1>5 DEF Phase

\* What erase_one_descend took for the neighbours of a node on the way down
\* still are when it comes back up, whatever the levels below have merged and
\* freed (SiblingsStillAdjacent).
THEOREM SiblingsAdjacent ==
  ASSUME MergedFits
  PROVE  Spec => []SiblingsStillAdjacent
<1>1. IInv => SiblingsStillAdjacent
  <2> SUFFICES ASSUME IInv, Going(EraseKinds)
               PROVE  SiblingsStillAdjacent
    BY DEF SiblingsStillAdjacent
  <2>1. \A i \in DOMAIN stack : Adjacent(heap, stack[i])
    BY PhaseAdjacent DEF IInv
  <2> QED
    BY <2>1 DEF Adjacent, SiblingsStillAdjacent
<1> QED
  BY <1>1, Inductive, PTL

-----------------------------------------------------------------------------
(* The tree between two calls                                              *)

LEMMA RestIs ==
  ASSUME IInv, Idle
  PROVE  /\ heap \in Heaps /\ Subtree = Allocated(heap)
         /\ \E R : Shape(heap, m_root, {}, {}, R) /\ Filled(heap, {}, m_root, 1)
                   /\ Counted(heap, m_stats, 0)
<1>1. heap \in Heaps
  BY DEF IInv, TypeOK, Heaps
<1>2. PICK R : AtRest(R)
  BY PhaseIs DEF IInv
<1>3. Shape(heap, m_root, {}, {}, R) /\ Filled(heap, {}, m_root, 1) /\ Counted(heap, m_stats, 0)
  BY <1>2 DEF AtRest
<1>4. Tree(heap, m_root, {}, R)
  BY <1>3 DEF Shape
<1>5. Subtree = Allocated(heap)
  <2>1. CASE m_root = NULL
    <3>1. Allocated(heap) = {}
      BY <1>4, <2>1 DEF Tree
    <3>2. Subtree = {}
      BY <2>1 DEF Subtree
    <3> QED
      BY <3>1, <3>2
  <2>2. CASE m_root # NULL
    BY <1>1, <1>4, <2>2, SubtreeIs
  <2> QED
    BY <2>1, <2>2
<1> QED
  BY <1>1, <1>3, <1>5

\* Between two calls the nodes are filled (MinFill): a leaf other than the root
\* holds the least it may and an inner node, too, when the minimum is the same
\* for both, since leaves are compared with the one of inner nodes.
THEOREM MinFillHolds ==
  ASSUME minleafslots = mininnerslots
  PROVE  Spec => []MinFill
<1>1. MergedFits
  BY Sizes DEF MergedFits
<1>2. IInv => MinFill
  <2> SUFFICES ASSUME IInv, Idle, NEW n \in Subtree
               PROVE  slotuse(heap, n) >= IF n = m_root THEN 1
                                          ELSE IF isleafnode(heap, n) THEN minleafslots
                                          ELSE mininnerslots
    BY DEF MinFill
  <2>1. n \in Allocated(heap) /\ Filled(heap, {}, m_root, 1)
    BY RestIs
  <2>2. slotuse(heap, n) >= IF n # m_root THEN mininnerslots ELSE IF isleafnode(heap, n) THEN 1 ELSE 1
    BY <2>1 DEF Filled
  <2> QED
    BY <2>2
<1> QED
  BY <1>1, <1>2, Inductive, PTL

-----------------------------------------------------------------------------
(* The leaves of the tree and the chain                                    *)

LEMMA ChainIs ==
  ASSUME heap \in Heaps, m_root # NULL, NEW R, Tree(heap, m_root, {}, R), Linked(heap, {}, R),
         Ends(heap, {}, m_root, m_headleaf, m_tailleaf)
  PROVE  IsTheChain(heap, R, m_root, m_headleaf, m_tailleaf, Chain)
<1>s. PICK s : s = LeafLists(heap)[m_root]
  OBVIOUS
<1>1. Lists(s, Leaves(heap), R)
  BY <1>s, LeafListsList
<1>2. LineOrder(Leaves(heap), R) /\ NULL \notin Leaves(heap)
  <2>1. LineOrder(Leaves(heap) \ {}, R) /\ NULL \notin Leaves(heap)
    BY LeafLine
  <2>2. Leaves(heap) \ {} = Leaves(heap)
    OBVIOUS
  <2> QED
    BY <2>1, <2>2
<1>3. Chained(Leaves(heap), R, Nexts(heap), Prevs(heap), NULL)
  <2>1. Leaves(heap) \ {} = Leaves(heap)
    OBVIOUS
  <2> QED
    BY <2>1 DEF Linked
<1>4. LinkedList(s, Nexts(heap), Prevs(heap), NULL)
  BY <1>1, <1>2, <1>3, ListLinks
<1>5. s \in Seq(Leaves(heap)) /\ Len(s) \in Nat /\ \A i \in 1 .. Len(s) : s[i] \in Leaves(heap)
  BY <1>1, ListIs
<1>6. /\ m_headleaf \in Leaves(heap) /\ Prevs(heap)[m_headleaf] = NULL
      /\ m_tailleaf \in Leaves(heap) /\ Nexts(heap)[m_tailleaf] = NULL
  BY DEF Ends, Prevs, Nexts
<1>7. m_headleaf = s[1] /\ Len(s) # 0
  <2>1. PICK i \in 1 .. Len(s) : s[i] = m_headleaf
    BY <1>1, <1>6, ListIs
  <2>2. i # 1 => Prevs(heap)[s[i]] = s[i - 1] /\ i - 1 \in 1 .. Len(s)
    BY <1>4, <1>5 DEF LinkedList
  <2>3. i = 1
    BY <1>2, <1>5, <1>6, <2>1, <2>2
  <2> QED
    BY <1>5, <2>1, <2>3
<1>8. m_tailleaf = s[Len(s)]
  <2>1. PICK i \in 1 .. Len(s) : s[i] = m_tailleaf
    BY <1>1, <1>6, ListIs
  <2>2. i # Len(s) => Nexts(heap)[s[i]] = s[i + 1] /\ i + 1 \in 1 .. Len(s)
    <3>1. i # Len(s) => Nexts(heap)[s[i]] = s[i + 1]
      BY <1>4 DEF LinkedList
    <3>n. PICK n \in Nat : n = Len(s)
      BY <1>5
    <3>2. i \in 1 .. n => (i # n => i + 1 \in 1 .. n)
      OBVIOUS
    <3> QED
      BY <3>1, <3>2, <3>n
  <2>3. i = Len(s)
    BY <1>2, <1>5, <1>6, <2>1, <2>2
  <2> QED
    BY <2>1, <2>3
<1>9. Len(s) <= Cardinality(NodeId) /\ Cardinality(NodeId) \in Nat
  <2>1. IsFiniteSet(Leaves(heap))
    BY AllocatedFinite
  <2>2. Len(s) = Cardinality(Leaves(heap))
    BY <1>1, <1>2, <2>1, ListLength
  <2>3. Leaves(heap) \subseteq NodeId
    BY DEF Leaves, Allocated
  <2>4. Cardinality(Leaves(heap)) <= Cardinality(NodeId)
    BY <2>3, NodeAssumption, FS_Subset
  <2>5. Cardinality(NodeId) \in Nat
    BY NodeAssumption, FS_CardinalityType
  <2> QED
    BY <2>2, <2>4, <2>5
<1>10. Chain = ChainFunction(heap)[<<Cardinality(NodeId), m_headleaf>>]
  BY DEF Chain, ChainFunction
<1>11. Chain = s
  <2>1. IsChain(Leaves(heap), NodeId \cup {NULL}, Nexts(heap), Cardinality(NodeId), ChainFunction(heap))
    BY ChainFunctionIs
  <2>2. Leaves(heap) \subseteq NodeId \cup {NULL} /\ NULL \in NodeId \cup {NULL}
    BY DEF Leaves, Allocated
  <2>3. s # <<>>
    BY <1>7
  <2>4. ChainFunction(heap)[<<Cardinality(NodeId), s[1]>>] = s
    <3>1. PICK L, D, nx, pv, g :
            /\ L = Leaves(heap) /\ D = NodeId \cup {NULL} /\ nx = Nexts(heap) /\ pv = Prevs(heap)
            /\ g = ChainFunction(heap)
      OBVIOUS
    <3>2. PICK C \in Nat : C = Cardinality(NodeId)
      BY <1>9
    <3>3. L \subseteq D /\ NULL \in D /\ NULL \notin L
      BY <1>2, <2>2, <3>1
    <3>4. IsChain(L, D, nx, C, g)
      BY <2>1, <3>1, <3>2
    <3>5. s \in Seq(L) /\ LinkedList(s, nx, pv, NULL)
      BY <1>4, <1>5, <3>1
    <3>6. Len(s) <= C
      BY <1>9, <3>2
    <3>7. Follows(g, C, s)
      BY <2>3, <3>3, <3>4, <3>5, <3>6, ChainFrom
    <3> QED
      BY <3>1, <3>2, <3>7 DEF Follows
  <2> QED
    BY <1>7, <1>10, <2>4
<1>12. s # <<>>
  BY <1>7
<1> QED
  BY <1>s, <1>1, <1>4, <1>5, <1>7, <1>8, <1>11, <1>12 DEF IsTheChain

\* The node a merge has emptied and no one has freed yet, and the two ends.
EmptyNow ==
  IF Going(EraseKinds) /\ stack # <<>> /\ ret # NULL /\ ret.fixmerge THEN Hollow(heap, Top) ELSE {}

EndsKept == Ends(heap, EmptyNow, m_root, m_headleaf, m_tailleaf)

LEMMA EmptyNext ==
  ASSUME NEW Q, Phase(Q)'
  PROVE  \A n \in EmptyNow' : slotuse(heap', n) = 0
<1>1. CASE AtRest(Q)' \/ InsertDown(Q)' \/ InsertUp(Q)' \/ InsertSplit(Q)'
  <2>1. ~Going(EraseKinds)'
    BY <1>1 DEF AtRest, InsertDown, InsertUp, InsertSplit, Going, InsertKinds, EraseKinds, KeyKinds
  <2> QED
    BY <2>1 DEF EmptyNow
<1>2. CASE EraseDown(Q)'
  BY <1>2 DEF EraseDown, EmptyNow
<1>3. CASE EraseUp(Q)'
  BY <1>3 DEF EraseUp, EmptyNow
<1>4. CASE EraseMerged(Q)'
  <2>1. NodesHold(heap', Hollow(heap, Top)')
    BY <1>4 DEF EraseMerged, Shape
  <2>2. EmptyNow' \subseteq Hollow(heap, Top)'
    BY DEF EmptyNow
  <2> QED
    BY <2>1, <2>2 DEF NodesHold
<1> QED
  BY <1>1, <1>2, <1>3, <1>4 DEF Phase

LEMMA NoneEmpty ==
  ASSUME NEW R, Phase(R),
         op = NULL \/ Going(InsertKinds) \/ ret = NULL \/ stack = <<>> \/ (ret.notFound /\ Returning(EraseKinds))
  PROVE  EmptyNow = {}
<1>1. ~(Going(EraseKinds) /\ stack # <<>> /\ ret # NULL /\ ret.fixmerge)
  <2> SUFFICES ASSUME Going(EraseKinds), stack # <<>>, ret # NULL, ret.fixmerge PROVE FALSE
    OBVIOUS
  <2>1. EraseMerged(R)
    BY PhaseIs DEF Returning
  <2>2. ~ret.notFound
    BY <2>1 DEF EraseMerged
  <2>3. op # NULL /\ ~Going(InsertKinds)
    BY DEF Going, InsertKinds, EraseKinds, KeyKinds
  <2> QED
    BY <2>2, <2>3
<1> QED
  BY <1>1 DEF EmptyNow

\* The leaves that are not empty keep their links.
LinksStay ==
  \A n \in Leaves(heap) \ EmptyNow :
    n \in Leaves(heap') /\ heap'[n].next = heap[n].next /\ heap'[n].prev = heap[n].prev
    /\ n \notin EmptyNow'

LEMMA EndsStay ==
  ASSUME EndsKept, LinksStay, m_root = NULL <=> m_root' = NULL, UNCHANGED <<m_headleaf, m_tailleaf>>
  PROVE  EndsKept'
BY DEF EndsKept, LinksStay, Ends

\* Steps that change no node.
LEMMA TreeStays ==
  ASSUME EndsKept, UNCHANGED treeVars, EmptyNow' \subseteq EmptyNow
  PROVE  EndsKept'
BY DEF EndsKept, Ends, treeVars

LEMMA PassiveEnds ==
  ASSUME NEW R, Phase(R), EndsKept,
         \/ InsertDescend \/ InsertPass \/ EraseDescend \/ EraseMiss \/ EraseNextSlot \/ ErasePass
         \/ EraseFinish \/ UNCHANGED vars
         \/ \E key \in Key, kind \in KeyKinds : EraseStart(kind, key)
         \/ \E leaf, slot : EraseIterStart(leaf, slot)
  PROVE  EndsKept'
<1>1. CASE InsertDescend \/ InsertPass
  <2>1. UNCHANGED treeVars /\ UNCHANGED op /\ Going(InsertKinds)
    BY <1>1 DEF InsertDescend, InsertPass, Calling, Returning
  <2>2. EmptyNow' = {}
    BY <2>1 DEF EmptyNow, Going, InsertKinds, EraseKinds, KeyKinds
  <2> QED
    BY <2>1, <2>2, TreeStays
<1>2. CASE EraseDescend
  <2>1. UNCHANGED treeVars /\ ret' = NULL
    BY <1>2 DEF EraseDescend, Calling
  <2> QED
    BY <2>1, TreeStays DEF EmptyNow
<1>3. CASE EraseMiss
  <2>1. UNCHANGED treeVars /\ ret' = NotFound
    BY <1>3 DEF EraseMiss, EraseReturns
  <2> QED
    BY <2>1, NoLeafResult, TreeStays DEF EmptyNow
<1>4. CASE EraseNextSlot
  <2>1. UNCHANGED treeVars /\ ret' = NULL
    BY <1>4 DEF EraseNextSlot
  <2> QED
    BY <2>1, TreeStays DEF EmptyNow
<1>5. CASE ErasePass
  <2>1. UNCHANGED treeVars /\ ret' = ret /\ Returning(EraseKinds) /\ ret.notFound
    BY <1>5 DEF ErasePass, EraseReturns
  <2>2. ret.fixmerge => EraseMerged(R)
    BY <2>1, PhaseIs
  <2>3. ~ret.fixmerge
    BY <2>1, <2>2 DEF EraseMerged
  <2> QED
    BY <2>1, <2>3, TreeStays DEF EmptyNow
<1>6. CASE EraseFinish
  <2>1. UNCHANGED <<heap, m_root, m_headleaf, m_tailleaf>> /\ ret' = NULL
    BY <1>6 DEF EraseFinish
  <2>2. EmptyNow' = {}
    BY <2>1 DEF EmptyNow
  <2> QED
    BY <2>1, <2>2 DEF EndsKept, Ends
<1>7. CASE UNCHANGED vars
  <2>1. UNCHANGED treeVars /\ UNCHANGED <<op, stack, ret>>
    BY <1>7 DEF vars, callVars
  <2>2. EmptyNow' = EmptyNow
    BY <2>1 DEF EmptyNow, Going, Top, treeVars
  <2> QED
    BY <2>1, <2>2, TreeStays
<1>8. CASE \/ \E key \in Key, kind \in KeyKinds : EraseStart(kind, key)
           \/ \E leaf, slot : EraseIterStart(leaf, slot)
  <2>1. UNCHANGED treeVars /\ ret' = ret /\ Idle
    BY <1>8 DEF EraseStart, EraseIterStart
  <2>2. ret = NULL
    BY <2>1, PhaseIs DEF AtRest
  <2> QED
    BY <2>1, <2>2, TreeStays DEF EmptyNow
<1> QED
  BY <1>1, <1>2, <1>3, <1>4, <1>5, <1>6, <1>7, <1>8

\* The leaves that are not empty stay what they are.
LEMMA LeavesStay ==
  ASSUME EndsKept, NEW Q, Phase(Q)', m_root = NULL <=> m_root' = NULL,
         UNCHANGED <<m_headleaf, m_tailleaf>>,
         \A n \in Leaves(heap) \ EmptyNow : heap'[n] = heap[n],
         EmptyNow' = {} \/ \A n \in Leaves(heap) \ EmptyNow : slotuse(heap, n) # 0
  PROVE  EndsKept'
<1>1. ASSUME NEW n \in Leaves(heap) \ EmptyNow
      PROVE  n \in Leaves(heap') /\ n \notin EmptyNow'
  <2>1. heap'[n] = heap[n]
    OBVIOUS
  <2>2. n \in Leaves(heap')
    BY <2>1 DEF Leaves, Allocated, isleafnode
  <2>3. slotuse(heap', n) = slotuse(heap, n)
    BY <2>1 DEF slotuse, isleafnode
  <2>4. n \in EmptyNow' => slotuse(heap', n) = 0
    BY EmptyNext
  <2> QED
    BY <2>2, <2>3, <2>4
<1>2. LinksStay
  BY <1>1 DEF LinksStay
<1> QED
  BY <1>2, EndsStay

LEMMA InsertEmpty ==
  ASSUME Going(InsertKinds) \/ Idle, op' = op \/ op' = NULL \/ Going(InsertKinds)'
  PROVE  EmptyNow' = {}
BY DEF EmptyNow, Going, Idle, InsertKinds, EraseKinds, KeyKinds

LEMMA InsertIntoLeafEnds ==
  ASSUME TypeOK, NEW R, Phase(R), EndsKept, InsertIntoLeaf
  PROVE  EndsKept'
<1>a. PICK a, slot : a = Top.curr /\ slot = find_lower(heap, Top.curr, op.key)
  OBVIOUS
<1>s. PICK s, G : s = InsertAt(heap[a].slots, slot + 1, NewPair) /\ G = heap'
  OBVIOUS
<1>1. InsertDown(R)
  BY PhaseIs DEF InsertIntoLeaf
<1>2. heap \in Heaps /\ op.key \in Key /\ op.data \in Data
  BY <1>1, CallIs DEF InsertDown
<1>3. stack \in Seq(InsertFrame) /\ stack # <<>> /\ Path(heap, m_root, stack)
  BY <1>1 DEF InsertDown
<1>4. a \in Allocated(heap) /\ isleafnode(heap, a)
  BY <1>2, <1>3, <1>a, TopIs DEF InsertIntoLeaf
<1>5. a \in Leaves(heap) /\ heap[a].slots \in Seq(Pair) /\ slotuse(heap, a) = Len(heap[a].slots)
      /\ slotuse(heap, a) \in Nat
  BY <1>2, <1>4, LeafNode DEF Leaves
<1>6. slot \in 0 .. slotuse(heap, a)
  BY <1>2, <1>4, <1>a, FindLowerIs
<1>7. NewPair \in Pair
  BY <1>2 DEF NewPair, Pair
<1>8. s \in Seq(Pair)
  <2>1. slot + 1 \in 1 .. Len(heap[a].slots) + 1
    BY <1>5, <1>6
  <2> QED
    BY <1>5, <1>7, <1>s, <2>1, InsertAtIs DEF Inserted
<1>9. Refilled(heap, G, a, s)
  BY <1>a, <1>s DEF InsertIntoLeaf, Refilled
<1>10. SameLinks(heap, G) /\ Leaves(G) = Leaves(heap)
  BY <1>2, <1>5, <1>8, <1>9, RefillOne
<1>11. Going(InsertKinds) /\ UNCHANGED <<m_root, m_headleaf, m_tailleaf, op>>
  BY <1>1 DEF InsertIntoLeaf, InsertDown
<1>12. EmptyNow' = {}
  BY <1>11, InsertEmpty
<1>13. LinksStay
  BY <1>10, <1>12, <1>s DEF LinksStay, SameLinks
<1> QED
  BY <1>11, <1>13, EndsStay

LEMMA InsertIntoInnerEnds ==
  ASSUME TypeOK, NEW R, Phase(R), EndsKept, InsertIntoInner, NEW Q, Phase(Q)'
  PROVE  EndsKept'
<1>a. PICK a : a = Top.curr
  OBVIOUS
<1>1. InsertSplit(R)
  BY PhaseIs DEF InsertIntoInner
<1>2. heap \in Heaps
  BY CallIs
<1>3. stack \in Seq(InsertFrame) /\ stack # <<>> /\ Path(heap, m_root, stack) /\ Paused(heap, stack)
  BY <1>1 DEF InsertSplit, InsertIntoInner, Returning
<1>4. a \in Allocated(heap) /\ Top = Last(stack)
  BY <1>2, <1>3, <1>a, TopIs
<1>5. heap[a].level > 0
  BY <1>3, <1>4, <1>a DEF Paused, AtChild
<1>6. a \notin Leaves(heap)
  BY <1>2, <1>4, <1>5, NodeIs, LeafIsNotInner
<1>7. \A n \in NodeId \ {a} : heap'[n] = heap[n]
  BY <1>a DEF InsertIntoInner, TypeOK
<1>8. \A n \in Leaves(heap) \ EmptyNow : heap'[n] = heap[n]
  BY <1>6, <1>7 DEF Leaves, Allocated
<1>9. Going(InsertKinds) /\ UNCHANGED <<m_root, m_headleaf, m_tailleaf, op>>
  BY <1>1 DEF InsertIntoInner, InsertSplit
<1>10. EmptyNow' = {}
  BY <1>9, InsertEmpty
<1> QED
  BY <1>8, <1>9, <1>10, LeavesStay

LEMMA InsertSplitInnerEnds ==
  ASSUME TypeOK, NEW R, Phase(R), EndsKept, InsertSplitInner, NEW Q, Phase(Q)'
  PROVE  EndsKept'
<1>a. PICK a, d : a = Top.curr /\ d = FreshNode(heap)
  OBVIOUS
<1>1. InsertSplit(R)
  BY PhaseIs, ZenonT(40) DEF InsertSplitInner
<1>2. heap \in Heaps
  BY CallIs
<1>3. stack \in Seq(InsertFrame) /\ stack # <<>> /\ Path(heap, m_root, stack) /\ Paused(heap, stack)
  BY <1>1, Zenon DEF InsertSplit, InsertSplitInner, Returning
<1>4. a \in Allocated(heap) /\ Top = Last(stack)
  BY <1>2, <1>3, <1>a, TopIs
<1>5. heap[a].level > 0
  BY <1>3, <1>4, <1>a DEF Paused, AtChild
<1>6. a \notin Leaves(heap)
  BY <1>2, <1>4, <1>5, NodeIs, LeafIsNotInner
<1>7. d \in NodeId \ Allocated(heap)
  BY <1>a, <1>2, FreshIs, ZenonT(40) DEF InsertSplitInner
<1>8. \E x, y : heap' = [heap EXCEPT ![a] = x, ![d] = y]
  BY <1>a, ZenonT(40) DEF InsertSplitInner
<1>9. \A n \in Leaves(heap) \ EmptyNow : heap'[n] = heap[n]
  BY <1>2, <1>6, <1>7, <1>8 DEF Leaves, Allocated, Heaps
<1>10. Going(InsertKinds) /\ UNCHANGED <<m_root, m_headleaf, m_tailleaf, op>>
  BY <1>1, Zenon DEF InsertSplitInner, InsertSplit
<1>11. EmptyNow' = {}
  BY <1>10, InsertEmpty
<1> QED
  BY <1>9, <1>10, <1>11, LeavesStay

LEMMA InsertFinishEnds ==
  ASSUME TypeOK, NEW R, Phase(R), EndsKept, InsertFinish, NEW Q, Phase(Q)'
  PROVE  EndsKept'
<1>1. Going(InsertKinds) /\ stack = <<>> /\ op' = NULL /\ UNCHANGED <<m_headleaf, m_tailleaf>>
  BY DEF InsertFinish, Returned
<1>2. EmptyNow' = {}
  BY <1>1, InsertEmpty
<1>3. m_root # NULL
  BY <1>1, PhaseIs DEF Returned, InsertUp, InsertSplit
<1>4. heap \in Heaps
  BY CallIs
<1>5. CASE UNCHANGED <<heap, m_root>>
  BY <1>1, <1>2, <1>5, LeavesStay
<1>6. CASE ~UNCHANGED <<heap, m_root>>
  <2>1. CanAllocate(heap) /\ m_root' = FreshNode(heap) /\ \E x : heap' = [heap EXCEPT ![FreshNode(heap)] = x]
    BY <1>6 DEF InsertFinish
  <2>2. PICK d : d = FreshNode(heap)
    OBVIOUS
  <2>3. d \in NodeId \ Allocated(heap) /\ d # NULL
    BY <1>4, <2>1, <2>2, FreshIs
  <2>4. \A n \in Leaves(heap) \ EmptyNow : heap'[n] = heap[n]
    BY <1>4, <2>1, <2>2, <2>3 DEF Leaves, Allocated, Heaps
  <2> QED
    BY <1>1, <1>2, <1>3, <2>1, <2>2, <2>3, <2>4, LeavesStay
<1> QED
  BY <1>5, <1>6

LEMMA InsertStartEnds ==
  ASSUME TypeOK, NEW R, Phase(R), EndsKept, NEW key \in Key, NEW data \in Data, InsertStart(key, data)
  PROVE  EndsKept'
<1>1. AtRest(R) /\ heap \in Heaps
  BY PhaseIs, CallIs DEF InsertStart
<1>2. ret' = NULL
  BY <1>1 DEF InsertStart, AtRest
<1>3. EmptyNow' = {}
  BY <1>2 DEF EmptyNow
<1>4. CASE m_root # NULL
  <2>1. UNCHANGED treeVars
    BY <1>4 DEF InsertStart
  <2> QED
    BY <1>3, <2>1, TreeStays
<1>5. CASE m_root = NULL
  <2>1. PICK d, G : d = FreshNode(heap) /\ G = heap'
    OBVIOUS
  <2>2. CanAllocate(heap) /\ Born(heap, G, d, EmptyLeaf) /\ m_root' = d /\ m_headleaf' = d /\ m_tailleaf' = d
    BY <1>5, <2>1 DEF InsertStart, Born, EmptyLeaf
  <2>3. d \in NodeId \ Allocated(heap) /\ d # NULL
    BY <1>1, <2>1, <2>2, FreshIs
  <2>4. G[d] = EmptyLeaf
    BY <1>1, <2>2, <2>3 DEF Born, Heaps
  <2>5. EmptyLeaf # NULL /\ EmptyLeaf.level = 0 /\ EmptyLeaf.next = NULL /\ EmptyLeaf.prev = NULL
    <3>1. EmptyLeaf \in Leaf
      BY DEF EmptyLeaf, Leaf
    <3> QED
      BY <3>1, NULLAssumption DEF EmptyLeaf
  <2>6. d \in Leaves(G)
    BY <2>3, <2>4, <2>5 DEF Leaves, Allocated, isleafnode
  <2> QED
    BY <1>3, <2>1, <2>2, <2>3, <2>4, <2>5, <2>6 DEF EndsKept, Ends
<1> QED
  BY <1>4, <1>5

LEMMA InsertSplitLeafEnds ==
  ASSUME TypeOK, NEW R, Phase(R), EndsKept, InsertSplitLeaf
  PROVE  EndsKept'
<1>a. PICK a, d, s : a = Top.curr /\ d = FreshNode(heap) /\ s = heap[a].slots
  OBVIOUS
<1>b. PICK slot, mid, x : slot = find_lower(heap, a, op.key) /\ mid = slotuse(heap, a) \div 2 /\ x = NewPair
  OBVIOUS
<1>c. PICK l, r, G : l = LeftHalf(s, mid, slot, x) /\ r = RightHalf(s, mid, slot, x) /\ G = heap'
  OBVIOUS
<1>1. InsertDown(R)
  BY PhaseIs DEF InsertSplitLeaf
<1>2. heap \in Heaps /\ op.key \in Key /\ op.data \in Data
  BY <1>1, CallIs DEF InsertDown
<1>3. /\ stack \in Seq(InsertFrame) /\ stack # <<>> /\ Path(heap, m_root, stack) /\ m_root # NULL
      /\ Tree(heap, m_root, {}, R) /\ Linked(heap, {}, R) /\ Going(InsertKinds)
  BY <1>1 DEF InsertDown, Shape
<1>4. a \in Allocated(heap)
  BY <1>a, <1>2, <1>3, TopIs
<1>5. /\ isfull(heap, a) /\ a \in Leaves(heap) /\ isleafnode(heap, a) /\ s \in Seq(Pair)
      /\ slotuse(heap, a) = Len(s) /\ slotuse(heap, a) \in Nat
  BY <1>a, <1>2, <1>4, LeafNode DEF InsertSplitLeaf, Leaves
<1>6. Len(s) = leafslotmax /\ mid = minleafslots /\ slotuse(heap, a) = leafslotmax
  BY <1>b, <1>5 DEF isfull, minleafslots
<1>7. slot \in 0 .. leafslotmax
  BY <1>b, <1>2, <1>4, <1>6, FindLowerIs
<1>8. x \in Pair
  BY <1>b, <1>2 DEF NewPair, Pair
<1>9. d \in NodeId \ Allocated(heap)
  BY <1>a, <1>2, FreshIs DEF InsertSplitLeaf
<1>10. G = SplitOff(heap, a, d, l, r)
  BY <1>a, <1>b, <1>c DEF InsertSplitLeaf, SplitOff, LeftHalf, RightHalf
<1>11. m_tailleaf' = (IF heap[a].next = NULL THEN d ELSE m_tailleaf) /\ UNCHANGED <<m_root, m_headleaf, op>>
  BY <1>a DEF InsertSplitLeaf
<1>12. mid \in 0 .. Len(s) /\ slot \in 0 .. Len(s)
  BY <1>6, <1>7, Sizes
<1>13. l \in Seq(Pair) /\ r \in Seq(Pair)
  BY <1>c, <1>5, <1>8, <1>12, HalvesAre
<1>14. EmptyNow = {}
  BY <1>3, NoneEmpty
<1>15. EmptyNow' = {}
  BY <1>3, <1>11, InsertEmpty
<1>16. Ends(heap, {}, m_root, m_headleaf, m_tailleaf)
  BY <1>14 DEF EndsKept
<1>17. PICK u : u = IF heap[a].next = NULL THEN d ELSE m_tailleaf
  OBVIOUS
<1>18. Ends(G, {}, m_root, m_headleaf, u)
  BY <1>2, <1>3, <1>5, <1>9, <1>10, <1>13, <1>16, <1>17, SplitEnds
<1> QED
  BY <1>11, <1>15, <1>17, <1>18, <1>c DEF EndsKept

LEMMA ClearEnds ==
  ASSUME NEW R, Phase(R), Clear
  PROVE  EndsKept'
<1>1. AtRest(R)
  BY PhaseIs DEF Clear
<1>2. m_root' = NULL /\ m_headleaf' = NULL /\ m_tailleaf' = NULL
  BY DEF Clear
<1> QED
  BY <1>2 DEF EndsKept, Ends

\* The two ways a leaf is merged away.
LEMMA LeafMergedEnds ==
  ASSUME NEW R, NEW H, Leaving(R, H), Ends(heap, {}, m_root, m_headleaf, m_tailleaf),
         NEW up, NEW a, NEW b, LeafMerged(H, up, a, b),
         NextLeaves(H, m_root, R, a, b), IsMerged(H, heap', m_root, R, a, b), Phase(R)'
  PROVE  EndsKept'
<1>a. PICK G, u : G = heap' /\ u = IF H[b].next = NULL THEN a ELSE m_tailleaf
  OBVIOUS
<1>1. /\ H \in Heaps /\ Shape(H, m_root, {}, {}, R) /\ m_root # NULL
      /\ SameLinks(heap, H) /\ Leaves(H) = Leaves(heap) /\ UNCHANGED <<m_root, m_headleaf>>
  BY DEF Leaving, Thinned, IsErasing
<1>2. Ends(H, {}, m_root, m_headleaf, m_tailleaf)
  BY <1>1, LinksEnds
<1>3. m_tailleaf' = u
  BY <1>a DEF LeafMerged
<1>4. PICK E : E = EmptyNow'
  OBVIOUS
<1>5. \A n \in E : slotuse(G, n) = 0
  BY <1>a, <1>4, EmptyNext
<1>6. IsMerged(H, G, m_root, R, a, b)
  BY <1>a
<1>7. Ends(G, E, m_root, m_headleaf, u)
  BY <1>1, <1>2, <1>5, <1>6, <1>a, MergeEnds
<1> QED
  BY <1>1, <1>3, <1>4, <1>7, <1>a DEF EndsKept

\* ... or refilled.
LEMMA LeafShiftedEnds ==
  ASSUME NEW R, NEW H, Leaving(R, H), Ends(heap, {}, m_root, m_headleaf, m_tailleaf),
         NEW up, EraseReturns(Found(FALSE, up)), IsShifted(H, heap', m_root, R), UNCHANGED m_tailleaf
  PROVE  EndsKept'
<1>1. /\ SameLinks(heap, H) /\ Leaves(H) = Leaves(heap) /\ UNCHANGED <<m_root, m_headleaf>>
  BY DEF Leaving, Thinned
<1>2. PICK G : G = heap'
  OBVIOUS
<1>3. SameLinks(H, G) /\ Leaves(G) = Leaves(H)
  BY <1>2 DEF IsShifted
<1>4. Ends(G, {}, m_root, m_headleaf, m_tailleaf)
  BY <1>1, <1>3, LinksEnds
<1>5. EmptyNow' = {}
  BY DEF EmptyNow, EraseReturns, Found
<1> QED
  BY <1>1, <1>2, <1>4, <1>5 DEF EndsKept

LEMMA LeafBalancedEnds ==
  ASSUME MergedFits, NEW R, NEW H, Leaving(R, H), Ends(heap, {}, m_root, m_headleaf, m_tailleaf),
         NEW up \in Key \cup {NULL}, LeafBalanced(H, up)
  PROVE  EndsKept'
<1>3. CASE Remedy(H, Top) = "merge_left"
  <2>1. LeafMerged(H, up, Top.left, Top.curr)
    BY <1>3 DEF LeafBalanced
  <2>2. /\ Phase(R)' /\ NextLeaves(H, m_root, R, Top.left, Top.curr)
        /\ IsMerged(H, heap', m_root, R, Top.left, Top.curr)
    BY <1>3, <2>1, LeafMergeLeft
  <2> QED
    BY <2>1, <2>2, LeafMergedEnds
<1>4. CASE Remedy(H, Top) = "merge_right"
  <2>1. LeafMerged(H, up, Top.curr, Top.right)
    BY <1>4 DEF LeafBalanced
  <2>2. /\ Phase(R)' /\ NextLeaves(H, m_root, R, Top.curr, Top.right)
        /\ IsMerged(H, heap', m_root, R, Top.curr, Top.right)
    BY <1>4, <2>1, LeafMergeRight
  <2> QED
    BY <2>1, <2>2, LeafMergedEnds
<1>5. CASE Remedy(H, Top) = "shift_left"
  <2>1. /\ LET G == shift_left_leaf(H, Top.curr, Top.right)
               here == Top.parentslot < slotuse(G, Top.rightparent)
           IN /\ heap' = SetKey(G, Top.rightparent, Top.parentslot, LastKey(G, Top.curr))
              /\ EraseReturns(Found(FALSE, IF here THEN up ELSE LastKey(G, Top.curr)))
        /\ UNCHANGED m_tailleaf
    BY <1>5 DEF LeafBalanced
  <2>2. IsShifted(H, heap', m_root, R)
    BY <1>5, <2>1, LeafShiftLeft
  <2>3. \E x : EraseReturns(Found(FALSE, x))
    BY <2>1
  <2> QED
    BY <2>1, <2>2, <2>3, LeafShiftedEnds
<1>6. CASE Remedy(H, Top) = "shift_right"
  <2>1. /\ heap' = shift_right_leaf(H, Top.left, Top.curr, Top.leftparent, Top.parentslot - 1)
        /\ EraseReturns(Found(FALSE, up)) /\ UNCHANGED m_tailleaf
    BY <1>6 DEF LeafBalanced
  <2>2. IsShifted(H, heap', m_root, R)
    BY <1>6, <2>1, LeafShiftRight
  <2> QED
    BY <2>1, <2>2, LeafShiftedEnds
<1>7. Remedy(H, Top) \in {"merge_left", "merge_right", "shift_left", "shift_right"}
  BY DEF LeafBalanced
<1> QED
  BY <1>3, <1>4, <1>5, <1>6, <1>7

LEMMA EraseHitEnds ==
  ASSUME MergedFits, TypeOK, NEW R, Phase(R), EndsKept, EraseHit
  PROVE  EndsKept'
<1>1. IsErasing(R) /\ Top.curr \in Leaves(heap) /\ UNCHANGED op /\ Going(EraseKinds)
  BY EraseHitIs
<1>2. PICK H, up : /\ Thinned(heap, H, m_root, R, Top.curr) /\ up \in Key \cup {NULL}
                   /\ LeafKept(H, up) \/ TreeEmptied(H) \/ LeafBalanced(H, up)
  BY EraseHitIs
<1>3. ret = NULL
  BY DEF EraseHit, Calling
<1>4. EmptyNow = {}
  BY <1>3 DEF EmptyNow
<1>5. Ends(heap, {}, m_root, m_headleaf, m_tailleaf)
  BY <1>4 DEF EndsKept
<1>6. CASE LeafKept(H, up)
  <2>1. heap' = H /\ ret' = Found(FALSE, up) /\ UNCHANGED <<m_root, m_headleaf, m_tailleaf>>
    BY <1>6 DEF LeafKept, EraseReturns
  <2>2. EmptyNow' = {}
    BY <2>1 DEF EmptyNow, Found
  <2>3. SameLinks(heap, H) /\ Leaves(H) = Leaves(heap)
    BY <1>2 DEF Thinned
  <2>4. Ends(H, {}, m_root, m_headleaf, m_tailleaf)
    BY <1>5, <2>3, LinksEnds
  <2> QED
    BY <2>1, <2>2, <2>4 DEF EndsKept
<1>7. CASE TreeEmptied(H)
  BY <1>7 DEF TreeEmptied, EndsKept, Ends
<1>8. CASE LeafBalanced(H, up)
  <2>1. IsPoorLeaf(R, H)
    BY <1>1, <1>2, <1>8, PoorLeafIs DEF LeafBalanced
  <2>2. Leaving(R, H)
    BY <1>1, <1>2, <1>8, <2>1 DEF LeafBalanced, Leaving
  <2> QED
    BY <1>2, <1>5, <1>8, <2>2, LeafBalancedEnds
<1> QED
  BY <1>2, <1>6, <1>7, <1>8

\* The nodes an erase above the leaves writes to are no leaves.
LEMMA NoLeafInFrame ==
  ASSUME NEW R, IsRising(R)
  PROVE  {Top.curr, Top.parent, Top.left, Top.right, Top.leftparent, Top.rightparent}
           \cap Leaves(heap) = {}
<1>a. PICK f, l : f = Top /\ l = heap[Top.curr].level
  OBVIOUS
<1>1. /\ heap \in Heaps /\ f.curr \in InnerNodes(heap) /\ Placed(heap, f)
      /\ IsDescent(heap, m_root, R, stack) /\ f = Last(stack) /\ stack \in Seq(EraseFrame) /\ stack # <<>>
      /\ Shape(heap, m_root, {}, Emptied, R)
  BY <1>a DEF IsRising
<1>2. l \in Nat /\ l > 0 /\ f.curr \in Allocated(heap)
  BY <1>1, <1>a, InnerNode
<1>3. Neighbours(heap, R, f)
  <2>1. Len(stack) \in 1 .. Len(stack)
    BY <1>1
  <2>2. f = stack[Len(stack)]
    BY <1>1 DEF Last
  <2> QED
    BY <1>1, <2>1, <2>2 DEF IsDescent, Surrounded
<1>4. \A n \in Leaves(heap) : n # NULL /\ heap[n].level = 0
  BY <1>1, LeafNode, NodeIs
<1>5. f.left # NULL => heap[f.left].level = l
  BY <1>3, <1>a DEF Neighbours
<1>6. f.right # NULL => heap[f.right].level = l
  <2> SUFFICES ASSUME f.right # NULL PROVE heap[f.right].level = l
    OBVIOUS
  <2>1. f.right \in Allocated(heap) /\ IsNext(Allocated(heap), R, f.curr, f.right)
    BY <1>3 DEF Neighbours
  <2> QED
    BY <1>1, <1>2, <1>a, <2>1, NextLevel DEF Shape
<1>7. f.parent # NULL => heap[f.parent].level = l + 1
  BY <1>1, <1>a DEF Placed
<1>8. /\ f.leftparent # NULL => heap[f.leftparent].level > l
      /\ f.rightparent # NULL => heap[f.rightparent].level > l
  BY <1>3, <1>a DEF Neighbours
<1>9. \A n \in {f.curr, f.parent, f.left, f.right, f.leftparent, f.rightparent} :
        n = NULL \/ heap[n].level # 0
  <2>1. f.leftparent = NULL \/ heap[f.leftparent].level # 0
    <3>1. f.leftparent # NULL => f.leftparent \in Allocated(heap)
      BY <1>3 DEF Neighbours
    <3>2. f.leftparent # NULL => heap[f.leftparent].level \in Nat
      BY <1>1, <3>1, NodeIs
    <3> QED
      BY <1>2, <1>8, <3>2
  <2>2. f.rightparent = NULL \/ heap[f.rightparent].level # 0
    <3>1. f.rightparent # NULL => f.rightparent \in Allocated(heap)
      BY <1>3 DEF Neighbours
    <3>2. f.rightparent # NULL => heap[f.rightparent].level \in Nat
      BY <1>1, <3>1, NodeIs
    <3> QED
      BY <1>2, <1>8, <3>2
  <2>3. l # 0 /\ l + 1 # 0
    BY <1>2
  <2> QED
    BY <1>a, <1>5, <1>6, <1>7, <2>1, <2>2, <2>3
<1>10. \A n \in {f.curr, f.parent, f.left, f.right, f.leftparent, f.rightparent} : n \notin Leaves(heap)
  BY <1>4, <1>9
<1> QED
  BY <1>10, <1>a

LEMMA UpdatedSame ==
  ASSUME NEW R, IsRising(R)
  PROVE  SameLeaves(heap, Updated(heap, Top), Leaves(heap), {})
<1>1. Top.parent \notin Leaves(heap) /\ heap \in Heaps
  BY NoLeafInFrame DEF IsRising
<1>2. Leaves(heap) \subseteq DOMAIN heap
  BY <1>1 DEF Heaps, Leaves, Allocated
<1>3. CASE ret.lastkey # NULL /\ OwnsKey(heap, Top)
  BY <1>1, <1>2, <1>3, SetKeySame DEF Updated
<1>4. CASE ~(ret.lastkey # NULL /\ OwnsKey(heap, Top))
  BY <1>4 DEF Updated, SameLeaves
<1> QED
  BY <1>3, <1>4

LEMMA PrunedSame ==
  ASSUME NEW R, IsRising(R), NEW H, H = Pruned(Updated(heap, Top), Top)
  PROVE  SameLeaves(heap, H, Leaves(heap), Emptied)
<1>a. PICK U, L, c, s : U = Updated(heap, Top) /\ L = Leaves(heap) /\ c = Top.curr /\ s = EmptySlot(heap, Top)
  OBVIOUS
<1>b. PICK d : d = childid(heap, c, s)
  OBVIOUS
<1>1. SameLeaves(heap, U, L, {}) /\ U \in Heaps /\ Rekeyed(heap, U)
  BY <1>a, UpdatedSame, UpdatedIs
<1>2. CASE ~ret.fixmerge
  BY <1>1, <1>2, <1>a DEF Pruned, SameLeaves
<1>3. CASE ret.fixmerge
  <2>1. Emptied = {d} /\ c \notin L /\ c \in InnerNodes(heap) /\ heap \in Heaps
        /\ Shape(heap, m_root, {}, {d}, R) /\ s \in 1 .. slotuse(heap, c) /\ Top.slot \in 0 .. slotuse(heap, c)
    BY <1>3, <1>a, <1>b, NoLeafInFrame DEF IsRising, Emptied, Hollow
  <2>2. /\ \A i : childid(U, c, i) = childid(heap, c, i)
    BY <1>1, <2>1, RekeyedNode
  <2>3. childid(heap, c, Top.slot) \in Allocated(heap)
    <3>1. c \in Allocated(heap) /\ heap[c].level > 0 /\ slotuse(heap, c) \in Nat
          /\ heap[c].level >= heap[Top.curr].level
      BY <1>a, <2>1, InnerNode
    <3>2. slotuse(heap, c) >= 1
      BY <1>a, <3>1, RisingFilled
    <3>3. NodesHold(heap, {d}) /\ Tree(heap, m_root, {}, R)
      BY <2>1 DEF Shape
    <3>4. d # c
      BY <3>1, <3>2, <3>3 DEF NodesHold
    <3> QED
      BY <2>1, <3>1, <3>3, <3>4, ChildOf
  <2>4. EmptySlot(U, Top) = s
    <3>1. slotuse(U, childid(heap, c, Top.slot)) = slotuse(heap, childid(heap, c, Top.slot))
      BY <1>1, <2>3 DEF Rekeyed, SameSizes
    <3> QED
      BY <1>a, <2>2, <3>1 DEF EmptySlot
  <2>5. PICK M : M = [U EXCEPT ![c].keys = RemoveAt(@, s), ![c].child = RemoveAt(@, s + 1), ![d] = NULL]
    OBVIOUS
  <2>6. H = IF M[c].level = 1 THEN SetKey(M, c, s - 1, LastKey(M, childid(M, c, s - 1))) ELSE M
    <3>1. childid(U, c, s) = d
      BY <1>b, <2>2
    <3>2. H = LET X == [U EXCEPT ![Top.curr].keys = RemoveAt(@, EmptySlot(U, Top)),
                                 ![Top.curr].child = RemoveAt(@, EmptySlot(U, Top) + 1),
                                 ![childid(U, Top.curr, EmptySlot(U, Top))] = NULL]
              IN IF X[Top.curr].level = 1
                   THEN SetKey(X, Top.curr, EmptySlot(U, Top) - 1,
                               LastKey(X, childid(X, Top.curr, EmptySlot(U, Top) - 1)))
                   ELSE X
      BY <1>3, <1>a DEF Pruned
    <3>3. H = LET X == [U EXCEPT ![c].keys = RemoveAt(@, s), ![c].child = RemoveAt(@, s + 1), ![d] = NULL]
              IN IF X[c].level = 1 THEN SetKey(X, c, s - 1, LastKey(X, childid(X, c, s - 1))) ELSE X
      BY <1>a, <2>4, <3>1, <3>2
    <3> QED
      BY <2>5, <3>3
  <2>7. DOMAIN U = NodeId /\ L \subseteq NodeId
    BY <1>1, <1>a DEF Heaps, Leaves, Allocated
  <2>8. SameLeaves(U, M, L, {d})
    BY <2>1, <2>5, <2>7 DEF SameLeaves
  <2>9. SameLeaves(heap, M, L, {d}) /\ DOMAIN M = NodeId
    BY <1>1, <2>7, <2>8 DEF SameLeaves
  <2>10. SameLeaves(heap, H, L, {d})
    <3>1. CASE M[c].level = 1
      <4>1. SameLeaves(M, H, L, {})
        BY <2>1, <2>6, <2>7, <2>9, <3>1, SetKeySame
      <4> QED
        BY <2>9, <4>1 DEF SameLeaves
    <3>2. CASE M[c].level # 1
      BY <2>6, <2>9, <3>2
    <3> QED
      BY <3>1, <3>2
  <2> QED
    BY <2>1, <2>10, <1>a
<1> QED
  BY <1>2, <1>3

LEMMA InnerBalancedSame ==
  ASSUME NEW R, IsRising(R), NEW H, NEW up, NEW L, L = Leaves(heap), L \subseteq DOMAIN H,
         InnerBalanced(H, up)
  PROVE  SameLeaves(H, heap', L, {})
<1>a. PICK f, s : f = Top /\ s = Top.parentslot
  OBVIOUS
<1>1. f.curr \notin L /\ f.left \notin L /\ f.right \notin L /\ f.leftparent \notin L /\ f.rightparent \notin L
  BY <1>a, NoLeafInFrame
<1>2. \/ heap' = merge_inner(H, f.left, f.curr, f.leftparent, s - 1)
      \/ heap' = merge_inner(H, f.curr, f.right, f.rightparent, s)
      \/ heap' = shift_left_inner(H, f.curr, f.right, f.rightparent, s)
      \/ heap' = shift_right_inner(H, f.left, f.curr, f.leftparent, s - 1)
  BY <1>a DEF InnerBalanced
<1>3. ASSUME NEW a, NEW b, NEW p, NEW i, a \notin L, b \notin L
      PROVE  SameLeaves(H, merge_inner(H, a, b, p, i), L, {})
  BY <1>3 DEF merge_inner, SameLeaves
<1>4. ASSUME NEW a, NEW b, NEW p, NEW i, a \notin L, b \notin L, p \notin L
      PROVE  SameLeaves(H, shift_left_inner(H, a, b, p, i), L, {})
  <2>1. PICK n, k : n = ShiftNum(H, b, a) /\ k = slotkey(H, b, n - 1)
    OBVIOUS
  <2>2. PICK G : G = [H EXCEPT ![a].keys = Append(@, slotkey(H, p, i)) \o SubSeq(H[b].keys, 1, n - 1),
                               ![a].child = @ \o SubSeq(H[b].child, 1, n),
                               ![b].keys = SubSeq(@, n + 1, Len(@)),
                               ![b].child = SubSeq(@, n + 1, Len(@))]
    OBVIOUS
  <2>3. shift_left_inner(H, a, b, p, i) = SetKey(G, p, i, k)
    BY <2>1, <2>2 DEF shift_left_inner
  <2>4. SameLeaves(H, G, L, {}) /\ L \subseteq DOMAIN G
    BY <1>4, <2>2, Zenon DEF SameLeaves
  <2>5. SameLeaves(G, SetKey(G, p, i, k), L, {})
    BY <1>4, <2>4, SetKeySame
  <2> QED
    BY <2>3, <2>4, <2>5, SameTwice
<1>5. ASSUME NEW a, NEW b, NEW p, NEW i, a \notin L, b \notin L, p \notin L
      PROVE  SameLeaves(H, shift_right_inner(H, a, b, p, i), L, {})
  <2>1. PICK n, keep, k : n = ShiftNum(H, a, b) /\ keep = slotuse(H, a) - n /\ k = slotkey(H, a, keep)
    OBVIOUS
  <2>2. PICK G : G = [H EXCEPT ![a].keys = SubSeq(@, 1, keep),
                               ![a].child = SubSeq(@, 1, keep + 1),
                               ![b].keys = Append(SubSeq(H[a].keys, keep + 2, Len(H[a].keys)),
                                                  slotkey(H, p, i)) \o @,
                               ![b].child = SubSeq(H[a].child, keep + 2, Len(H[a].child)) \o @]
    OBVIOUS
  <2>3. shift_right_inner(H, a, b, p, i) = SetKey(G, p, i, k)
    BY <2>1, <2>2 DEF shift_right_inner
  <2>4. SameLeaves(H, G, L, {}) /\ L \subseteq DOMAIN G
    BY <1>5, <2>2 DEF SameLeaves
  <2>5. SameLeaves(G, SetKey(G, p, i, k), L, {})
    BY <1>5, <2>4, SetKeySame
  <2> QED
    BY <2>3, <2>4, <2>5, SameTwice
<1> QED
  BY <1>1, <1>2, <1>3, <1>4, <1>5

LEMMA EraseAboveEnds ==
  ASSUME TypeOK, NEW R, Phase(R), EndsKept, EraseAbove, NEW Q, Phase(Q)'
  PROVE  EndsKept'
<1>a. PICK H, up : H = Pruned(Updated(heap, Top), Top) /\ up = PassedKey(heap, Top)
  OBVIOUS
<1>1. IsRising(R) /\ UNCHANGED <<m_headleaf, m_tailleaf, op>> /\ Going(EraseKinds)
  BY EraseAboveIs
<1>2. InnerKept(H, up) \/ RootReplaced(H) \/ InnerBalanced(H, up)
  BY <1>a DEF EraseAbove
<1>3. heap \in Heaps /\ m_root # NULL /\ Filled(heap, Emptied, m_root, 1)
  BY <1>1 DEF IsRising
<1>4. EmptyNow = Emptied
  BY DEF EmptyNow, Emptied, EraseAbove, Returning
<1>5. PICK L : L = Leaves(heap)
  OBVIOUS
<1>6. SameLeaves(heap, H, L, Emptied)
  BY <1>1, <1>5, <1>a, PrunedSame
<1>7. L \subseteq DOMAIN H /\ DOMAIN H = NodeId
  BY <1>3, <1>5, <1>6 DEF SameLeaves, Heaps, Leaves, Allocated
<1>8. Top.curr \notin L
  BY <1>1, <1>5, NoLeafInFrame
<1>9. \A n \in L \ EmptyNow : heap'[n] = heap[n]
  <2>1. CASE InnerKept(H, up)
    BY <1>4, <1>6, <2>1 DEF InnerKept, SameLeaves
  <2>2. CASE RootReplaced(H)
    BY <1>4, <1>6, <1>7, <1>8, <2>2 DEF RootReplaced, SameLeaves
  <2>3. CASE InnerBalanced(H, up)
    <3>1. SameLeaves(H, heap', L, {})
      BY <1>1, <1>5, <1>7, <2>3, InnerBalancedSame
    <3> QED
      BY <1>4, <1>6, <3>1 DEF SameLeaves
  <2> QED
    BY <1>2, <2>1, <2>2, <2>3
<1>10. \A n \in Leaves(heap) \ EmptyNow : slotuse(heap, n) # 0
  <2> SUFFICES ASSUME NEW n \in Leaves(heap), n \notin Emptied PROVE slotuse(heap, n) # 0
    BY <1>4
  <2>1. n \in Allocated(heap) /\ slotuse(heap, n) \in Nat
    BY <1>3, LeafNode
  <2>2. slotuse(heap, n) >= IF n # m_root THEN mininnerslots ELSE IF isleafnode(heap, n) THEN 1 ELSE 1
    BY <1>3, <2>1 DEF Filled
  <2> QED
    BY <2>1, <2>2, Sizes
<1>11. m_root' # NULL
  <2>1. m_headleaf \in L \ EmptyNow
    BY <1>3, <1>5 DEF EndsKept, Ends
  <2>2. heap'[m_headleaf] # NULL /\ m_headleaf \in NodeId
    BY <1>5, <1>9, <2>1 DEF Leaves, Allocated
  <2>3. \E S, E : Shape(heap', m_root', S, E, Q)
    BY DEF Phase, AtRest, InsertDown, InsertUp, InsertSplit, EraseDown, EraseUp, EraseMerged
  <2>4. m_root' = NULL => Allocated(heap') = {}
    BY <2>3 DEF Shape, Tree
  <2> QED
    BY <2>2, <2>4 DEF Allocated
<1> QED
  BY <1>1, <1>3, <1>5, <1>9, <1>10, <1>11, LeavesStay

-----------------------------------------------------------------------------
(* The tree and the chain hold the same leaves                             *)

EInv == IInv /\ EndsKept

LEMMA EndsStart == Init => EndsKept
BY DEF Init, EndsKept, Ends

LEMMA EndsNext ==
  ASSUME MergedFits, IInv, EndsKept, [Next]_vars
  PROVE  EndsKept'
<1>1. TypeOK
  BY DEF IInv
<1>2. PICK R : Phase(R)
  BY DEF IInv
<1>3. IInv'
  BY NextKeeps
<1>4. \E Q : Phase(Q)'
  BY <1>3 DEF IInv
<1>5. CASE UNCHANGED vars
  BY <1>2, <1>5, PassiveEnds
<1>6. CASE \E key \in Key, data \in Data : InsertStart(key, data)
  BY <1>1, <1>2, <1>6, InsertStartEnds
<1>7. CASE \E key \in Key, kind \in KeyKinds : EraseStart(kind, key)
  BY <1>2, <1>7, PassiveEnds
<1>8. CASE \E leaf \in NodeId, slot \in 0 .. leafslotmax - 1 : EraseIterStart(leaf, slot)
  <2>1. \E leaf, slot : EraseIterStart(leaf, slot)
    BY <1>8
  <2> QED
    BY <1>2, <2>1, PassiveEnds
<1>9. CASE Clear
  BY <1>2, <1>9, ClearEnds
<1>10. CASE InsertStep
  <2>1. CASE InsertDescend \/ InsertPass
    BY <1>2, <2>1, PassiveEnds
  <2>2. CASE InsertIntoLeaf
    BY <1>1, <1>2, <2>2, InsertIntoLeafEnds
  <2>3. CASE InsertSplitLeaf
    BY <1>1, <1>2, <2>3, InsertSplitLeafEnds
  <2>4. CASE InsertIntoInner
    BY <1>1, <1>2, <1>4, <2>4, InsertIntoInnerEnds
  <2>5. CASE InsertSplitInner
    BY <1>1, <1>2, <1>4, <2>5, InsertSplitInnerEnds
  <2>6. CASE InsertFinish
    BY <1>1, <1>2, <1>4, <2>6, InsertFinishEnds
  <2> QED
    BY <1>10, <2>1, <2>2, <2>3, <2>4, <2>5, <2>6 DEF InsertStep
<1>11. CASE EraseStep
  <2>1. CASE EraseDescend \/ EraseMiss \/ EraseNextSlot \/ ErasePass \/ EraseFinish
    BY <1>2, <2>1, PassiveEnds
  <2>2. CASE EraseHit
    BY <1>1, <1>2, <2>2, EraseHitEnds
  <2>3. CASE EraseAbove
    BY <1>1, <1>2, <1>4, <2>3, EraseAboveEnds
  <2> QED
    BY <1>11, <2>1, <2>2, <2>3 DEF EraseStep
<1> QED
  BY <1>5, <1>6, <1>7, <1>8, <1>9, <1>10, <1>11 DEF Next, Step

LEMMA EndsInductive ==
  ASSUME MergedFits
  PROVE  Spec => []EInv
<1>1. Init => EInv
  BY InitHolds, EndsStart DEF EInv
<1>2. EInv /\ [Next]_vars => EInv'
  BY NextKeeps, EndsNext DEF EInv
<1> QED
  BY <1>1, <1>2, PTL DEF Spec

\* What EInv says of the tree between two calls.
LEMMA ChainAtRest ==
  ASSUME EInv, Idle
  PROVE  /\ heap \in Heaps /\ Subtree = Allocated(heap)
         /\ m_root = NULL => m_headleaf = NULL /\ m_tailleaf = NULL
         /\ m_root # NULL => \E R : /\ Shape(heap, m_root, {}, {}, R) /\ Filled(heap, {}, m_root, 1)
                                    /\ Counted(heap, m_stats, 0)
                                    /\ IsTheChain(heap, R, m_root, m_headleaf, m_tailleaf, Chain)
<1>1. heap \in Heaps /\ Subtree = Allocated(heap)
  BY RestIs DEF EInv
<1>2. PICK R : /\ Shape(heap, m_root, {}, {}, R) /\ Filled(heap, {}, m_root, 1)
               /\ Counted(heap, m_stats, 0)
  BY RestIs DEF EInv
<1>3. EmptyNow = {}
  BY DEF EmptyNow, Going, Idle
<1>4. Ends(heap, {}, m_root, m_headleaf, m_tailleaf)
  BY <1>3 DEF EInv, EndsKept
<1>5. m_root = NULL => m_headleaf = NULL /\ m_tailleaf = NULL
  BY <1>4 DEF Ends
<1>6. ASSUME m_root # NULL PROVE IsTheChain(heap, R, m_root, m_headleaf, m_tailleaf, Chain)
  BY <1>1, <1>2, <1>4, <1>6, ChainIs DEF Shape
<1> QED
  BY <1>1, <1>2, <1>5, <1>6

\* Between two calls the tree and the chain hold the same leaves in the same
\* order (TreeIsChain): splits and merges lose, repeat and leak no node.
THEOREM TreeIsTheChain ==
  ASSUME MergedFits
  PROVE  Spec => []TreeIsChain
<1>1. EInv => TreeIsChain
  <2> SUFFICES ASSUME EInv, Idle
               PROVE  /\ Subtree = Allocated(heap)
                      /\ m_root = NULL => m_headleaf = NULL /\ m_tailleaf = NULL
                      /\ m_root # NULL =>
                           /\ Chain = LeavesBelow(m_root)
                           /\ m_tailleaf = Last(Chain)
                           /\ \A i \in DOMAIN Chain :
                                heap[Chain[i]].prev = IF i = 1 THEN NULL ELSE Chain[i - 1]
                           /\ \A n \in Subtree : \A c \in Children(heap, n) :
                                heap[n].level = heap[c].level + 1
                           /\ \A n \in Subtree : Cardinality(Children(heap, n)) =
                                IF isleafnode(heap, n) THEN 0 ELSE Len(heap[n].child)
    BY DEF TreeIsChain
  <2>1. heap \in Heaps /\ Subtree = Allocated(heap) /\ (m_root = NULL => m_headleaf = NULL /\ m_tailleaf = NULL)
    BY ChainAtRest
  <2> SUFFICES ASSUME m_root # NULL
               PROVE  /\ Chain = LeavesBelow(m_root)
                      /\ m_tailleaf = Last(Chain)
                      /\ \A i \in DOMAIN Chain :
                           heap[Chain[i]].prev = IF i = 1 THEN NULL ELSE Chain[i - 1]
                      /\ \A n \in Subtree : \A c \in Children(heap, n) :
                           heap[n].level = heap[c].level + 1
                      /\ \A n \in Subtree : Cardinality(Children(heap, n)) =
                           IF isleafnode(heap, n) THEN 0 ELSE Len(heap[n].child)
    BY <2>1
  <2>2. PICK R : Shape(heap, m_root, {}, {}, R) /\ IsTheChain(heap, R, m_root, m_headleaf, m_tailleaf, Chain)
    BY ChainAtRest
  <2>s. PICK s : s = Chain
    OBVIOUS
  <2>3. /\ s = LeafLists(heap)[m_root] /\ Lists(s, Leaves(heap), R)
        /\ LinkedList(s, Nexts(heap), Prevs(heap), NULL) /\ m_tailleaf = s[Len(s)]
        /\ \A i \in 1 .. Len(s) : s[i] \in Leaves(heap)
    BY <2>2, <2>s DEF IsTheChain
  <2>4. LeavesBelow(m_root) = LeafLists(heap)[m_root]
    BY DEF LeavesBelow, LeafLists
  <2>5. DOMAIN s = 1 .. Len(s)
    BY <2>3, ListIs
  <2>6. \A i \in DOMAIN s : heap[s[i]].prev = IF i = 1 THEN NULL ELSE s[i - 1]
    BY <2>3, <2>5 DEF LinkedList, Prevs
  <2>7. Tree(heap, m_root, {}, R)
    BY <2>2 DEF Shape
  <2>8. /\ \A n \in Subtree : \A c \in Children(heap, n) : heap[n].level = heap[c].level + 1
        /\ \A n \in Subtree : Cardinality(Children(heap, n)) =
             IF isleafnode(heap, n) THEN 0 ELSE Len(heap[n].child)
    BY <2>1, <2>7, ChildrenAre
  <2>9. m_tailleaf = Last(s)
    BY <2>3 DEF Last
  <2> QED
    BY <2>3, <2>4, <2>6, <2>8, <2>9, <2>s
<1> QED
  BY <1>1, EndsInductive, PTL

-----------------------------------------------------------------------------
(* The pairs along the chain                                               *)

\* The pairs and the leaves they are in, between two calls.
ItemsAlong(H, s, o, t) ==
  /\ Laid(H, s, o, t) /\ Len(s) \in Nat \ {0} /\ m_headleaf = s[1] /\ m_tailleaf = s[Len(s)]
  /\ m_stats.itemcount = Len(t)
  /\ \A i \in 1 .. Len(s) : s[i] \in Leaves(H) /\ slotuse(H, s[i]) >= 1
  /\ \A i, j \in 1 .. Len(s) : s[i] = s[j] => i = j
  /\ \A n \in Leaves(H) : \E k \in 1 .. Len(s) : s[k] = n
  /\ LinkedList(s, Nexts(H), Prevs(H), NULL)

LEMMA ItemsAtRest ==
  ASSUME EInv, Idle, m_root # NULL
  PROVE  \E o : ItemsAlong(heap, Chain, o, Items)
<1>1. heap \in Heaps
  BY ChainAtRest
<1>2. PICK R : /\ Shape(heap, m_root, {}, {}, R) /\ Filled(heap, {}, m_root, 1)
               /\ Counted(heap, m_stats, 0)
               /\ IsTheChain(heap, R, m_root, m_headleaf, m_tailleaf, Chain)
  BY ChainAtRest
<1>s. PICK s : s = Chain
  OBVIOUS
<1>3. /\ Lists(s, Leaves(heap), R) /\ LinkedList(s, Nexts(heap), Prevs(heap), NULL)
      /\ s # <<>> /\ m_headleaf = s[1] /\ m_tailleaf = s[Len(s)] /\ Len(s) \in Nat
      /\ \A i \in 1 .. Len(s) : s[i] \in Leaves(heap)
  BY <1>2, <1>s DEF IsTheChain
<1>4. DOMAIN s = 1 .. Len(s) /\ \A n \in Leaves(heap) : \E k \in 1 .. Len(s) : s[k] = n
  BY <1>3, ListIs
<1>5. PICK o : Laid(heap, s, o, FlattenSeq([i \in DOMAIN s |-> heap[s[i]].slots]))
  BY <1>1, <1>3, <1>4, LaidOut
<1>6. Laid(heap, s, o, Items)
  BY <1>5, <1>s DEF Items
<1>7. Tree(heap, m_root, {}, R) /\ NodesHold(heap, {})
  BY <1>2 DEF Shape
<1>8. LineOrder(Leaves(heap), R)
  <2>1. LineOrder(Leaves(heap) \ {}, R) /\ Leaves(heap) \ {} = Leaves(heap)
    BY <1>1, <1>7, LeafLine
  <2> QED
    BY <2>1
<1>9. \A i, j \in 1 .. Len(s) : s[i] = s[j] => i = j
  BY <1>3, <1>8, ListOnce
<1>10. ASSUME NEW n \in Leaves(heap) PROVE slotuse(heap, n) >= 1 /\ slotuse(heap, n) <= leafslotmax
  <2>1. n \in Allocated(heap) \ {} /\ isleafnode(heap, n) /\ slotuse(heap, n) \in Nat
    BY <1>1, LeafNode
  <2>2. slotuse(heap, n) >= IF n # m_root THEN mininnerslots ELSE 1
    BY <1>2, <2>1 DEF Filled
  <2>3. slotuse(heap, n) <= leafslotmax
    BY <1>7, <2>1 DEF NodesHold
  <2> QED
    BY <2>1, <2>2, <2>3, Sizes
<1>11. Cardinality(Pairs(heap)) = o[Len(s)]
  <2>1. Numbered(heap, s, o)
    BY <1>6 DEF Laid
  <2>2. \A n \in Leaves(heap) : slotuse(heap, n) <= leafslotmax
    BY <1>10
  <2> QED
    BY <1>1, <1>3, <1>4, <1>9, <2>1, <2>2, PairsAlong
<1>12. m_stats.itemcount = Len(Items)
  <2>1. m_stats.itemcount = Cardinality(Pairs(heap)) + 0 /\ Cardinality(Pairs(heap)) \in Nat
    BY <1>2, PairsFinite DEF Counted
  <2>2. Len(Items) = o[Len(s)]
    BY <1>6 DEF Laid
  <2> QED
    BY <1>11, <2>1, <2>2
<1>13. Len(s) \in Nat \ {0}
  BY <1>3, <1>4
<1>14. ItemsAlong(heap, s, o, Items)
  BY <1>3, <1>4, <1>6, <1>9, <1>10, <1>12, <1>13 DEF ItemsAlong
<1> QED
  BY <1>14, <1>s

\* Without a root there are no pairs.
LEMMA NoItems ==
  ASSUME EInv, Idle, m_root = NULL
  PROVE  Items = <<>> /\ Len(Items) = 0 /\ Leaves(heap) = {} /\ InnerNodes(heap) = {}
<1>1. heap \in Heaps /\ m_headleaf = NULL
  BY ChainAtRest
<1>2. PICK R : Shape(heap, m_root, {}, {}, R)
  BY RestIs DEF EInv
<1>3. Allocated(heap) = {}
  BY <1>2 DEF Shape, Tree
<1>4. Leaves(heap) = {} /\ InnerNodes(heap) = {}
  BY <1>3 DEF Leaves, InnerNodes
<1>5. Chain = ChainFunction(heap)[<<Cardinality(NodeId), m_headleaf>>]
  BY DEF Chain, ChainFunction
<1>6. IsChain(Leaves(heap), NodeId \cup {NULL}, Nexts(heap), Cardinality(NodeId), ChainFunction(heap))
  BY <1>1, ChainFunctionIs
<1>7. Cardinality(NodeId) \in 0 .. Cardinality(NodeId)
  <2>1. Cardinality(NodeId) \in Nat
    BY NodeAssumption, FS_CardinalityType
  <2> QED
    BY <2>1
<1>f. PICK f : f = ChainFunction(heap)
  OBVIOUS
<1>8. f[<<Cardinality(NodeId), NULL>>] = <<>>
  <2>1. \A k \in 0 .. Cardinality(NodeId), n \in NodeId \cup {NULL} :
          f[<<k, n>>] = ChainStep(Leaves(heap), Nexts(heap), f, k, n)
    BY <1>6, <1>f DEF IsChain
  <2> QED
    BY <1>4, <1>7, <2>1 DEF ChainStep
<1>9. Chain = <<>>
  BY <1>1, <1>5, <1>8, <1>f
<1>10. Items = FlattenSeq([i \in DOMAIN Chain |-> heap[Chain[i]].slots])
  BY DEF Items
<1>11. [i \in DOMAIN Chain |-> heap[Chain[i]].slots] = <<>>
  BY <1>9
<1>12. FlattenSeq(<<>>) = <<>>
  BY DEF FlattenSeq
<1>13. Items = <<>>
  BY <1>10, <1>11, <1>12
<1> QED
  BY <1>4, <1>13

\* size() and the node counters are exact between two calls.
THEOREM StatsAreExact ==
  ASSUME MergedFits
  PROVE  Spec => []StatsExact
<1>1. ASSUME EInv, Idle
      PROVE  m_stats = [itemcount  |-> Len(Items),
                        leaves     |-> Cardinality({n \in Allocated(heap) : isleafnode(heap, n)}),
                        innernodes |-> Cardinality({n \in Allocated(heap) : ~isleafnode(heap, n)})]
  <2>1. m_stats \in [itemcount : Nat, leaves : Nat, innernodes : Nat]
    BY <1>1 DEF EInv, IInv, TypeOK
  <2>2. /\ Cardinality(Leaves(heap)) = m_stats.leaves
        /\ Cardinality(InnerNodes(heap)) = m_stats.innernodes
        /\ m_stats.itemcount = Cardinality(Pairs(heap))
    <3>1. PICK R : Counted(heap, m_stats, 0)
      BY <1>1, RestIs DEF EInv
    <3>2. Cardinality(Pairs(heap)) \in Nat
      BY PairsFinite
    <3> QED
      BY <3>1, <3>2 DEF Counted
  <2>3. m_stats.itemcount = Len(Items)
    <3>1. CASE m_root = NULL
      <4>1. Pairs(heap) = {} /\ Len(Items) = 0
        BY <1>1, <3>1, NoItems DEF Pairs
      <4> QED
        BY <2>2, <4>1, FS_EmptySet
    <3>2. CASE m_root # NULL
      BY <1>1, <3>2, ItemsAtRest DEF ItemsAlong
    <3> QED
      BY <3>1, <3>2
  <2>4. m_stats = [itemcount |-> Len(Items), leaves |-> Cardinality(Leaves(heap)),
                   innernodes |-> Cardinality(InnerNodes(heap))]
    BY <2>1, <2>2, <2>3
  <2> QED
    BY <2>4 DEF Leaves, InnerNodes
<1>2. EInv => StatsExact
  BY <1>1 DEF StatsExact
<1> QED
  BY <1>2, EndsInductive, PTL

-----------------------------------------------------------------------------
(* Iterators                                                               *)

\* Where an iterator is among the pairs.
LEMMA OffsetAt ==
  ASSUME NEW o, ItemsAlong(heap, Chain, o, Items), NEW k \in 1 .. Len(Chain), NEW j \in Int,
         NEW p, p = [leaf |-> Chain[k], slot |-> j]
  PROVE  Offset(p) = o[k - 1] + j
<1>s. PICK s : s = Chain
  OBVIOUS
<1>n. PICK n \in Nat : n = Len(s)
  BY <1>s DEF ItemsAlong
<1>1. /\ k \in 1 .. n /\ p.leaf = s[k] /\ p.slot = j
  BY <1>n, <1>s
<1>2. /\ \A x, y \in 1 .. n : s[x] = s[y] => x = y
      /\ \A m \in 0 .. n : Len(FlattenSeq([x \in 1 .. m |-> heap[s[x]].slots])) = o[m]
      /\ o \in [0 .. n -> Nat]
  BY <1>n, <1>s DEF ItemsAlong, Laid, Numbered
<1>3. SelectInSeq(s, LAMBDA m : m = p.leaf) = k
  <2>1. {x \in 1 .. Len(s) : s[x] = p.leaf} = {k}
    BY <1>1, <1>2, <1>n
  <2>2. Min({k}) = k
    BY <1>1 DEF Min
  <2> QED
    BY <2>1, <2>2 DEF SelectInSeq
<1>4. Offset(p) = p.slot + Len(FlattenSeq([x \in 1 .. k - 1 |-> heap[s[x]].slots]))
  BY <1>3, <1>s DEF Offset
<1>5. k - 1 \in 0 .. n
  BY <1>1
<1>6. o[k - 1] \in Nat
  BY <1>2, <1>5
<1>7. Offset(p) = j + o[k - 1]
  BY <1>1, <1>2, <1>4, <1>5
<1> QED
  BY <1>6, <1>7

LEMMA OffsetIs ==
  ASSUME NEW o, ItemsAlong(heap, Chain, o, Items), NEW p, NEW k, NEW j, NEW i,
         OnItem(heap, Chain, o, p, k, j, i)
  PROVE  Offset(p) = i
<1>1. /\ k \in 1 .. Len(Chain) /\ p = [leaf |-> Chain[k], slot |-> j] /\ i = o[k - 1] + j
      /\ j \in Int
  BY DEF OnItem
<1> QED
  BY <1>1, OffsetAt

\* ++ goes to the next pair, or to the end; -- goes back.
LEMMA AdvanceIs ==
  ASSUME heap \in Heaps, NEW s, NEW o, NEW t, ItemsAlong(heap, s, o, t),
         NEW p, NEW k, NEW j, NEW i, OnItem(heap, s, o, p, k, j, i)
  PROVE  /\ i + 1 < Len(t) => \E kk, jj : OnItem(heap, s, o, Advance(p), kk, jj, i + 1)
         /\ i + 1 = Len(t) => Advance(p) = End
         /\ i \in 0 .. Len(t) - 1
         /\ Retreat(Advance(p)) = p
<1>n. PICK n \in Nat \ {0} : n = Len(s)
  BY DEF ItemsAlong
<1>1. /\ k \in 1 .. n /\ j \in 0 .. slotuse(heap, s[k]) - 1
      /\ p = [leaf |-> s[k], slot |-> j] /\ i = o[k - 1] + j
  BY <1>n DEF OnItem
<1>2. p.leaf = s[k] /\ p.slot = j /\ k \in Nat /\ j \in Nat /\ k - 1 \in 0 .. n /\ k \in 0 .. n
  BY <1>1
<1>3. Numbered(heap, s, o) /\ Len(t) = o[n]
  BY <1>n DEF ItemsAlong, Laid
<1>4. /\ o \in [0 .. n -> Nat]
      /\ \A x \in 1 .. n : slotuse(heap, s[x]) \in Nat /\ o[x] = o[x - 1] + slotuse(heap, s[x])
  BY <1>3, <1>n DEF Numbered
<1>5. /\ \A x \in 1 .. n : s[x] \in Leaves(heap) /\ slotuse(heap, s[x]) >= 1
      /\ LinkedList(s, Nexts(heap), Prevs(heap), NULL)
      /\ m_tailleaf = s[n]
  BY <1>n DEF ItemsAlong
<1>6. \A x \in 1 .. n : /\ heap[s[x]].next = IF x = n THEN NULL ELSE s[x + 1]
                        /\ heap[s[x]].prev = IF x = 1 THEN NULL ELSE s[x - 1]
                        /\ s[x] # NULL
  <2> TAKE x \in 1 .. n
  <2>1. s[x] \in Leaves(heap)
    BY <1>5
  <2>2. Nexts(heap)[s[x]] = heap[s[x]].next /\ Prevs(heap)[s[x]] = heap[s[x]].prev
    BY <2>1 DEF Nexts, Prevs
  <2>3. s[x] # NULL
    BY <2>1, LeafNode, NodeAssumption
  <2> QED
    BY <1>5, <1>n, <2>2, <2>3 DEF LinkedList
<1>h. PICK h \in Nat : h = slotuse(heap, s[k])
  BY <1>1, <1>4
<1>b. PICK b \in Nat, c \in Nat, N \in Nat : b = o[k - 1] /\ c = o[k] /\ N = Len(t)
  BY <1>2, <1>3, <1>4
<1>7. j \in 0 .. h - 1 /\ c = b + h /\ i = b + j
  BY <1>1, <1>4, <1>b, <1>h
<1>8. c <= N
  <2>1. n \in k .. n /\ k \in 0 .. n
    BY <1>1
  <2>2. o[k] <= o[n]
    BY <1>3, <1>n, <2>1, NumbersGrow
  <2> QED
    BY <1>3, <1>b, <2>2
<1>9. i \in 0 .. N - 1 /\ i + 1 <= c
  BY <1>7, <1>8
<1>10. CASE j + 1 < h
  <2>1. Advance(p) = [leaf |-> s[k], slot |-> j + 1]
    BY <1>1, <1>2, <1>10, <1>h DEF Advance
  <2>2. OnItem(heap, s, o, Advance(p), k, j + 1, i + 1)
    <3>1. j + 1 \in 0 .. h - 1 /\ i + 1 = b + (j + 1)
      BY <1>7, <1>10
    <3> QED
      BY <1>1, <1>b, <1>h, <1>n, <2>1, <3>1 DEF OnItem
  <2>3. i + 1 # N
    BY <1>7, <1>8, <1>10
  <2>4. Retreat(Advance(p)) = p
    <3>1. Retreat([leaf |-> s[k], slot |-> j + 1]) = [leaf |-> s[k], slot |-> j]
      <4>1. j + 1 > 0 /\ (j + 1) - 1 = j
        BY <1>2
      <4> QED
        BY <4>1 DEF Retreat
    <3> QED
      BY <1>1, <2>1, <3>1
  <2> QED
    BY <1>9, <1>b, <2>2, <2>3, <2>4
<1>11. CASE j + 1 = h /\ k # n
  <2>1. k + 1 \in 1 .. n /\ (k + 1) - 1 = k /\ k + 1 # 1
    BY <1>1, <1>11
  <2>2. /\ heap[s[k]].next = s[k + 1] /\ s[k + 1] # NULL /\ heap[s[k + 1]].prev = s[k] /\ s[k] # NULL
    BY <1>1, <1>6, <1>11, <2>1
  <2>3. ~(j + 1 < h)
    BY <1>11
  <2>4. Advance(p) = [leaf |-> s[k + 1], slot |-> 0]
    BY <1>2, <1>h, <2>2, <2>3 DEF Advance
  <2>g. PICK g \in Nat : g = slotuse(heap, s[k + 1]) /\ g >= 1
    BY <1>4, <1>5, <2>1
  <2>5. OnItem(heap, s, o, Advance(p), k + 1, 0, i + 1)
    <3>1. 0 \in 0 .. g - 1 /\ i + 1 = c + 0
      BY <1>7, <1>11, <2>g
    <3> QED
      BY <1>b, <1>n, <2>1, <2>4, <2>g, <3>1 DEF OnItem
  <2>6. i + 1 # N
    <3>1. n \in (k + 1) .. n /\ k + 1 \in 0 .. n
      BY <2>1
    <3>2. o[k + 1] <= o[n]
      BY <1>3, <1>n, <3>1, NumbersGrow
    <3>3. o[k + 1] = c + g /\ o[k + 1] <= N
      BY <1>3, <1>4, <1>b, <2>1, <2>g, <3>2
    <3> QED
      BY <1>7, <1>11, <2>g, <3>3
  <2>7. Retreat(Advance(p)) = p
    <3>1. Retreat([leaf |-> s[k + 1], slot |-> 0]) = [leaf |-> s[k], slot |-> h - 1]
      <4>1. ~(0 > 0)
        OBVIOUS
      <4> QED
        BY <1>h, <2>2, <4>1 DEF Retreat
    <3>2. h - 1 = j
      BY <1>2, <1>11
    <3> QED
      BY <1>1, <2>4, <3>1, <3>2
  <2> QED
    BY <1>9, <1>b, <2>5, <2>6, <2>7
<1>12. CASE j + 1 = h /\ k = n
  <2>1. heap[s[k]].next = NULL /\ s[n] # NULL
    BY <1>1, <1>6, <1>12
  <2>2. ~(j + 1 < h)
    BY <1>12
  <2>3. Advance(p) = [leaf |-> s[n], slot |-> h]
    BY <1>1, <1>2, <1>12, <1>h, <2>1, <2>2 DEF Advance
  <2>4. End = [leaf |-> s[n], slot |-> h]
    BY <1>5, <1>12, <1>h, <2>1 DEF End
  <2>5. i + 1 = N
    BY <1>3, <1>7, <1>12, <1>b
  <2>6. Retreat(Advance(p)) = p
    <3>1. h > 0 /\ h - 1 = j
      BY <1>2, <1>12
    <3>2. Retreat([leaf |-> s[n], slot |-> h]) = [leaf |-> s[n], slot |-> j]
      BY <3>1 DEF Retreat
    <3> QED
      BY <1>1, <1>12, <2>3, <3>2
  <2> QED
    BY <1>9, <1>b, <2>3, <2>4, <2>5, <2>6
<1>13. j + 1 < h \/ j + 1 = h
  BY <1>7
<1> QED
  BY <1>10, <1>11, <1>12, <1>13

Iterators == [leaf : Leaves(heap), slot : Nat]

LEMMA AdvanceStays ==
  ASSUME heap \in Heaps, NEW s, NEW o, NEW t, ItemsAlong(heap, s, o, t), NEW p \in Iterators
  PROVE  Advance(p) \in Iterators
<1>1. p.leaf \in Leaves(heap) /\ p.slot \in Nat /\ slotuse(heap, p.leaf) \in Nat /\ p = [leaf |-> p.leaf, slot |-> p.slot]
  BY LeafNode DEF Iterators
<1>2. ASSUME heap[p.leaf].next # NULL PROVE heap[p.leaf].next \in Leaves(heap)
  <2>1. PICK k \in 1 .. Len(s) : s[k] = p.leaf
    BY <1>1 DEF ItemsAlong
  <2>2. Nexts(heap)[s[k]] = IF k = Len(s) THEN NULL ELSE s[k + 1]
    BY DEF ItemsAlong, LinkedList
  <2>3. k # Len(s) => k + 1 \in 1 .. Len(s)
    BY DEF ItemsAlong
  <2> QED
    BY <1>1, <1>2, <2>1, <2>2, <2>3 DEF Nexts, ItemsAlong
<1>3. CASE p.slot + 1 < slotuse(heap, p.leaf)
  <2>1. Advance(p) = [p EXCEPT !.slot = p.slot + 1]
    BY <1>3 DEF Advance
  <2>2. [p EXCEPT !.slot = p.slot + 1] \in Iterators
    BY <1>1 DEF Iterators
  <2> QED
    BY <2>1, <2>2
<1>4. CASE ~(p.slot + 1 < slotuse(heap, p.leaf)) /\ heap[p.leaf].next # NULL
  <2>1. Advance(p) = [leaf |-> heap[p.leaf].next, slot |-> 0]
    BY <1>4 DEF Advance
  <2> QED
    BY <1>2, <1>4, <2>1 DEF Iterators
<1>5. CASE ~(p.slot + 1 < slotuse(heap, p.leaf)) /\ heap[p.leaf].next = NULL
  <2>1. Advance(p) = [p EXCEPT !.slot = slotuse(heap, p.leaf)]
    BY <1>5 DEF Advance
  <2>2. [p EXCEPT !.slot = slotuse(heap, p.leaf)] \in Iterators
    BY <1>1 DEF Iterators
  <2> QED
    BY <2>1, <2>2
<1> QED
  BY <1>3, <1>4, <1>5

WalkTo == CHOOSE at : at = [i \in Nat |-> IF i = 0 THEN Begin ELSE Advance(at[i - 1])]

LEMMA WalkIs ==
  ASSUME heap \in Heaps, NEW s, NEW o, NEW t, ItemsAlong(heap, s, o, t)
  PROVE  /\ \A i \in Nat : WalkTo[i] = IF i = 0 THEN Begin ELSE Advance(WalkTo[i - 1])
         /\ Walk = [i \in 1 .. m_stats.itemcount + 1 |-> WalkTo[i - 1]]
<1>1. Begin \in Iterators
  <2>1. m_headleaf = s[1] /\ 1 \in 1 .. Len(s)
    BY DEF ItemsAlong
  <2> QED
    BY <2>1 DEF ItemsAlong, Begin, Iterators
<1> DEFINE adv == [p \in Iterators |-> Advance(p)]
<1>2. adv \in [Iterators -> Iterators]
  BY AdvanceStays
<1>3. PICK f \in [Nat -> Iterators] : \A i \in Nat : f[i] = IF i = 0 THEN Begin ELSE adv[f[i - 1]]
  <2> HIDE DEF adv, Iterators
  <2> QED
    BY <1>1, <1>2, WalkExists
<1>4. f = [i \in Nat |-> IF i = 0 THEN Begin ELSE Advance(f[i - 1])]
  <2>1. ASSUME NEW i \in Nat PROVE f[i] = IF i = 0 THEN Begin ELSE Advance(f[i - 1])
    <3>1. i # 0 => i - 1 \in Nat
      OBVIOUS
    <3>2. i # 0 => f[i - 1] \in Iterators
      BY <3>1
    <3> QED
      BY <1>3, <3>2
  <2>2. f = [i \in Nat |-> f[i]]
    OBVIOUS
  <2> HIDE DEF adv
  <2> QED
    BY <2>1, <2>2
<1>5. WalkTo = [i \in Nat |-> IF i = 0 THEN Begin ELSE Advance(WalkTo[i - 1])]
  BY <1>4 DEF WalkTo
<1>6. \A i \in Nat : WalkTo[i] = IF i = 0 THEN Begin ELSE Advance(WalkTo[i - 1])
  <2>w. PICK w : w = WalkTo
    OBVIOUS
  <2>1. w = [i \in Nat |-> IF i = 0 THEN Begin ELSE Advance(w[i - 1])]
    BY <1>5, <2>w
  <2> QED
    BY <2>1, <2>w
<1>7. Walk = [i \in 1 .. m_stats.itemcount + 1 |-> WalkTo[i - 1]]
  BY DEF Walk, WalkTo
<1> QED
  BY <1>6, <1>7

\* Between two calls ++ from Begin visits every pair once, in order, and ends
\* at End, and -- takes each of these steps back (IterationCorrect).
THEOREM IterationIsCorrect ==
  ASSUME MergedFits
  PROVE  Spec => []IterationCorrect
<1>1. EInv => IterationCorrect
  <2> SUFFICES ASSUME EInv, Idle, m_root # NULL
               PROVE  /\ \A i \in 1 .. m_stats.itemcount : Offset(Walk[i]) = i - 1
                      /\ Last(Walk) = End
                      /\ \A i \in 1 .. m_stats.itemcount : Retreat(Walk[i + 1]) = Walk[i]
    BY DEF IterationCorrect
  <2>1. heap \in Heaps
    BY ChainAtRest
  <2>2. PICK o : ItemsAlong(heap, Chain, o, Items)
    BY ItemsAtRest
  <2>3. PICK s, t : s = Chain /\ t = Items
    OBVIOUS
  <2>4. ItemsAlong(heap, s, o, t)
    BY <2>2, <2>3
  <2>5. m_stats.itemcount = Len(t) /\ Len(t) \in Nat
    BY <2>4 DEF ItemsAlong, Laid
  <2>N. PICK N \in Nat : N = Len(t)
    BY <2>5
  <2>w. PICK w : w = WalkTo
    OBVIOUS
  <2>6. /\ \A i \in Nat : w[i] = IF i = 0 THEN Begin ELSE Advance(w[i - 1])
        /\ Walk = [i \in 1 .. N + 1 |-> w[i - 1]]
    <3>1. /\ \A i \in Nat : WalkTo[i] = IF i = 0 THEN Begin ELSE Advance(WalkTo[i - 1])
          /\ Walk = [i \in 1 .. m_stats.itemcount + 1 |-> WalkTo[i - 1]]
      BY <2>1, <2>4, WalkIs
    <3> QED
      BY <3>1, <2>w, <2>N, <2>5
  <2>7. Begin = [leaf |-> s[1], slot |-> 0] /\ Len(s) \in Nat \ {0} /\ 1 \in 1 .. Len(s)
        /\ slotuse(heap, s[1]) >= 1 /\ slotuse(heap, s[1]) \in Nat /\ o[1 - 1] = 0
    <3>1. m_headleaf = s[1] /\ Len(s) \in Nat \ {0} /\ Numbered(heap, s, o)
      BY <2>4 DEF ItemsAlong, Laid
    <3>2. 1 \in 1 .. Len(s) /\ 1 - 1 = 0
      BY <3>1
    <3>3. slotuse(heap, s[1]) >= 1
      BY <2>4, <3>2 DEF ItemsAlong
    <3> QED
      BY <3>1, <3>2, <3>3 DEF Begin, Numbered
  <2> DEFINE T == {i \in 0 .. N - 1 : \E k, j : OnItem(heap, s, o, w[i], k, j, i)}
  <2>8. N >= 1 /\ 0 \in T
    <3>1. 0 \in 0 .. slotuse(heap, s[1]) - 1 /\ 0 = o[1 - 1] + 0
      BY <2>7
    <3>2. w[0] = Begin
      BY <2>6
    <3>3. OnItem(heap, s, o, w[0], 1, 0, 0)
      BY <2>7, <3>1, <3>2 DEF OnItem
    <3>4. 0 \in 0 .. Len(t) - 1
      BY <2>1, <2>4, <3>3, AdvanceIs
    <3> QED
      BY <2>N, <3>3, <3>4
  <2>9. ASSUME NEW i \in 0 .. (N - 1) - 1, i \in T PROVE i + 1 \in T
    <3>1. PICK k, j : OnItem(heap, s, o, w[i], k, j, i)
      BY <2>9
    <3>2. i + 1 < Len(t) => \E kk, jj : OnItem(heap, s, o, Advance(w[i]), kk, jj, i + 1)
      BY <2>1, <2>4, <3>1, AdvanceIs
    <3>3. i + 1 < Len(t) /\ i + 1 \in Nat /\ i + 1 # 0 /\ (i + 1) - 1 = i /\ i + 1 \in 0 .. N - 1
      BY <2>N
    <3>4. w[i + 1] = Advance(w[i])
      BY <2>6, <3>3
    <3> QED
      BY <3>2, <3>3, <3>4
  <2> HIDE DEF T
  <2>10. \A i \in 0 .. N - 1 : i \in T
    <3>1. 0 \in Int /\ N - 1 \in Int
      BY <2>8
    <3> QED
      BY <2>8, <2>9, <3>1, RangeInduction
  <2>11. ASSUME NEW i \in 0 .. N - 1
         PROVE  /\ Offset(w[i]) = i /\ Retreat(w[i + 1]) = w[i]
                /\ i + 1 = N => w[i + 1] = End
    <3>1. PICK k, j : OnItem(heap, s, o, w[i], k, j, i)
      BY <2>10 DEF T
    <3>2. Offset(w[i]) = i
      BY <2>2, <2>3, <3>1, OffsetIs
    <3>3. Retreat(Advance(w[i])) = w[i] /\ (i + 1 = Len(t) => Advance(w[i]) = End)
      BY <2>1, <2>4, <3>1, AdvanceIs
    <3>4. i + 1 \in Nat /\ i + 1 # 0 /\ (i + 1) - 1 = i
      OBVIOUS
    <3>5. w[i + 1] = Advance(w[i])
      BY <2>6, <3>4
    <3> QED
      BY <2>N, <3>2, <3>3, <3>5
  <2>12. \A i \in 1 .. N : i - 1 \in 0 .. N - 1 /\ (i - 1) + 1 = i /\ i \in 1 .. N + 1 /\ i + 1 \in 1 .. N + 1 /\ (i + 1) - 1 = i
    OBVIOUS
  <2>13. \A i \in 1 .. N : Walk[i] = w[i - 1] /\ Walk[i + 1] = w[i]
    BY <2>6, <2>12
  <2>14. Last(Walk) = w[N]
    <3>1. Len(Walk) = N + 1 /\ N + 1 \in 1 .. N + 1 /\ (N + 1) - 1 = N
      BY <2>6
    <3> QED
      BY <2>6, <3>1 DEF Last
  <2>15. w[N] = End
    <3>1. N - 1 \in 0 .. N - 1 /\ (N - 1) + 1 = N
      BY <2>8
    <3> QED
      BY <2>11, <3>1
  <2>16. \A i \in 1 .. N : Offset(w[i - 1]) = i - 1 /\ Retreat(w[i]) = w[i - 1]
    BY <2>11, <2>12
  <2> QED
    BY <2>5, <2>13, <2>14, <2>15, <2>16, <2>N
<1> QED
  BY <1>1, EndsInductive, PTL

-----------------------------------------------------------------------------
(* The order in the phases of a call                                       *)

Settled ==
  \/ op = NULL
  \/ Going(EraseKinds) /\ ret = NULL
  \/ Going(InsertKinds) /\ ret # NULL /\ ret.newchild = NULL
  \/ Going(EraseKinds) /\ ret # NULL /\ ~ret.fixmerge /\ (ret.notFound \/ ret.lastkey = NULL \/ stack = <<>>)

KeysKept ==
  \/ Settled /\ InOrder(heap)
  \/ Going(InsertKinds) /\ ret = NULL /\ DownOrder(heap, Top.curr, op.key)
  \/ /\ Going(InsertKinds) /\ ret # NULL /\ ret.newchild # NULL
     /\ SplitOrder(heap, SplitChild, ret.newchild, ret.newkey)
  \/ /\ Going(EraseKinds) /\ ret # NULL /\ ~ret.fixmerge /\ ~ret.notFound
     /\ ret.lastkey # NULL /\ stack # <<>> /\ Top.slot = slotuse(heap, Top.curr)
     /\ OpenOrder(heap, childid(heap, Top.curr, Top.slot), ret.lastkey)
  \/ /\ Going(EraseKinds) /\ ret # NULL /\ ret.fixmerge
     /\ ret.lastkey # NULL => EmptySlot(heap, Top) = slotuse(heap, Top.curr)
     /\ MergedOrder(heap, childid(heap, Top.curr, EmptySlot(heap, Top) - 1),
                    childid(heap, Top.curr, EmptySlot(heap, Top)), ret.lastkey)

LEMMA KindsApart ==
  /\ Going(InsertKinds) => ~Going(EraseKinds) /\ op # NULL
  /\ Going(EraseKinds) => op # NULL
BY DEF Going, InsertKinds, EraseKinds, KeyKinds

LEMMA KeptIs ==
  ASSUME KeysKept
  PROVE  /\ Settled => InOrder(heap)
         /\ Going(InsertKinds) /\ ret = NULL => DownOrder(heap, Top.curr, op.key)
         /\ Going(InsertKinds) /\ ret # NULL /\ ret.newchild # NULL =>
              SplitOrder(heap, SplitChild, ret.newchild, ret.newkey)
         /\ Going(EraseKinds) /\ ret # NULL /\ ~ret.fixmerge /\ ~ret.notFound /\ stack # <<>>
            /\ ret.lastkey # NULL =>
              /\ Top.slot = slotuse(heap, Top.curr)
              /\ OpenOrder(heap, childid(heap, Top.curr, Top.slot), ret.lastkey)
         /\ Going(EraseKinds) /\ ret # NULL /\ ret.fixmerge =>
              /\ ret.lastkey # NULL => EmptySlot(heap, Top) = slotuse(heap, Top.curr)
              /\ MergedOrder(heap, childid(heap, Top.curr, EmptySlot(heap, Top) - 1),
                             childid(heap, Top.curr, EmptySlot(heap, Top)), ret.lastkey)
BY KindsApart DEF KeysKept, Settled

-----------------------------------------------------------------------------
(* The keys stay in order: insert                                          *)

LEMMA InsertStartKeyed ==
  ASSUME TypeOK, NEW R, Phase(R), KeysKept, NEW key \in Key, NEW data \in Data, InsertStart(key, data)
  PROVE  KeysKept'
<1>1. AtRest(R)
  BY PhaseIs DEF InsertStart
<1>2. heap \in Heaps
  BY CallIs
<1>3. /\ Shape(heap, m_root, {}, {}, R) /\ Tree(heap, m_root, {}, R) /\ NodesHold(heap, {})
      /\ Filled(heap, {}, m_root, 1) /\ op = NULL /\ ret = NULL
  BY <1>1 DEF AtRest, Shape
<1>4. InOrder(heap)
  BY <1>3, KeptIs DEF Settled
<1>5. /\ stack' = <<[curr |-> m_root', slot |-> 0]>> /\ ret' = NULL
      /\ op' = [kind |-> "insert", key |-> key, data |-> data]
  BY <1>3 DEF InsertStart
<1>6. Top'.curr = m_root' /\ op'.key = key
  <2>1. PICK f : f = [curr |-> m_root', slot |-> 0]
    OBVIOUS
  <2>2. Last(<<f>>) = f
    BY DEF Last
  <2> QED
    BY <1>5, <2>1, <2>2 DEF Top
<1>7. Going(InsertKinds)'
  <2>1. op'.kind = "insert"
    BY <1>5
  <2>2. op' \in Call
    BY <1>5 DEF Call, InsertKinds
  <2> QED
    BY <2>1, <2>2, NULLAssumption DEF Going, InsertKinds
<1>8. DownOrder(heap', m_root', key)
  <2>1. CASE m_root # NULL
    <3>1. heap' = heap /\ m_root' = m_root
      BY <2>1 DEF InsertStart, treeVars
    <3>2. m_root \in Allocated(heap)
      BY <1>2, <1>3, <2>1, RootIs
    <3>3. slotuse(heap, m_root) # 0
      BY <1>3, <3>2 DEF Filled
    <3>4. DownOrder(heap, m_root, key)
      BY <1>2, <1>3, <1>4, <2>1, <3>3, StartKeyed
    <3> QED
      BY <3>1, <3>4
  <2>2. CASE m_root = NULL
    <3>1. PICK n : n = FreshNode(heap)
      OBVIOUS
    <3>2. /\ CanAllocate(heap) /\ m_root' = n
          /\ heap' = [heap EXCEPT ![n] = [level |-> 0, slots |-> <<>>, prev |-> NULL, next |-> NULL]]
      BY <2>2, <3>1 DEF InsertStart
    <3>3. n \in NodeId \ Allocated(heap)
      BY <1>2, <3>1, <3>2, FreshIs
    <3>4. Allocated(heap) = {}
      BY <1>3, <2>2 DEF Tree
    <3>5. PICK G : G = heap'
      OBVIOUS
    <3>6. Born(heap, G, n, EmptyLeaf)
      BY <3>2, <3>5 DEF Born, EmptyLeaf
    <3>7. EmptyLeaf \in Leaf \cup Inner /\ EmptyLeaf.level = 0 /\ EmptyLeaf.slots = <<>>
      BY DEF EmptyLeaf, Leaf
    <3>8. IsBorn(heap, G, n, EmptyLeaf)
      BY <1>2, <3>3, <3>6, <3>7, BornIs
    <3>9. G \in Heaps /\ Allocated(G) = {n} /\ isleafnode(G, n) /\ G[n].slots = <<>>
      BY <3>4, <3>7, <3>8 DEF IsBorn, isleafnode
    <3>10. DownOrder(G, n, key)
      BY <3>9, StartEmpty
    <3> QED
      BY <3>2, <3>5, <3>10
  <2> QED
    BY <2>1, <2>2
<1> QED
  BY <1>5, <1>6, <1>7, <1>8 DEF KeysKept

LEMMA InsertDescendKeyed ==
  ASSUME TypeOK, NEW R, Phase(R), KeysKept, InsertDescend
  PROVE  KeysKept'
<1>1. InsertDown(R)
  BY PhaseIs DEF InsertDescend
<1>2. heap \in Heaps /\ op.key \in Key
  BY <1>1, CallIs DEF InsertDown
<1>3. /\ stack \in Seq(InsertFrame) /\ stack # <<>> /\ Path(heap, m_root, stack)
      /\ Tree(heap, m_root, {}, R) /\ NodesHold(heap, {}) /\ Filled(heap, {}, m_root, 0)
      /\ Going(InsertKinds) /\ ret = NULL
  BY <1>1 DEF InsertDown, Shape
<1>4. PICK p : p = Top.curr
  OBVIOUS
<1>5. PICK key : key = op.key
  OBVIOUS
<1>6. p \in InnerNodes(heap)
  BY <1>2, <1>3, <1>4, TopIs DEF InnerNodes, InsertDescend
<1>7. DownOrder(heap, p, key)
  BY <1>3, <1>4, <1>5, KeptIs
<1>8. PICK slot : slot = find_lower(heap, p, key)
  OBVIOUS
<1>9. PICK d : d = childid(heap, p, slot)
  OBVIOUS
<1>10. slotuse(heap, d) # 0
  <2>1. slot \in 0 .. slotuse(heap, p)
    BY <1>2, <1>6, <1>8, FindLowerIs, InnerNode
  <2>a. Tree(heap, m_root, {}, R) /\ NodesHold(heap, {})
    BY <1>3
  <2>b. p \in Allocated(heap) \ {} /\ heap[p].level > 0
    BY <1>2, <1>6, InnerNode
  <2>c. childid(heap, p, slot) \in Allocated(heap) /\ childid(heap, p, slot) # m_root
    BY <1>2, <2>1, <2>a, <2>b, ChildOf
  <2>2. d \in Allocated(heap) /\ d # m_root
    BY <1>9, <2>c
  <2>3. slotuse(heap, d) >= mininnerslots /\ slotuse(heap, d) \in Nat
    BY <1>2, <1>3, <2>2, NodeIs DEF Filled
  <2> QED
    BY <2>3, Sizes
<1>11. DownOrder(heap, d, key)
  <2>1. Tree(heap, m_root, {}, R) /\ NodesHold(heap, {}) /\ key \in Key
    BY <1>2, <1>3, <1>5
  <2> QED
    BY <2>1, <1>2, <1>6, <1>7, <1>8, <1>9, <1>10, DescendKeyed
<1>12. /\ stack' = Append(Front(stack), [Top EXCEPT !.slot = slot]) \o <<[curr |-> d, slot |-> 0]>>
       /\ heap' = heap /\ op' = op /\ ret' = NULL
  BY <1>3, <1>4, <1>5, <1>8, <1>9 DEF InsertDescend, treeVars
<1>13. Top'.curr = d
  <2>1. PICK f, g : f = [Top EXCEPT !.slot = slot] /\ g = [curr |-> d, slot |-> 0]
    OBVIOUS
  <2>2. PICK u : u = Front(stack)
    OBVIOUS
  <2>3. u \in Seq(InsertFrame) /\ Top \in InsertFrame
    BY <1>2, <1>3, <2>2, TopIs
  <2>4. u \in Seq(InsertFrame \cup {f, g}) /\ f \in InsertFrame \cup {f, g} /\ g \in InsertFrame \cup {f, g}
    BY <2>3
  <2>5. PICK v : v = Append(u, f) \o <<g>>
    OBVIOUS
  <2>6. Last(v) = g
    BY <2>4, <2>5 DEF Last
  <2>7. stack' = v
    BY <1>12, <2>1, <2>2, <2>5
  <2> QED
    BY <2>1, <2>6, <2>7 DEF Top
<1>14. Going(InsertKinds)' /\ op'.key = key
  BY <1>3, <1>5, <1>12 DEF Going
<1> QED
  BY <1>11, <1>12, <1>13, <1>14 DEF KeysKept

LEMMA InsertIntoLeafKeyed ==
  ASSUME TypeOK, NEW R, Phase(R), KeysKept, InsertIntoLeaf
  PROVE  KeysKept'
<1>1. InsertDown(R)
  BY PhaseIs DEF InsertIntoLeaf
<1>2. heap \in Heaps /\ op.key \in Key /\ op.data \in Data
  BY <1>1, CallIs DEF InsertDown
<1>3. /\ stack \in Seq(InsertFrame) /\ stack # <<>> /\ Path(heap, m_root, stack)
      /\ Tree(heap, m_root, {}, R) /\ Going(InsertKinds) /\ ret = NULL
  BY <1>1 DEF InsertDown, Shape
<1>4. PICK a : a = Top.curr
  OBVIOUS
<1>5. PICK x : x = NewPair
  OBVIOUS
<1>6. a \in Leaves(heap) /\ x \in Pair /\ x.key = op.key
  BY <1>2, <1>3, <1>4, <1>5, TopIs DEF Leaves, InsertIntoLeaf, NewPair, Pair
<1>7. DownOrder(heap, a, x.key)
  BY <1>3, <1>4, <1>6, KeptIs
<1>8. PICK slot : slot = find_lower(heap, a, x.key)
  OBVIOUS
<1>9. PICK t : t = InsertAt(heap[a].slots, slot + 1, x)
  OBVIOUS
<1>10. PICK G : G = heap'
  OBVIOUS
<1>11. Refilled(heap, G, a, t)
  BY <1>4, <1>5, <1>6, <1>8, <1>9, <1>10 DEF InsertIntoLeaf, Refilled
<1>12. InOrder(G)
  BY <1>2, <1>3, <1>6, <1>7, <1>8, <1>9, <1>11, PutKeyed
<1>13. Going(InsertKinds)' /\ ret' # NULL /\ ret'.newchild = NULL
  <2>1. op' = op /\ ret' = [newchild |-> NULL, newkey |-> NULL]
    BY DEF InsertIntoLeaf
  <2>2. ret' \in InsertResult
    BY <2>1 DEF InsertResult
  <2> QED
    BY <1>3, <2>1, <2>2, NULLAssumption DEF Going
<1> QED
  BY <1>10, <1>12, <1>13 DEF KeysKept, Settled

LEMMA InsertSplitLeafKeyed ==
  ASSUME MergedFits, TypeOK, NEW R, Phase(R), KeysKept, InsertSplitLeaf
  PROVE  KeysKept'
<1>1. InsertDown(R)
  BY PhaseIs DEF InsertSplitLeaf
<1>2. heap \in Heaps /\ op.key \in Key /\ op.data \in Data
  BY <1>1, CallIs DEF InsertDown
<1>3. /\ stack \in Seq(InsertFrame) /\ stack # <<>> /\ Path(heap, m_root, stack)
      /\ Shape(heap, m_root, {}, {}, R) /\ Tree(heap, m_root, {}, R) /\ Linked(heap, {}, R)
      /\ Going(InsertKinds) /\ ret = NULL
  BY <1>1 DEF InsertDown, Shape
<1>4. PICK a, x, d, mid : a = Top.curr /\ x = NewPair /\ d = FreshNode(heap)
                          /\ mid = slotuse(heap, a) \div 2
  OBVIOUS
<1>5. LeafSplit
  BY InsertSplitLeafKeeps
<1>6. PICK l, r \in Seq(Pair) : \E slot \in 0 .. slotuse(heap, a) :
        /\ slot = find_lower(heap, a, op.key) /\ l # <<>> /\ r # <<>>
        /\ l = LeftHalf(heap[a].slots, mid, slot, x) /\ r = RightHalf(heap[a].slots, mid, slot, x)
        /\ heap' = SplitOff(heap, a, d, l, r)
        /\ ret' = [newchild |-> d, newkey |-> Last(l).key]
        /\ SplitChild' = a
  BY <1>4, <1>5 DEF LeafSplit
<1>7. PICK slot \in 0 .. slotuse(heap, a) :
        /\ slot = find_lower(heap, a, op.key) /\ l # <<>> /\ r # <<>>
        /\ l = LeftHalf(heap[a].slots, mid, slot, x) /\ r = RightHalf(heap[a].slots, mid, slot, x)
        /\ heap' = SplitOff(heap, a, d, l, r)
        /\ ret' = [newchild |-> d, newkey |-> Last(l).key]
        /\ SplitChild' = a
  BY <1>6
<1>8. a \in Leaves(heap) /\ x \in Pair /\ x.key = op.key
  BY <1>2, <1>3, <1>4, TopIs DEF Leaves, InsertSplitLeaf, NewPair, Pair
<1>9. heap[a].slots \in Seq(Pair) /\ slotuse(heap, a) = Len(heap[a].slots) /\ slotuse(heap, a) \in Nat
  BY <1>2, <1>8, LeafNode
<1>10. PICK s \in Seq(Pair) : s = heap[a].slots
  BY <1>9
<1>11. PICK t : t = InsertAt(s, slot + 1, x)
  OBVIOUS
<1>12. mid \in 0 .. Len(s) /\ slot \in 0 .. Len(s)
  <2>1. PICK k \in Nat : k = slotuse(heap, a)
    BY <1>9
  <2>2. Len(s) = k /\ mid = k \div 2 /\ slot \in 0 .. k
    BY <1>4, <1>9, <1>10, <2>1
  <2>3. k \div 2 \in 0 .. k
    OBVIOUS
  <2> QED
    BY <2>2, <2>3
<1>13. Joins(t, l, r)
  BY <1>7, <1>8, <1>10, <1>11, <1>12, HalvesJoin
<1>14. NextOf(heap, a)
  BY <1>3, <1>8, NextLeaf
<1>15. d \in NodeId \ Allocated(heap) /\ d # NULL
  BY <1>2, <1>4, FreshIs DEF InsertSplitLeaf
<1>16. DownOrder(heap, a, x.key)
  BY <1>3, <1>4, <1>8, KeptIs
<1>17. PICK G : G = heap'
  OBVIOUS
<1>18. t = InsertAt(heap[a].slots, slot + 1, x) /\ slot = find_lower(heap, a, x.key)
       /\ G = SplitOff(heap, a, d, l, r) /\ l # <<>> /\ r # <<>>
  BY <1>7, <1>8, <1>10, <1>11, <1>17
<1>19. SplitOrder(G, a, d, Last(l).key)
  BY <1>2, <1>3, <1>8, <1>13, <1>14, <1>15, <1>16, <1>18, SplitLeafKeyed
<1>20. ret'.newchild = d /\ ret'.newkey = Last(l).key /\ SplitChild' = a
  BY <1>7
<1>21. Going(InsertKinds)' /\ ret' # NULL
  <2>1. TypeOK' /\ op' = op
    BY InsertSplitLeafKeeps, Zenon DEF InsertSplitLeaf
  <2>2. \E Q : Phase(Q)'
    BY InsertSplitLeafKeeps
  <2>3. ret' # NULL
    <3>1. PICK k : k = Last(l).key
      OBVIOUS
    <3>2. Last(l) \in Pair
      BY <1>7, FrontIs
    <3>3. k \in Key /\ d \in NodeId
      BY <1>15, <3>1, <3>2 DEF Pair
    <3>4. ret' \in InsertResult
      BY <1>7, <3>1, <3>3 DEF InsertResult
    <3> QED
      BY <3>4, NULLAssumption
  <2> QED
    BY <1>3, <2>1, <2>3 DEF Going
<1> QED
  BY <1>15, <1>17, <1>19, <1>20, <1>21 DEF KeysKept

LEMMA InsertPassKeyed ==
  ASSUME TypeOK, NEW R, Phase(R), KeysKept, InsertPass
  PROVE  KeysKept'
<1>1. Going(InsertKinds) /\ ret # NULL /\ ret.newchild = NULL /\ heap' = heap /\ op' = op /\ ret' = ret
  BY DEF InsertPass, Returning, treeVars
<1>2. InOrder(heap)
  BY <1>1, KeptIs DEF Settled
<1> QED
  BY <1>1, <1>2 DEF KeysKept, Settled, Going

\* What is known when the call below has split.
LEMMA SplittingIs ==
  ASSUME TypeOK, NEW R, Phase(R), KeysKept, Returning(InsertKinds), ret.newchild # NULL
  PROVE  /\ heap \in Heaps /\ m_root # NULL /\ Tree(heap, m_root, {ret.newchild}, R)
         /\ NodesHold(heap, {}) /\ Filled(heap, {}, m_root, 1) /\ Top.curr \in InnerNodes(heap)
         /\ Top.slot \in 0 .. slotuse(heap, Top.curr) /\ ret.newkey \in Key
         /\ ret.newchild \in Allocated(heap) /\ ret.newchild \in NodeId
         /\ SplitOrder(heap, childid(heap, Top.curr, Top.slot), ret.newchild, ret.newkey)
<1>1. InsertSplit(R)
  BY PhaseIs
<1>2. heap \in Heaps
  BY CallIs
<1>3. /\ stack \in Seq(InsertFrame) /\ stack # <<>> /\ Path(heap, m_root, stack) /\ Paused(heap, stack)
      /\ Tree(heap, m_root, {ret.newchild}, R) /\ NodesHold(heap, {}) /\ Filled(heap, {}, m_root, 1)
      /\ m_root # NULL /\ ret.newkey \in Key /\ Going(InsertKinds) /\ ret # NULL
  BY <1>1 DEF InsertSplit, Shape, Returning
<1>4. Top.curr \in Allocated(heap) /\ Top = Last(stack)
  BY <1>2, <1>3, TopIs
<1>5. heap[Top.curr].level > 0 /\ Top.slot \in 0 .. slotuse(heap, Top.curr)
  BY <1>3, <1>4 DEF Paused, AtChild
<1>6. Top.curr \in InnerNodes(heap)
  BY <1>2, <1>4, <1>5, NodeIs DEF InnerNodes
<1>7. ret.newchild \in Allocated(heap)
  BY <1>2, <1>3, RootIs
<1>8. SplitOrder(heap, SplitChild, ret.newchild, ret.newkey)
  BY <1>3, KeptIs
<1>9. SplitChild = childid(heap, Top.curr, Top.slot)
  BY <1>3 DEF SplitChild
<1> QED
  BY <1>2, <1>3, <1>5, <1>6, <1>7, <1>8, <1>9 DEF Allocated

LEMMA InsertIntoInnerKeyed ==
  ASSUME TypeOK, NEW R, Phase(R), KeysKept, InsertIntoInner
  PROVE  KeysKept'
<1>1. PICK p, slot, key, x, c : /\ p = Top.curr /\ slot = Top.slot /\ key = ret.newkey
                               /\ x = ret.newchild /\ c = childid(heap, p, slot)
  OBVIOUS
<1>2. /\ heap \in Heaps /\ m_root # NULL /\ Tree(heap, m_root, {x}, R)
      /\ NodesHold(heap, {}) /\ Filled(heap, {}, m_root, 1) /\ p \in InnerNodes(heap)
      /\ slot \in 0 .. slotuse(heap, p) /\ key \in Key /\ x \in Allocated(heap)
      /\ SplitOrder(heap, c, x, key)
  BY <1>1, SplittingIs DEF InsertIntoInner
<1>3. PICK kt, ct, G : /\ kt = InsertAt(heap[p].keys, slot + 1, key)
                       /\ ct = InsertAt(heap[p].child, slot + 2, x) /\ G = heap'
  OBVIOUS
<1>4. Rewritten(heap, G, p, kt, ct)
  BY <1>1, <1>2, <1>3 DEF InsertIntoInner, Rewritten
<1>5. InOrder(G)
  BY <1>1, <1>2, <1>3, <1>4, GrowKeyed
<1>6. Going(InsertKinds)' /\ ret' # NULL /\ ret'.newchild = NULL
  <2>1. op' = op /\ ret' = [newchild |-> NULL, newkey |-> NULL] /\ Going(InsertKinds)
    BY DEF InsertIntoInner, Returning
  <2>2. ret' \in InsertResult
    BY <2>1 DEF InsertResult
  <2> QED
    BY <2>1, <2>2, NULLAssumption DEF Going
<1> QED
  BY <1>3, <1>5, <1>6 DEF KeysKept, Settled

LEMMA InsertSplitInnerKeyed ==
  ASSUME TypeOK, NEW R, Phase(R), KeysKept, InsertSplitInner
  PROVE  KeysKept'
<1>1. PICK p, slot, key, x, c : /\ p = Top.curr /\ slot = Top.slot /\ key = ret.newkey
                               /\ x = ret.newchild /\ c = childid(heap, p, slot)
  OBVIOUS
<1>2. /\ heap \in Heaps /\ m_root # NULL /\ Tree(heap, m_root, {x}, R)
      /\ NodesHold(heap, {}) /\ Filled(heap, {}, m_root, 1) /\ p \in InnerNodes(heap)
      /\ slot \in 0 .. slotuse(heap, p) /\ key \in Key /\ x \in Allocated(heap) /\ x \in NodeId
      /\ SplitOrder(heap, c, x, key)
  BY <1>1, SplittingIs, Zenon DEF InsertSplitInner
<1>3. PICK d, ks, cc, G : /\ d = FreshNode(heap) /\ ks = heap[p].keys /\ cc = heap[p].child /\ G = heap'
  OBVIOUS
<1>4. d \in NodeId \ Allocated(heap) /\ d # NULL
  BY <1>2, <1>3, FreshIs, Zenon DEF InsertSplitInner
<1>5. InnerSplit
  BY InsertSplitInnerKeeps
<1>6. PICK mid : mid = SplitSlot(innerslotmax, slot)
  OBVIOUS
<1>7. PICK lk, lc, rk, rc, up :
        /\ IsCut(ks, cc, mid, slot, key, x, lk, lc, rk, rc, up)
        /\ SplitInner(heap, G, p, d, lk, lc, rk, rc)
        /\ ret' = [newchild |-> d, newkey |-> up] /\ SplitChild' = p
  BY <1>1, <1>3, <1>5, <1>6 DEF InnerSplit
<1>8. /\ ks \in Seq(Key) /\ cc \in Seq(NodeId) /\ Len(ks) = innerslotmax /\ Len(cc) = Len(ks) + 1
      /\ slot \in 0 .. innerslotmax
  <2>1. /\ ~isleafnode(heap, p) /\ ks \in Seq(Key) /\ cc \in Seq(NodeId)
        /\ slotuse(heap, p) = Len(ks) /\ Kids(heap, p) = cc /\ p \in Allocated(heap)
    BY <1>2, <1>3, InnerNode
  <2>2. slotuse(heap, p) = innerslotmax
    BY <1>1, <2>1, Zenon DEF InsertSplitInner, isfull
  <2>3. Len(cc) = slotuse(heap, p) + 1
    BY <1>2, <2>1 DEF NodesHold
  <2> QED
    BY <1>2, <2>1, <2>2, <2>3
<1>9. PICK kt, ct : kt = InsertAt(ks, slot + 1, key) /\ ct = InsertAt(cc, slot + 2, x)
  OBVIOUS
<1>10. GoodHalves(ct, lk, lc, rk, rc, up)
  BY <1>2, <1>6, <1>7, <1>8, <1>9, HalvesOfInner
<1>11. Joins(kt, Append(lk, up), rk)
  BY <1>2, <1>6, <1>7, <1>8, <1>9, KeysCut
<1>12. /\ lk \in Seq(Key) /\ rk \in Seq(Key) /\ lc \in Seq(NodeId) /\ rc \in Seq(NodeId)
       /\ Joins(ct, lc, rc) /\ Len(lc) = Len(lk) + 1 /\ Len(rc) = Len(rk) + 1 /\ up \in Key
  BY <1>10 DEF GoodHalves, HalfFull
<1>13. kt = InsertAt(heap[p].keys, slot + 1, key) /\ ct = InsertAt(heap[p].child, slot + 2, x)
  BY <1>3, <1>9
<1>14. SplitOrder(G, p, d, up)
  <2>1. SplitInner(heap, G, p, d, lk, lc, rk, rc)
    BY <1>7
  <2> QED
    BY <1>1, <1>2, <1>4, <1>11, <1>12, <1>13, <2>1, SplitInnerKeyed
<1>15. Going(InsertKinds)' /\ ret' # NULL
  <2>1. op' = op /\ Going(InsertKinds)
    BY Zenon DEF InsertSplitInner, Returning
  <2>2. ret' \in InsertResult
    BY <1>4, <1>7, <1>12 DEF InsertResult
  <2> QED
    BY <2>1, <2>2, NULLAssumption DEF Going
<1>16. ret'.newchild = d /\ ret'.newkey = up /\ SplitChild' = p
  BY <1>7
<1> QED
  BY <1>3, <1>4, <1>14, <1>15, <1>16 DEF KeysKept

LEMMA InsertFinishKeyed ==
  ASSUME TypeOK, NEW R, Phase(R), KeysKept, InsertFinish
  PROVE  KeysKept'
<1>1. op' = NULL
  BY DEF InsertFinish
<1>2. Going(InsertKinds) /\ stack = <<>> /\ ret # NULL
  <2>1. Going(InsertKinds) /\ stack = <<>>
    BY DEF InsertFinish, Returned
  <2>2. InsertUp(R) \/ InsertSplit(R)
    BY PhaseIs DEF InsertFinish
  <2>3. ret \in InsertResult
    BY <2>2 DEF InsertUp, InsertSplit
  <2> QED
    BY <2>1, <2>3, NULLAssumption
<1>3. CASE ret.newchild = NULL
  <2>1. InOrder(heap) /\ heap' = heap
    BY <1>2, <1>3, KeptIs DEF Settled, InsertFinish
  <2> QED
    BY <1>1, <2>1 DEF KeysKept, Settled
<1>4. CASE ret.newchild # NULL
  <2>1. InsertSplit(R)
    BY <1>4, PhaseIs DEF InsertFinish
  <2>2. PICK x, key, n, G : x = ret.newchild /\ key = ret.newkey /\ n = FreshNode(heap) /\ G = heap'
    OBVIOUS
  <2>3. heap \in Heaps
    BY CallIs
  <2>4. /\ Tree(heap, m_root, {x}, R) /\ key \in Key /\ m_root # NULL /\ Filled(heap, {}, NULL, 1)
        /\ IsNext(Allocated(heap), R, m_root, x)
    BY <1>2, <2>1, <2>2 DEF InsertSplit, Shape
  <2>5. x \in Allocated(heap) /\ m_root \in Allocated(heap)
    BY <2>3, <2>4, RootIs
  <2>6. m_root # x
    <3>1. Forest(Allocated(heap), LevelsOf(heap), KidsOf(heap), ({m_root} \ {NULL}) \cup {x}, R)
      BY <2>4, TreeIs
    <3>2. x \in R[m_root]
      BY <2>4 DEF IsNext
    <3>3. LevelOrder(Allocated(heap), LevelsOf(heap), R)
      BY <3>1 DEF Forest
    <3> QED
      BY <2>5, <3>2, <3>3 DEF LevelOrder
  <2>7. n \in NodeId \ Allocated(heap)
    BY <1>4, <2>2, <2>3, FreshIs DEF InsertFinish
  <2>8. Born(heap, G, n, [level |-> heap[m_root].level + 1, keys |-> <<key>>, child |-> <<m_root, x>>])
    BY <1>4, <2>2 DEF InsertFinish, Born
  <2>9. SplitOrder(heap, m_root, x, key)
    BY <1>2, <1>4, <2>2, KeptIs DEF SplitChild
  <2>10. InOrder(G)
    BY <2>3, <2>4, <2>5, <2>6, <2>7, <2>8, <2>9, CrownKeyed
  <2> QED
    BY <1>1, <2>2, <2>10 DEF KeysKept, Settled
<1> QED
  BY <1>3, <1>4

LEMMA InsertStepKeyed ==
  ASSUME MergedFits, TypeOK, NEW R, Phase(R), KeysKept, InsertStep
  PROVE  KeysKept'
BY InsertDescendKeyed, InsertIntoLeafKeyed, InsertSplitLeafKeyed, InsertPassKeyed,
   InsertIntoInnerKeyed, InsertSplitInnerKeyed, InsertFinishKeyed DEF InsertStep

\* Steps that change no node.
LEMMA QuietKeyed ==
  ASSUME KeysKept, Settled, Settled', heap' = heap
  PROVE  KeysKept'
<1>1. InOrder(heap)
  BY KeptIs
<1>2. Settled' /\ InOrder(heap')
  BY <1>1
<1> QED
  BY <1>2 DEF KeysKept

LEMMA EraseStartsKeyed ==
  ASSUME NEW R, Phase(R), KeysKept, Idle, op' # NULL, op'.kind \in EraseKinds, heap' = heap, ret' = ret
  PROVE  KeysKept'
<1>1. ret = NULL
  BY PhaseIs DEF AtRest
<1>2. Settled /\ Settled'
  BY <1>1 DEF Settled, Idle, Going
<1> QED
  BY <1>2, QuietKeyed

\* The search found nothing, so far.
LEMMA MissIs ==
  ASSUME NEW R, Phase(R), Returning(EraseKinds), ret.notFound
  PROVE  Going(EraseKinds) /\ ret # NULL /\ ~ret.fixmerge
<1>1. Returning(EraseKinds) /\ ret.fixmerge => EraseMerged(R)
  BY PhaseIs
<1> QED
  BY <1>1 DEF EraseMerged, Returning

LEMMA EraseQuietKeyed ==
  ASSUME NEW R, Phase(R), KeysKept, EraseDescend \/ EraseMiss \/ EraseNextSlot \/ ErasePass
  PROVE  KeysKept'
<1>1. CASE EraseDescend
  <2>1. Settled /\ Settled' /\ heap' = heap
    BY <1>1 DEF EraseDescend, Calling, Settled, Going, treeVars
  <2> QED
    BY <2>1, QuietKeyed
<1>2. CASE EraseMiss
  <2>1. ret' = NotFound /\ op' = op /\ heap' = heap /\ Going(EraseKinds) /\ ret = NULL
    BY <1>2 DEF EraseMiss, EraseReturns, Calling, treeVars
  <2>2. NotFound # NULL /\ NotFound.notFound /\ ~NotFound.fixmerge
    BY NoLeafResult, NULLAssumption
  <2>3. Settled /\ Settled'
    BY <2>1, <2>2 DEF Settled, Going
  <2> QED
    BY <2>1, <2>3, QuietKeyed
<1>3. CASE EraseNextSlot
  <2>1. ret' = NULL /\ op' = op /\ heap' = heap /\ Returning(EraseKinds) /\ ret.notFound
    BY <1>3 DEF EraseNextSlot, treeVars
  <2>2. Settled /\ Settled'
    BY <2>1, MissIs DEF Settled, Going
  <2> QED
    BY <2>1, <2>2, QuietKeyed
<1>4. CASE ErasePass
  <2>1. ret' = ret /\ op' = op /\ heap' = heap /\ Returning(EraseKinds) /\ ret.notFound
    BY <1>4 DEF ErasePass, EraseReturns, treeVars
  <2>2. Settled /\ Settled'
    BY <2>1, MissIs DEF Settled, Going
  <2> QED
    BY <2>1, <2>2, QuietKeyed
<1> QED
  BY <1>1, <1>2, <1>3, <1>4

LEMMA EraseFinishKeyed ==
  ASSUME NEW R, Phase(R), KeysKept, EraseFinish
  PROVE  KeysKept'
<1>1. Going(EraseKinds) /\ stack = <<>> /\ heap' = heap /\ ret' = NULL /\ (op' = op \/ op' = NULL)
  BY DEF EraseFinish, Returned
<1>2. EraseUp(R)
  BY PhaseIs DEF EraseFinish
<1>3. ret # NULL /\ ~ret.fixmerge
  BY <1>2, NULLAssumption DEF EraseUp
<1>4. Settled /\ Settled'
  BY <1>1, <1>3 DEF Settled, Going
<1> QED
  BY <1>1, <1>4, QuietKeyed

LEMMA ClearKeyed ==
  ASSUME TypeOK, NEW R, Phase(R), Clear
  PROVE  KeysKept'
<1>1. heap \in Heaps
  BY CallIs
<1>2. Tree(heap, m_root, {}, R) /\ m_root # NULL
  BY PhaseIs DEF Clear, AtRest, Shape
<1>3. Subtree = Allocated(heap)
  BY <1>1, <1>2, SubtreeIs
<1>4. PICK G : G = heap'
  OBVIOUS
<1>5. Allocated(G) = {}
  BY <1>3, <1>4 DEF Clear, Allocated
<1>6. InOrder(G)
  BY <1>5, NothingInOrder
<1>7. op' = NULL
  BY DEF Clear, Idle, callVars
<1> QED
  BY <1>4, <1>6, <1>7 DEF KeysKept, Settled

LEMMA KeysStart ==
  ASSUME Init
  PROVE  KeysKept
<1>1. Allocated(heap) = {} /\ op = NULL
  BY DEF Init, Allocated
<1> QED
  BY <1>1, NothingInOrder DEF KeysKept, Settled

LEMMA KeysStutter ==
  ASSUME KeysKept, UNCHANGED vars
  PROVE  KeysKept'
<1>1. heap' = heap /\ m_root' = m_root /\ op' = op /\ stack' = stack /\ ret' = ret
  BY DEF vars, treeVars, callVars
<1>2. Top' = Top /\ SplitChild' = SplitChild
  BY <1>1 DEF Top, SplitChild
<1>3. Settled' <=> Settled
  BY <1>1 DEF Settled, Going
<1> QED
  BY <1>1, <1>2, <1>3 DEF KeysKept, Going

-----------------------------------------------------------------------------
(* An erase goes up                                                        *)

\* The node of the last frame ends with k, and k goes on to the frame above.
Rises(G, k) ==
  IF k = NULL \/ Front(stack) = <<>> THEN InOrder(G)
  ELSE /\ Top.parentslot = slotuse(G, Top.parent) /\ childid(G, Top.parent, Top.parentslot) = Top.curr
       /\ OpenOrder(G, Top.curr, k)

LEMMA RisesIs ==
  ASSUME NEW G \in Heaps, NEW R, Tree(G, m_root, {}, R), IsPlaced(heap, m_root, stack),
         Top = Last(stack), Top.curr \in Allocated(G), slotuse(G, Top.curr) >= 1,
         Top.parent # NULL =>
           /\ slotuse(G, Top.parent) = slotuse(heap, Top.parent)
           /\ slotuse(heap, Top.parent) \in Nat
           /\ childid(G, Top.parent, Top.parentslot) = childid(heap, Top.parent, Top.parentslot),
         NEW k, NEW own, own = OwnsKey(heap, Top), Opens(G, Top.curr, k, own)
  PROVE  Rises(G, k)
<1>1. Top.curr \in NodeId /\ Placed(heap, Top)
  BY DEF Allocated, IsPlaced
<1>2. CASE k = NULL
  BY <1>1, <1>2, OpensNothing DEF Rises
<1>3. CASE Front(stack) = <<>>
  <2>1. Top.curr = m_root
    BY <1>3 DEF IsPlaced
  <2>2. Tree(G, Top.curr, {}, R)
    BY <2>1
  <2>3. InOrder(G)
    BY <2>2, OpensRoot
  <2> QED
    BY <1>3, <2>3 DEF Rises
<1>4. CASE k # NULL /\ Front(stack) # <<>>
  <2>1. Top.parent # NULL
    BY <1>4 DEF IsPlaced
  <2>2. PICK lo, hi : \E x \in Int :
          /\ Keyed(G, {}, lo, hi, [hi EXCEPT ![Top.curr] = x])
          /\ hi[Top.curr] = k /\ k <= x /\ ~own
    BY <1>4 DEF Opens
  <2>3. ~OwnsKey(heap, Top) /\ OpenOrder(G, Top.curr, k)
    BY <2>2 DEF OpenOrder
  <2>4. Top.parentslot \in 0 .. slotuse(heap, Top.parent) /\ childid(heap, Top.parent, Top.parentslot) = Top.curr
    BY <1>1, <2>1 DEF Placed
  <2>5. ~(Top.parentslot < slotuse(heap, Top.parent))
    BY <2>1, <2>3 DEF OwnsKey
  <2>6. slotuse(heap, Top.parent) \in Nat
    BY <2>1
  <2>7. Top.parentslot = slotuse(heap, Top.parent)
    BY <2>4, <2>5, <2>6
  <2>8. Top.parentslot = slotuse(G, Top.parent) /\ childid(G, Top.parent, Top.parentslot) = Top.curr
    BY <2>1, <2>4, <2>7
  <2> QED
    BY <1>4, <2>3, <2>8 DEF Rises
<1> QED
  BY <1>2, <1>3, <1>4

\* What is known of the frame above.
LEMMA AboveIsTop ==
  ASSUME IsPlaced(heap, m_root, stack), Top = Last(stack), stack' = Front(stack)
  PROVE  /\ stack' # <<>> <=> Top.parent # NULL
         /\ Top.parent # NULL => Top' = Above(stack) /\ Top'.curr = Top.parent /\ Top'.slot = Top.parentslot
<1>1. Top' = Above(stack)
  BY DEF Top, Above
<1> QED
  BY <1>1 DEF IsPlaced

LEMMA GoesUp ==
  ASSUME IsPlaced(heap, m_root, stack), Top = Last(stack), Going(EraseKinds), op' = op,
         NEW G, heap' = G, NEW k \in Key \cup {NULL}, EraseReturns(Found(FALSE, k)), Rises(G, k)
  PROVE  KeysKept'
<1>1. stack' = Front(stack) /\ ret' = Found(FALSE, k)
  BY DEF EraseReturns
<1>2. Found(FALSE, k) # NULL
  BY FoundIsNot
<1>3. /\ ret' # NULL /\ ~ret'.fixmerge /\ ~ret'.notFound /\ ret'.lastkey = k
  BY <1>1, <1>2 DEF Found
<1>4. Going(EraseKinds)'
  BY DEF Going
<1>5. CASE k = NULL \/ Front(stack) = <<>>
  <2>1. InOrder(G)
    BY <1>5 DEF Rises
  <2>2. Settled'
    BY <1>1, <1>3, <1>4, <1>5 DEF Settled
  <2> QED
    BY <2>1, <2>2 DEF KeysKept
<1>6. CASE k # NULL /\ Front(stack) # <<>>
  <2>1. /\ Top.parentslot = slotuse(G, Top.parent) /\ childid(G, Top.parent, Top.parentslot) = Top.curr
        /\ OpenOrder(G, Top.curr, k)
    BY <1>6 DEF Rises
  <2>2. stack' # <<>> /\ Top'.curr = Top.parent /\ Top'.slot = Top.parentslot
    BY <1>1, <1>6, AboveIsTop
  <2>3. /\ Top'.slot = slotuse(G, Top'.curr)
        /\ OpenOrder(G, childid(G, Top'.curr, Top'.slot), k)
    BY <2>1, <2>2
  <2> QED
    BY <1>3, <1>4, <1>6, <2>2, <2>3 DEF KeysKept
<1> QED
  BY <1>5, <1>6

LEMMA MergeGoesUp ==
  ASSUME IsPlaced(heap, m_root, stack), Top = Last(stack), Going(EraseKinds), op' = op, Top.parent # NULL,
         NEW G, heap' = G, NEW k \in Key \cup {NULL}, EraseReturns(Found(TRUE, k)), NEW s, s = EmptySlot(G, Above(stack)),
         k # NULL => s = slotuse(G, Top.parent),
         MergedOrder(G, childid(G, Top.parent, s - 1), childid(G, Top.parent, s), k)
  PROVE  KeysKept'
<1>1. stack' = Front(stack) /\ ret' = Found(TRUE, k)
  BY DEF EraseReturns
<1>2. Found(TRUE, k) # NULL
  BY FoundIsNot
<1>3. /\ ret' # NULL /\ ret'.fixmerge /\ ~ret'.notFound /\ ret'.lastkey = k
  BY <1>1, <1>2 DEF Found
<1>4. Going(EraseKinds)'
  BY DEF Going
<1>5. Top' = Above(stack) /\ Top'.curr = Top.parent
  BY <1>1, AboveIsTop
<1>6. EmptySlot(heap', Top') = s
  BY <1>5
<1> QED
  BY <1>3, <1>4, <1>5, <1>6 DEF KeysKept

-----------------------------------------------------------------------------
(* The keys stay in order: erase, on a leaf                                *)

\* What the pair leaves.
LEMMA RemovedOpens ==
  ASSUME TypeOK, NEW R, IsErasing(R), Top.curr \in Leaves(heap), InOrder(heap),
         NEW slot \in 0 .. slotuse(heap, Top.curr) - 1, NEW H, H = Removed(Top.curr, slot),
         slotuse(H, Top.curr) >= 1, NEW own, own = OwnsKey(heap, Top)
  PROVE  Opens(H, Top.curr, ReportedKey(H, Top.curr, slot), own) /\ own \in BOOLEAN
<1>a. PICK a, p, ps : a = Top.curr /\ p = Top.parent /\ ps = Top.parentslot
  OBVIOUS
<1>b. PICK G : G = [heap EXCEPT ![a].slots = RemoveAt(@, slot + 1)]
  OBVIOUS
<1>c. PICK s, t : s = heap[a].slots /\ t = RemoveAt(s, slot + 1)
  OBVIOUS
<1>1. /\ heap \in Heaps /\ m_root # NULL /\ a \in Leaves(heap) /\ Placed(heap, Top)
      /\ Shape(heap, m_root, {}, {}, R) /\ Filled(heap, {}, m_root, 1) /\ Tree(heap, m_root, {}, R)
  BY <1>a DEF IsErasing, Shape
<1>2. /\ a \in NodeId /\ a \in Allocated(heap) /\ isleafnode(heap, a) /\ s \in Seq(Pair)
      /\ slotuse(heap, a) = Len(s) /\ Len(s) \in Nat /\ heap[a].level = 0
  BY <1>1, <1>c, LeafNode
<1>3. slot + 1 \in 1 .. Len(s) /\ slot \in Nat /\ slot + 1 \in Int
  BY <1>2, <1>a
<1>4. t \in Seq(Pair) /\ Inserted(t, s, slot + 1, s[slot + 1])
  BY <1>2, <1>3, <1>c, RemoveAtIs
<1>5. Refilled(heap, G, a, t)
  BY <1>a, <1>b, <1>c, <1>1, <1>2 DEF Refilled, Heaps
<1>6. /\ G \in Heaps /\ SameNodes(heap, G) /\ G[a].slots = t /\ slotuse(G, a) = Len(t)
      /\ \A n \in NodeId \ {a} : G[n] = heap[n] /\ slotuse(G, n) = slotuse(heap, n)
      /\ Leaves(G) = Leaves(heap) /\ InnerNodes(G) = InnerNodes(heap)
  BY <1>1, <1>4, <1>5, RefillOne
<1>7. p # NULL => p \in InnerNodes(heap) /\ p # a /\ p \in NodeId /\ ps \in 0 .. slotuse(heap, p)
                  /\ childid(heap, p, ps) = a
  <2>1. p # NULL => /\ p \in Allocated(heap) /\ heap[p].level = heap[a].level + 1
                    /\ ps \in 0 .. slotuse(heap, p) /\ childid(heap, p, ps) = a
    BY <1>1, <1>a DEF Placed
  <2> QED
    BY <1>2, <2>1 DEF InnerNodes, isleafnode, Allocated
<1>8. p # NULL => /\ p \in InnerNodes(G) /\ slotuse(G, p) = slotuse(heap, p)
                  /\ childid(G, p, ps) = a /\ ps \in 0 .. slotuse(G, p)
  BY <1>6, <1>7 DEF childid
<1>9. own = OwnsKey(G, Top) /\ own \in BOOLEAN
  BY <1>8, <1>a DEF OwnsKey
<1>10. H = IF slot = slotuse(G, a) /\ slot > 0 /\ OwnsKey(G, Top)
            THEN SetKey(G, p, ps, LastKey(G, a)) ELSE G
  BY <1>a, <1>b DEF Removed
<1>11. Tree(G, m_root, {}, R)
  <2>1. m_root \in Allocated(heap)
    BY <1>1, RootIs
  <2> QED
    BY <1>1, <1>6, <2>1, SameTree
<1>12. a \in Leaves(G) /\ a \in Allocated(G)
  BY <1>1, <1>6 DEF Leaves
<1>13. own => p # NULL /\ ps < slotuse(G, p)
  BY <1>9, <1>a DEF OwnsKey
<1>14. CASE slot = slotuse(G, a) /\ slot > 0
  <2>1. Len(t) >= 1 /\ t # <<>> /\ slot = Len(t) /\ Len(t) \in Nat
    BY <1>3, <1>4, <1>6, <1>14
  <2>2. PICK k : k = t[Len(t)].key
    OBVIOUS
  <2>3. LastKey(G, a) = k /\ k \in Key
    BY <1>6, <1>12, <2>1, <2>2, LeafLastKey
  <2>4. Opens(G, a, k, FALSE)
    <3>1. k = IF slot + 1 <= Len(t) THEN NULL ELSE t[Len(t)].key
      BY <2>1, <2>2
    <3> QED
      BY <1>1, <1>3, <1>4, <1>5, <1>c, <2>1, <3>1, TakeOpens
  <2>5. CASE own
    <3>1. H = SetKey(G, p, ps, k)
      BY <1>9, <1>10, <1>14, <2>3, <2>5
    <3>2. slotuse(G, a) >= 1
      BY <1>6, <2>1
    <3>3. p \in InnerNodes(G) /\ ps \in 0 .. slotuse(G, p) /\ ps < slotuse(G, p) /\ a = childid(G, p, ps)
      BY <1>8, <1>13, <2>5
    <3>4. Opens(H, a, NULL, own)
      BY <1>6, <1>11, <1>12, <2>3, <2>4, <3>1, <3>2, <3>3, OpensSet
    <3>5. SameSizes(G, H)
      BY <1>6, <2>3, <3>1, <3>3, KeyWritten
    <3>6. slotuse(H, p) = slotuse(G, p)
      BY <3>3, <3>5 DEF SameSizes, InnerNodes
    <3>7. OwnsKey(H, Top)
      BY <1>9, <1>13, <1>a, <2>5, <3>6 DEF OwnsKey
    <3>8. ReportedKey(H, a, slot) = NULL
      BY <3>7 DEF ReportedKey
    <3> QED
      BY <1>9, <1>a, <3>4, <3>8
  <2>6. CASE ~own
    <3>1. H = G
      BY <1>9, <1>10, <2>6
    <3>2. ReportedKey(H, a, slot) = k
      BY <1>9, <1>14, <2>3, <2>6, <3>1 DEF ReportedKey
    <3>3. own = FALSE
      BY <1>9, <2>6
    <3> QED
      BY <1>9, <1>a, <2>4, <3>1, <3>2, <3>3
  <2> QED
    BY <2>5, <2>6
<1>15. CASE ~(slot = slotuse(G, a) /\ slot > 0)
  <2>1. H = G
    BY <1>10, <1>15
  <2>2. slotuse(G, a) >= 1 /\ t # <<>> /\ Len(t) \in Nat /\ Len(t) = Len(s) - 1
    BY <1>2, <1>4, <1>6, <1>a, <2>1 DEF Inserted
  <2>3. slot + 1 <= Len(t)
    BY <1>3, <1>6, <1>15, <2>2
  <2>4. Opens(G, a, NULL, FALSE)
    <3>1. NULL = IF slot + 1 <= Len(t) THEN NULL ELSE t[Len(t)].key
      BY <2>3
    <3> QED
      BY <1>1, <1>3, <1>4, <1>5, <1>c, <2>2, <3>1, TakeOpens
  <2>5. Opens(G, a, NULL, own)
    BY <1>2, <2>4, OpensNullOwn
  <2>6. ReportedKey(H, a, slot) = NULL
    BY <1>15, <2>1 DEF ReportedKey
  <2> QED
    BY <1>9, <1>a, <2>1, <2>5, <2>6
<1> QED
  BY <1>14, <1>15

\* A leaf after a change among the leaves.
LEMMA LeafRises ==
  ASSUME NEW R, IsErasing(R), Top.curr \in Leaves(heap), NEW G \in Heaps, Tree(G, m_root, {}, R),
         Kept(heap, G, 0), slotuse(G, Top.curr) >= 1,
         NEW k, NEW own, own = OwnsKey(heap, Top), Opens(G, Top.curr, k, own)
  PROVE  Rises(G, k)
<1>a. PICK a, p, ps : a = Top.curr /\ p = Top.parent /\ ps = Top.parentslot
  OBVIOUS
<1>1. /\ heap \in Heaps /\ Top = Last(stack) /\ Placed(heap, Top) /\ IsPlaced(heap, m_root, stack)
      /\ a \in Allocated(heap)
  BY <1>a DEF IsErasing
<1>2. heap[a].level = 0
  BY <1>1, <1>a, LeafNode
<1>3. a \in Allocated(G)
  BY <1>1, <1>2 DEF Kept
<1>4. p # NULL => /\ slotuse(G, p) = slotuse(heap, p) /\ slotuse(heap, p) \in Nat
                  /\ childid(G, p, ps) = childid(heap, p, ps)
  <2>1. SUFFICES ASSUME p # NULL
                 PROVE  /\ slotuse(G, p) = slotuse(heap, p) /\ slotuse(heap, p) \in Nat
                        /\ childid(G, p, ps) = childid(heap, p, ps)
    OBVIOUS
  <2>2. p \in Allocated(heap) /\ heap[p].level = heap[a].level + 1
    BY <1>1, <1>a, <2>1 DEF Placed
  <2>3. heap[p].level > 0 /\ slotuse(heap, p) \in Nat /\ 0 \in Nat
    BY <1>1, <1>2, <2>2, NodeIs
  <2> QED
    BY <1>1, <2>2, <2>3, KeptChild
<1> QED
  BY <1>1, <1>3, <1>4, <1>a, RisesIs

LEMMA LeafKeptKeyed ==
  ASSUME NEW R, IsErasing(R), Top.curr \in Leaves(heap), Going(EraseKinds),
         NEW H, Thinned(heap, H, m_root, R, Top.curr), NEW up \in Key \cup {NULL},
         slotuse(H, Top.curr) >= 1 => Opens(H, Top.curr, up, OwnsKey(heap, Top)),
         LeafKept(H, up), UNCHANGED op
  PROVE  KeysKept'
<1>1. H \in Heaps /\ Tree(H, m_root, {}, R) /\ Kept(heap, H, 0) /\ Top.curr \in Leaves(H)
  BY DEF Thinned, Shape
<1>2. heap' = H /\ EraseReturns(Found(FALSE, up)) /\ ~NeedsRemedy(H, Top.curr) /\ op' = op
  BY DEF LeafKept
<1>3. slotuse(H, Top.curr) \in Nat
  BY <1>1, LeafNode
<1>4. slotuse(H, Top.curr) >= 1
  <2>1. ~isunderflow(H, Top.curr) \/ slotuse(H, Top.curr) >= 1
    BY <1>2 DEF NeedsRemedy
  <2>2. mininnerslots \in Nat /\ mininnerslots >= 2
    BY Sizes
  <2> QED
    BY <1>3, <2>1, <2>2 DEF isunderflow
<1>5. PICK own : own = OwnsKey(heap, Top)
  OBVIOUS
<1>6. Rises(H, up)
  BY <1>1, <1>4, <1>5, LeafRises
<1>7. IsPlaced(heap, m_root, stack) /\ Top = Last(stack)
  BY DEF IsErasing
<1> QED
  BY <1>2, <1>6, <1>7, GoesUp

LEMMA TreeEmptiedKeyed ==
  ASSUME NEW R, IsErasing(R), Top.curr \in Leaves(heap), Going(EraseKinds),
         NEW H, Thinned(heap, H, m_root, R, Top.curr), TreeEmptied(H), UNCHANGED op
  PROVE  KeysKept'
<1>a. PICK a : a = Top.curr
  OBVIOUS
<1>1. H \in Heaps /\ Tree(H, m_root, {}, R) /\ Kept(heap, H, 0) /\ a \in Leaves(H)
  BY <1>a DEF Thinned, Shape
<1>2. heap[a].level = 0
  BY <1>a, LeafNode DEF IsErasing
<1>3. Top.left = NULL /\ Top.right = NULL /\ heap' = [H EXCEPT ![m_root] = NULL]
      /\ EraseReturns(Found(FALSE, NULL)) /\ op' = op
  BY DEF TreeEmptied
<1>4. a = m_root
  BY <1>1, <1>2, <1>3, <1>a, NoNeighbours
<1>5. Allocated(H) = {a}
  BY <1>1, <1>4, OnlyLeaf
<1>6. Allocated(heap') = {}
  BY <1>1, <1>3, <1>4, <1>5 DEF Allocated, Heaps
<1>7. PICK G : G = heap'
  OBVIOUS
<1>8. InOrder(G)
  BY <1>6, <1>7, NothingInOrder
<1>9. Rises(G, NULL)
  BY <1>8 DEF Rises
<1>10. IsPlaced(heap, m_root, stack) /\ Top = Last(stack)
  BY DEF IsErasing
<1> QED
  BY <1>3, <1>7, <1>9, <1>10, GoesUp

\* Where a poor leaf is.
PoorLeafAt(R, H, a, p, ps) ==
  /\ H \in Heaps /\ Shape(H, m_root, {}, {}, R) /\ Tree(H, m_root, {}, R) /\ Linked(H, {}, R)
  /\ NodesHold(H, {}) /\ Filled(H, {a}, m_root, 1) /\ m_root # NULL
  /\ p # NULL /\ p \in InnerNodes(H) /\ p \in Allocated(H) /\ H[p].level = 1 /\ slotuse(H, p) \in Nat
  /\ ps \in 0 .. slotuse(H, p) /\ ps \in Nat /\ childid(H, p, ps) = a /\ a \in Leaves(H)
  /\ slotuse(H, a) + 1 = mininnerslots /\ slotuse(H, a) \in Nat /\ slotuse(H, a) >= 1
  /\ (OwnsKey(heap, Top) <=> ps < slotuse(H, p)) /\ OwnsKey(heap, Top) \in BOOLEAN
  /\ IsPlaced(heap, m_root, stack) /\ Top = Last(stack)
  /\ Above(stack).curr = p /\ Above(stack).slot = ps /\ Kept(heap, H, 0) /\ GoodRemedy(H, Top)

LEMMA PoorLeafPlace ==
  ASSUME NEW R, NEW H, Leaving(R, H), NEW a, a = Top.curr, NEW p, p = Top.parent,
         NEW ps, ps = Top.parentslot
  PROVE  PoorLeafAt(R, H, a, p, ps)
<1>1. /\ IsErasing(R) /\ a \in Leaves(heap) /\ m_root # NULL /\ heap \in Heaps
      /\ Thinned(heap, H, m_root, R, a) /\ IsPoorLeaf(R, H)
      /\ IsPlaced(heap, m_root, stack) /\ Top = Last(stack)
  BY DEF Leaving, IsErasing
<1>2. /\ H \in Heaps /\ Shape(H, m_root, {}, {}, R) /\ Filled(H, {a}, m_root, 1) /\ Kept(heap, H, 0)
      /\ a \in Leaves(H) /\ \A n \in NodeId \ {a} : slotuse(H, n) = slotuse(heap, n)
  BY <1>1 DEF Thinned
<1>3. Tree(H, m_root, {}, R) /\ Linked(H, {}, R) /\ NodesHold(H, {})
  BY <1>2 DEF Shape
<1>4. /\ p # NULL /\ p \in Allocated(H) /\ H[p].level = 1 /\ slotuse(H, a) + 1 = mininnerslots
      /\ slotuse(H, p) \in Nat /\ childid(H, p, ps) = a /\ ps \in 0 .. slotuse(H, p)
      /\ Above(stack).curr = p /\ Above(stack).slot = ps /\ GoodRemedy(H, Top)
  BY <1>1 DEF IsPoorLeaf, Placed
<1>5. p \in InnerNodes(H)
  BY <1>4 DEF InnerNodes, isleafnode
<1>6. isleafnode(H, a) /\ slotuse(H, a) \in Nat
  BY <1>2, LeafNode
<1>7. p # a /\ p \in NodeId
  BY <1>4, <1>6 DEF isleafnode, Allocated
<1>8. slotuse(H, p) = slotuse(heap, p)
  BY <1>2, <1>7
<1>9. (OwnsKey(heap, Top) <=> ps < slotuse(H, p)) /\ OwnsKey(heap, Top) \in BOOLEAN
  BY <1>4, <1>8 DEF OwnsKey
<1>10. slotuse(H, a) >= 1 /\ ps \in Nat
  BY <1>4, <1>6, Sizes
<1> QED
  BY <1>1, <1>2, <1>3, <1>4, <1>5, <1>6, <1>9, <1>10 DEF PoorLeafAt

LEMMA LeafMergeLeftKeyed ==
  ASSUME MergedFits, NEW R, NEW H, Leaving(R, H), NEW up \in Key \cup {NULL},
         Opens(H, Top.curr, up, OwnsKey(heap, Top)),
         Remedy(H, Top) = "merge_left", LeafMerged(H, up, Top.left, Top.curr)
  PROVE  KeysKept'
<1>a. PICK a, p, l, ps, s, G : a = Top.curr /\ p = Top.parent /\ l = Top.left /\ ps = Top.parentslot
                               /\ s = ps - 1 /\ G = heap'
  OBVIOUS
<1>b. PICK own : own = OwnsKey(heap, Top)
  OBVIOUS
<1>1. PoorLeafAt(R, H, a, p, ps)
  BY <1>a, PoorLeafPlace
<1>2. /\ H \in Heaps /\ Tree(H, m_root, {}, R) /\ Linked(H, {}, R) /\ NodesHold(H, {}) /\ Filled(H, {a}, m_root, 1)
      /\ p # NULL /\ p \in InnerNodes(H) /\ p \in Allocated(H) /\ H[p].level = 1 /\ slotuse(H, p) \in Nat
      /\ ps \in 0 .. slotuse(H, p) /\ ps \in Nat /\ childid(H, p, ps) = a /\ a \in Leaves(H)
      /\ slotuse(H, a) >= 1 /\ (own <=> ps < slotuse(H, p)) /\ own \in BOOLEAN
      /\ IsPlaced(heap, m_root, stack) /\ Top = Last(stack)
      /\ Above(stack).curr = p /\ Above(stack).slot = ps /\ GoodRemedy(H, Top)
  BY <1>1, <1>b DEF PoorLeafAt
<1>3. ps \in 1 .. slotuse(H, p) /\ l = childid(H, p, s)
  BY <1>2, <1>a DEF GoodRemedy, HasLeft
<1>4. s \in 0 .. slotuse(H, p) /\ s < slotuse(H, p) /\ s + 1 = ps
  BY <1>2, <1>3, <1>a
<1>5. NextLeaves(H, m_root, R, l, a) /\ IsMerged(H, G, m_root, R, l, a)
  BY <1>a, LeafMergeLeft
<1>6. l \in Leaves(H) /\ IsNext(Allocated(H), R, l, a) /\ l # a
  BY <1>5 DEF NextLeaves
<1>7. NextOf(H, a) /\ H[a].next # l
  BY <1>2, <1>6, NextIsNew
<1>8. Abreast(H, p, s, l, a, up)
  <2>1. a = childid(H, p, s + 1)
    BY <1>2, <1>4
  <2>2. Opens(H, a, up, own)
    BY <1>a, <1>b
  <2> QED
    BY <1>3, <2>1, <2>2, AbreastLeft
<1>9. slotuse(H, l) >= 1
  BY <1>2, <1>6, NeighbourHolds
<1>10. H[l].slots # <<>> /\ H[a].slots # <<>>
  <2>1. slotuse(H, l) = Len(H[l].slots) /\ slotuse(H, a) = Len(H[a].slots)
    BY <1>2, <1>6, LeafNode
  <2> QED
    BY <1>2, <1>9, <2>1
<1>11. G = merge_leaves(H, l, a) /\ EraseReturns(Found(TRUE, up))
  BY <1>a DEF LeafMerged
<1>12. slotuse(G, a) = 0 /\ Kept(H, G, 0) /\ Allocated(G) = Allocated(H)
  BY <1>5 DEF IsMerged, SameNodes
<1>13. MergedOrder(G, l, a, up)
  BY <1>2, <1>4, <1>6, <1>7, <1>8, <1>10, <1>11, <1>12, LeavesMergedKeyed
<1>14. slotuse(G, p) = slotuse(H, p) /\ childid(G, p, ps) = a /\ childid(G, p, s) = l
  <2>1. H[p].level > 0 /\ 0 \in Nat
    BY <1>2
  <2> QED
    BY <1>2, <1>3, <1>12, <2>1, KeptChild
<1>15. EmptySlot(G, Above(stack)) = ps
  BY <1>2, <1>12, <1>14 DEF EmptySlot
<1>16. up # NULL => ps = slotuse(G, p)
  <2>1. up # NULL => ~own
    BY <1>a, <1>b DEF Opens
  <2> QED
    BY <1>2, <1>14, <2>1
<1>17. MergedOrder(G, childid(G, p, ps - 1), childid(G, p, ps), up)
  BY <1>13, <1>14, <1>a
<1>18. Going(EraseKinds) /\ op' = op
  BY DEF Leaving
<1> QED
  BY <1>2, <1>11, <1>15, <1>16, <1>17, <1>18, <1>a, MergeGoesUp

LEMMA LeafMergeRightKeyed ==
  ASSUME MergedFits, NEW R, NEW H, Leaving(R, H), NEW up \in Key \cup {NULL},
         Opens(H, Top.curr, up, OwnsKey(heap, Top)),
         Remedy(H, Top) = "merge_right", LeafMerged(H, up, Top.curr, Top.right)
  PROVE  KeysKept'
<1>a. PICK a, p, r, ps, G : a = Top.curr /\ p = Top.parent /\ r = Top.right /\ ps = Top.parentslot
                            /\ G = heap'
  OBVIOUS
<1>b. PICK own : own = OwnsKey(heap, Top)
  OBVIOUS
<1>1. PoorLeafAt(R, H, a, p, ps)
  BY <1>a, PoorLeafPlace
<1>2. /\ H \in Heaps /\ Tree(H, m_root, {}, R) /\ Linked(H, {}, R) /\ NodesHold(H, {}) /\ Filled(H, {a}, m_root, 1)
      /\ p # NULL /\ p \in InnerNodes(H) /\ p \in Allocated(H) /\ H[p].level = 1 /\ slotuse(H, p) \in Nat
      /\ ps \in 0 .. slotuse(H, p) /\ ps \in Nat /\ childid(H, p, ps) = a /\ a \in Leaves(H)
      /\ slotuse(H, a) >= 1 /\ (own <=> ps < slotuse(H, p)) /\ own \in BOOLEAN
      /\ IsPlaced(heap, m_root, stack) /\ Top = Last(stack)
      /\ Above(stack).curr = p /\ Above(stack).slot = ps /\ GoodRemedy(H, Top)
  BY <1>1, <1>b DEF PoorLeafAt
<1>3. ps < slotuse(H, p) /\ r = childid(H, p, ps + 1) /\ own = TRUE
  BY <1>2, <1>a DEF GoodRemedy, HasRight
<1>5. NextLeaves(H, m_root, R, a, r) /\ IsMerged(H, G, m_root, R, a, r)
  BY <1>a, LeafMergeRight
<1>6. r \in Leaves(H) /\ IsNext(Allocated(H), R, a, r) /\ r # a
  BY <1>5 DEF NextLeaves
<1>7. NextOf(H, r) /\ H[r].next # a
  BY <1>2, <1>6, NextIsNew
<1>8. Abreast(H, p, ps, a, r, NULL) /\ up = NULL
  <2>1. Opens(H, a, up, TRUE)
    BY <1>3, <1>a, <1>b
  <2>2. a \in NodeId /\ r \in NodeId
    BY <1>2, <1>6, LeafNode
  <2> QED
    BY <1>2, <1>3, <2>1, <2>2, AbreastRight
<1>9. slotuse(H, r) >= 1
  BY <1>2, <1>6, NeighbourHolds
<1>10. H[r].slots # <<>> /\ H[a].slots # <<>>
  <2>1. slotuse(H, r) = Len(H[r].slots) /\ slotuse(H, a) = Len(H[a].slots)
    BY <1>2, <1>6, LeafNode
  <2> QED
    BY <1>2, <1>9, <2>1
<1>11. G = merge_leaves(H, a, r) /\ EraseReturns(Found(TRUE, up))
  BY <1>a DEF LeafMerged
<1>12. /\ slotuse(G, a) = slotuse(H, a) + slotuse(H, r) /\ Kept(H, G, 0) /\ Allocated(G) = Allocated(H)
  BY <1>5 DEF IsMerged, SameNodes
<1>13. MergedOrder(G, a, r, NULL)
  BY <1>2, <1>3, <1>6, <1>7, <1>8, <1>10, <1>11, <1>12, LeavesMergedKeyed
<1>14. slotuse(G, p) = slotuse(H, p) /\ childid(G, p, ps) = a /\ childid(G, p, ps + 1) = r
  <2>1. H[p].level > 0 /\ 0 \in Nat
    BY <1>2
  <2> QED
    BY <1>2, <1>3, <1>12, <2>1, KeptChild
<1>15. EmptySlot(G, Above(stack)) = ps + 1
  <2>1. slotuse(H, r) \in Nat /\ slotuse(H, a) \in Nat
    BY <1>2, <1>6, LeafNode
  <2>2. slotuse(G, a) # 0
    BY <1>2, <1>12, <2>1
  <2> QED
    BY <1>2, <1>14, <2>2 DEF EmptySlot
<1>16. MergedOrder(G, childid(G, p, (ps + 1) - 1), childid(G, p, ps + 1), up)
  <2>1. (ps + 1) - 1 = ps
    BY <1>2
  <2> QED
    BY <1>8, <1>13, <1>14, <2>1
<1>17. Going(EraseKinds) /\ op' = op
  BY DEF Leaving
<1>18. PICK es : es = ps + 1
  OBVIOUS
<1>19. MergedOrder(G, childid(G, p, es - 1), childid(G, p, es), up) /\ es = EmptySlot(G, Above(stack))
  BY <1>15, <1>16, <1>18
<1>20. up # NULL => es = slotuse(G, p)
  BY <1>8
<1> QED
  BY <1>2, <1>11, <1>17, <1>19, <1>20, <1>a, MergeGoesUp

\* After a shift.
LEMMA LeafShiftedKeyed ==
  ASSUME NEW R, NEW H, Leaving(R, H), NEW G, heap' = G, IsShifted(H, G, m_root, R),
         NEW up \in Key \cup {NULL}, EraseReturns(Found(FALSE, up)),
         NEW own, own = OwnsKey(heap, Top), Opens(G, Top.curr, up, own)
  PROVE  KeysKept'
<1>1. /\ IsErasing(R) /\ Top.curr \in Leaves(heap) /\ Thinned(heap, H, m_root, R, Top.curr)
      /\ Going(EraseKinds) /\ op' = op /\ heap \in Heaps
  BY DEF Leaving, IsErasing
<1>2. G \in Heaps /\ Tree(G, m_root, {}, R) /\ Filled(G, {}, m_root, 1) /\ Kept(H, G, 0) /\ Leaves(G) = Leaves(H)
  BY DEF IsShifted, Shape
<1>3. Kept(heap, H, 0) /\ Leaves(H) = Leaves(heap)
  BY <1>1 DEF Thinned
<1>4. Kept(heap, G, 0)
  <2>1. \A n \in Allocated(heap) : heap[n].level \in Int
    BY <1>1, NodeIs
  <2> QED
    BY <1>2, <1>3, <2>1, KeptTwice
<1>5. slotuse(G, Top.curr) >= 1
  BY <1>1, <1>2, <1>3, NeighbourHolds
<1>6. Rises(G, up)
  BY <1>1, <1>2, <1>4, <1>5, LeafRises
<1>7. IsPlaced(heap, m_root, stack) /\ Top = Last(stack)
  BY <1>1 DEF IsErasing
<1> QED
  BY <1>1, <1>6, <1>7, GoesUp

LEMMA LeafShiftLeftKeyed ==
  ASSUME MergedFits, NEW R, NEW H, Leaving(R, H), NEW up \in Key \cup {NULL},
         Opens(H, Top.curr, up, OwnsKey(heap, Top)), Remedy(H, Top) = "shift_left",
         LET G == shift_left_leaf(H, Top.curr, Top.right)
             here == Top.parentslot < slotuse(G, Top.rightparent)
         IN /\ heap' = SetKey(G, Top.rightparent, Top.parentslot, LastKey(G, Top.curr))
            /\ EraseReturns(Found(FALSE, IF here THEN up ELSE LastKey(G, Top.curr))),
         UNCHANGED m_tailleaf
  PROVE  KeysKept'
<1>a. PICK a, p, r, ps, G : a = Top.curr /\ p = Top.parent /\ r = Top.right /\ ps = Top.parentslot
                            /\ G = heap'
  OBVIOUS
<1>b. PICK own : own = OwnsKey(heap, Top)
  OBVIOUS
<1>c. PICK M : M = shift_left_leaf(H, a, r)
  OBVIOUS
<1>1. PoorLeafAt(R, H, a, p, ps)
  BY <1>a, PoorLeafPlace
<1>2. /\ H \in Heaps /\ Tree(H, m_root, {}, R) /\ Linked(H, {}, R) /\ NodesHold(H, {}) /\ Filled(H, {a}, m_root, 1)
      /\ p # NULL /\ p \in InnerNodes(H) /\ p \in Allocated(H) /\ H[p].level = 1 /\ slotuse(H, p) \in Nat
      /\ ps \in 0 .. slotuse(H, p) /\ ps \in Nat /\ childid(H, p, ps) = a /\ a \in Leaves(H)
      /\ slotuse(H, a) >= 1 /\ (own <=> ps < slotuse(H, p)) /\ own \in BOOLEAN
      /\ slotuse(H, a) + 1 = mininnerslots /\ Shape(H, m_root, {}, {}, R) /\ m_root # NULL
      /\ GoodRemedy(H, Top)
  BY <1>1, <1>b DEF PoorLeafAt
<1>3. ps < slotuse(H, p) /\ r = childid(H, p, ps + 1) /\ own = TRUE /\ Top.rightparent = p /\ ~isfew(H, r)
  BY <1>2, <1>a DEF GoodRemedy, HasRight
<1>4. NextLeaves(H, m_root, R, a, r)
  BY <1>2, <1>3, NextLeavesAre
<1>5. r \in Leaves(H) /\ r # a
  BY <1>4 DEF NextLeaves
<1>6. LeavesCut(H, M, a, r)
  BY <1>2, <1>3, <1>5, <1>c, CutLeft2
<1>7. Abreast(H, p, ps, a, r, NULL) /\ up = NULL
  <2>1. Opens(H, a, up, TRUE)
    BY <1>3, <1>a, <1>b
  <2>2. a \in NodeId /\ r \in NodeId
    BY <1>2, <1>5, LeafNode
  <2> QED
    BY <1>2, <1>3, <2>1, <2>2, AbreastRight
<1>8. slotuse(H, r) >= 1
  BY <1>2, <1>5, NeighbourHolds
<1>9. G = SetKey(M, p, ps, LastKey(M, a))
  BY <1>3, <1>a, <1>c
<1>10. Opens(G, r, NULL, FALSE)
  BY <1>2, <1>3, <1>5, <1>6, <1>7, <1>8, <1>9, CutKeyed
<1>11. Opens(G, a, NULL, own)
  <2>1. a \in NodeId /\ r \in NodeId
    BY <1>2, <1>5, LeafNode
  <2>2. InOrder(G)
    BY <1>10, <2>1, OpensNothing
  <2> QED
    BY <2>1, <2>2, OrderOpens
<1>12. slotuse(M, p) = slotuse(H, p)
  <2>1. PICK l2, r2 : RefilledTwo(H, M, a, r, l2, r2)
    BY <1>6 DEF LeavesCut
  <2>2. p # a /\ p # r /\ p \in NodeId
    <3>1. isleafnode(H, a) /\ isleafnode(H, r)
      BY <1>2, <1>5, LeafNode
    <3> QED
      BY <1>2, <3>1 DEF InnerNodes, Allocated
  <2> QED
    BY <2>1, <2>2 DEF RefilledTwo
<1>13. EraseReturns(Found(FALSE, up))
  BY <1>3, <1>12, <1>a, <1>c
<1>14. IsShifted(H, G, m_root, R)
  BY <1>a, LeafShiftLeft
<1>15. Opens(G, Top.curr, up, own)
  BY <1>7, <1>11, <1>a
<1> QED
  BY <1>13, <1>14, <1>15, <1>a, <1>b, LeafShiftedKeyed

LEMMA LeafShiftRightKeyed ==
  ASSUME MergedFits, NEW R, NEW H, Leaving(R, H), NEW up \in Key \cup {NULL},
         Opens(H, Top.curr, up, OwnsKey(heap, Top)), Remedy(H, Top) = "shift_right",
         heap' = shift_right_leaf(H, Top.left, Top.curr, Top.leftparent, Top.parentslot - 1),
         EraseReturns(Found(FALSE, up)), UNCHANGED m_tailleaf
  PROVE  KeysKept'
<1>a. PICK a, p, l, ps, s, G : a = Top.curr /\ p = Top.parent /\ l = Top.left /\ ps = Top.parentslot
                               /\ s = ps - 1 /\ G = heap'
  OBVIOUS
<1>b. PICK own : own = OwnsKey(heap, Top)
  OBVIOUS
<1>c. PICK M : M = ShiftedRight(H, l, a)
  OBVIOUS
<1>1. PoorLeafAt(R, H, a, p, ps)
  BY <1>a, PoorLeafPlace
<1>2. /\ H \in Heaps /\ Tree(H, m_root, {}, R) /\ Linked(H, {}, R) /\ NodesHold(H, {}) /\ Filled(H, {a}, m_root, 1)
      /\ p # NULL /\ p \in InnerNodes(H) /\ p \in Allocated(H) /\ H[p].level = 1 /\ slotuse(H, p) \in Nat
      /\ ps \in 0 .. slotuse(H, p) /\ ps \in Nat /\ childid(H, p, ps) = a /\ a \in Leaves(H)
      /\ slotuse(H, a) >= 1 /\ (own <=> ps < slotuse(H, p)) /\ own \in BOOLEAN
      /\ slotuse(H, a) + 1 = mininnerslots /\ Shape(H, m_root, {}, {}, R) /\ m_root # NULL
      /\ GoodRemedy(H, Top)
  BY <1>1, <1>b DEF PoorLeafAt
<1>3. ps \in 1 .. slotuse(H, p) /\ l = childid(H, p, s) /\ Top.leftparent = p /\ ~isfew(H, l)
  BY <1>2, <1>a DEF GoodRemedy, HasLeft
<1>4. s \in 0 .. slotuse(H, p) /\ s < slotuse(H, p) /\ s + 1 = ps
  BY <1>2, <1>3, <1>a
<1>5. a = childid(H, p, s + 1)
  BY <1>2, <1>4
<1>6. NextLeaves(H, m_root, R, l, a)
  BY <1>2, <1>3, <1>4, <1>5, NextLeavesAre
<1>7. l \in Leaves(H) /\ l # a
  BY <1>6 DEF NextLeaves
<1>8. LeavesCut(H, M, l, a)
  BY <1>2, <1>3, <1>7, <1>c, CutRight2
<1>9. Abreast(H, p, s, l, a, up)
  <2>1. Opens(H, a, up, own)
    BY <1>a, <1>b
  <2> QED
    BY <1>3, <1>5, <2>1, AbreastLeft
<1>10. slotuse(H, l) >= 1
  BY <1>2, <1>7, NeighbourHolds
<1>11. G = SetKey(M, p, s, LastKey(M, l))
  BY <1>3, <1>a, <1>c, Zenon DEF shift_right_leaf, ShiftedRight
<1>12. Opens(G, a, up, FALSE)
  BY <1>2, <1>4, <1>7, <1>8, <1>9, <1>10, <1>11, CutKeyed
<1>13. Opens(G, a, up, own)
  <2>1. Opens(H, a, up, own) /\ a \in NodeId
    BY <1>2, <1>a, <1>b, LeafNode
  <2> QED
    BY <1>2, <1>12, <2>1, OpensOwn
<1>14. IsShifted(H, G, m_root, R)
  BY <1>a, LeafShiftRight
<1> QED
  BY <1>13, <1>14, <1>a, <1>b, LeafShiftedKeyed

LEMMA EraseHitKeyed ==
  ASSUME MergedFits, TypeOK, NEW R, Phase(R), KeysKept, EraseHit
  PROVE  KeysKept'
<1>1. EraseDown(R) /\ Going(EraseKinds) /\ ret = NULL /\ op' = op
  BY PhaseIs DEF EraseHit, Calling, EraseDown
<1>2. IsErasing(R)
  BY <1>1, ErasingIs
<1>3. Top.curr \in Leaves(heap)
  BY <1>2 DEF IsErasing, EraseHit, Leaves
<1>4. TargetSlot \in 0 .. slotuse(heap, Top.curr) - 1
  BY <1>2, <1>3, TargetIs DEF IsErasing, EraseHit
<1>5. PICK H, up : /\ H = Removed(Top.curr, TargetSlot) /\ up = ReportedKey(H, Top.curr, TargetSlot)
                   /\ LeafKept(H, up) \/ TreeEmptied(H) \/ LeafBalanced(H, up)
  BY DEF EraseHit
<1>6. PICK slot : slot = TargetSlot
  OBVIOUS
<1>7. Thinned(heap, H, m_root, R, Top.curr) /\ up \in Key \cup {NULL}
  BY <1>2, <1>3, <1>4, <1>5, <1>6, RemovedIs
<1>8. InOrder(heap)
  <2>1. Settled
    BY <1>1 DEF Settled
  <2> QED
    BY <2>1, KeptIs
<1>9. slotuse(H, Top.curr) >= 1 => Opens(H, Top.curr, up, OwnsKey(heap, Top))
  <2>1. SUFFICES ASSUME slotuse(H, Top.curr) >= 1
                 PROVE  Opens(H, Top.curr, up, OwnsKey(heap, Top))
    OBVIOUS
  <2>2. PICK own : own = OwnsKey(heap, Top)
    OBVIOUS
  <2>3. Opens(H, Top.curr, ReportedKey(H, Top.curr, slot), own)
    BY <1>2, <1>3, <1>4, <1>5, <1>6, <1>8, <2>1, <2>2, RemovedOpens
  <2> QED
    BY <1>5, <1>6, <2>2, <2>3
<1>10. CASE LeafKept(H, up)
  BY <1>1, <1>2, <1>3, <1>7, <1>9, <1>10, LeafKeptKeyed
<1>11. CASE TreeEmptied(H)
  BY <1>1, <1>2, <1>3, <1>7, <1>11, TreeEmptiedKeyed
<1>12. CASE LeafBalanced(H, up)
  <2>1. NeedsRemedy(H, Top.curr) /\ (Top.left # NULL \/ Top.right # NULL)
        /\ UNCHANGED <<m_root, m_headleaf, m_stats>>
    BY <1>12 DEF LeafBalanced
  <2>2. IsPoorLeaf(R, H)
    BY <1>2, <1>3, <1>7, <2>1, PoorLeafIs
  <2>3. Leaving(R, H)
    BY <1>1, <1>2, <1>3, <1>7, <2>1, <2>2 DEF Leaving
  <2>4. Opens(H, Top.curr, up, OwnsKey(heap, Top))
    <3>1. PoorLeafAt(R, H, Top.curr, Top.parent, Top.parentslot)
      BY <2>3, PoorLeafPlace
    <3> QED
      BY <1>9, <3>1 DEF PoorLeafAt
  <2>5. CASE Remedy(H, Top) = "merge_left" /\ LeafMerged(H, up, Top.left, Top.curr)
    BY <1>7, <2>3, <2>4, <2>5, LeafMergeLeftKeyed
  <2>6. CASE Remedy(H, Top) = "merge_right" /\ LeafMerged(H, up, Top.curr, Top.right)
    BY <1>7, <2>3, <2>4, <2>6, LeafMergeRightKeyed
  <2>7. CASE /\ Remedy(H, Top) = "shift_left"
             /\ LET G == shift_left_leaf(H, Top.curr, Top.right)
                    here == Top.parentslot < slotuse(G, Top.rightparent)
                IN /\ heap' = SetKey(G, Top.rightparent, Top.parentslot, LastKey(G, Top.curr))
                   /\ EraseReturns(Found(FALSE, IF here THEN up ELSE LastKey(G, Top.curr)))
             /\ UNCHANGED m_tailleaf
    BY <1>7, <2>3, <2>4, <2>7, LeafShiftLeftKeyed
  <2>8. CASE /\ Remedy(H, Top) = "shift_right"
             /\ heap' = shift_right_leaf(H, Top.left, Top.curr, Top.leftparent, Top.parentslot - 1)
             /\ EraseReturns(Found(FALSE, up))
             /\ UNCHANGED m_tailleaf
    BY <1>7, <2>3, <2>4, <2>8, LeafShiftRightKeyed
  <2> QED
    BY <1>12, <2>5, <2>6, <2>7, <2>8 DEF LeafBalanced
<1> QED
  BY <1>5, <1>10, <1>11, <1>12

-----------------------------------------------------------------------------
(* The keys stay in order: erase, above the leaves                         *)

LEMMA KeyParentIs ==
  ASSUME NEW R, IsRising(R), NEW c, c = Top.curr, NEW P, P = Top.parent, NEW t, t = Top.parentslot,
         NEW own, own = OwnsKey(heap, Top)
  PROVE  KeyParent(heap, c, P, t, own) /\ own \in BOOLEAN
<1>1. Placed(heap, Top) /\ heap \in Heaps /\ c \in InnerNodes(heap)
  BY DEF IsRising
<1>2. own <=> P # NULL /\ t < slotuse(heap, P)
  BY DEF OwnsKey
<1>3. own \in BOOLEAN
  BY DEF OwnsKey
<1>4. heap[c].level \in Nat /\ heap[c].level > 0
  BY <1>1, InnerNode
<1>5. P # NULL => /\ P \in Allocated(heap) /\ heap[P].level = heap[c].level + 1
                  /\ t \in 0 .. slotuse(heap, P) /\ childid(heap, P, t) = c
  BY <1>1 DEF Placed
<1>6. P # NULL => P \in InnerNodes(heap) /\ P # c
  BY <1>4, <1>5 DEF InnerNodes, isleafnode
<1> QED
  BY <1>2, <1>3, <1>5, <1>6 DEF KeyParent

\* Without a merge below.
LEMMA UpdatedOpens ==
  ASSUME NEW R, IsRising(R), KeysKept, Returning(EraseKinds), ~ret.notFound, ~ret.fixmerge,
         NEW U, U = Updated(heap, Top), NEW k, k = PassedKey(heap, Top), NEW own, own = OwnsKey(heap, Top)
  PROVE  Opens(U, Top.curr, k, own)
<1>a. PICK c, P, t, r : c = Top.curr /\ P = Top.parent /\ t = Top.parentslot /\ r = ret.lastkey
  OBVIOUS
<1>1. /\ heap \in Heaps /\ Shape(heap, m_root, {}, {}, R) /\ Filled(heap, {}, m_root, 1)
      /\ c \in InnerNodes(heap) /\ r \in Key \cup {NULL}
  BY <1>a DEF IsRising, Emptied
<1>2. Tree(heap, m_root, {}, R) /\ NodesHold(heap, {})
  BY <1>1 DEF Shape
<1>3. KeyParent(heap, c, P, t, own) /\ own \in BOOLEAN
  BY <1>a, KeyParentIs
<1>4. c \in NodeId /\ c \in Allocated(heap) /\ slotuse(heap, c) \in Nat /\ heap[c].level > 0
  BY <1>1, InnerNode
<1>5. U = (IF r # NULL /\ own THEN SetKey(heap, P, t, r) ELSE heap) /\ k = IF own THEN NULL ELSE r
  BY <1>a DEF Updated, PassedKey
<1>6. Going(EraseKinds) /\ ret # NULL /\ stack # <<>>
  BY DEF Returning
<1>7. CASE r = NULL
  <2>1. Settled
    BY <1>6, <1>7, <1>a DEF Settled
  <2>2. InOrder(heap)
    BY <2>1, KeptIs
  <2>3. Opens(heap, c, NULL, own)
    BY <1>4, <2>2, OrderOpens
  <2> QED
    BY <1>5, <1>7, <1>a, <2>3
<1>8. CASE r # NULL
  <2>1. Top.slot = slotuse(heap, c) /\ OpenOrder(heap, childid(heap, c, Top.slot), r)
    BY <1>6, <1>8, <1>a, KeptIs
  <2>2. PICK d : d = childid(heap, c, slotuse(heap, c))
    OBVIOUS
  <2>3. d \in Allocated(heap)
    <3>1. slotuse(heap, c) \in 0 .. slotuse(heap, c) /\ c \in Allocated(heap) \ {}
      BY <1>4
    <3> QED
      BY <1>1, <1>2, <1>4, <2>2, <3>1, ChildOf
  <2>4. slotuse(heap, d) >= 1
    BY <1>1, <2>3, NodeHolds
  <2>5. r \in Key /\ OpenOrder(heap, d, r)
    BY <1>1, <1>8, <2>1, <2>2
  <2>6. Opens(heap, c, r, FALSE)
    BY <1>1, <1>2, <2>2, <2>3, <2>4, <2>5, LiftKeyed
  <2>7. CASE own = FALSE
    BY <1>5, <1>a, <2>6, <2>7
  <2>8. CASE own = TRUE
    <3>1. P \in InnerNodes(heap) /\ t \in 0 .. slotuse(heap, P) /\ t < slotuse(heap, P) /\ c = childid(heap, P, t)
      BY <1>3, <2>8 DEF KeyParent
    <3>2. slotuse(heap, c) >= 1
      BY <1>1, <1>4, NodeHolds
    <3>3. U = SetKey(heap, P, t, r) /\ k = NULL
      BY <1>5, <1>8, <2>8
    <3>4. Opens(U, c, NULL, own)
      BY <1>1, <1>2, <1>4, <2>5, <2>6, <3>1, <3>2, <3>3, OpensSet
    <3> QED
      BY <1>a, <3>3, <3>4
  <2> QED
    BY <1>3, <2>7, <2>8
<1> QED
  BY <1>7, <1>8

\* A merge below has emptied d, and m before it has what d held.
IsEmptied(R, c, s, m, d) ==
  /\ heap \in Heaps /\ m_root # NULL /\ c = Top.curr /\ c \in InnerNodes(heap) /\ c \in Allocated(heap)
  /\ s = EmptySlot(heap, Top) /\ s \in 1 .. slotuse(heap, c) /\ slotuse(heap, c) \in Nat
  /\ m = childid(heap, c, s - 1) /\ d = childid(heap, c, s) /\ d # c /\ m # d /\ m # c
  /\ m \in Allocated(heap) /\ d \in Allocated(heap) /\ m \in NodeId /\ d \in NodeId
  /\ heap[c].level > 0 /\ heap[c].level \in Nat /\ heap[d].level = heap[c].level - 1 /\ slotuse(heap, m) >= 1
  /\ Tree(heap, m_root, {}, R) /\ NodesHold(heap, {d}) /\ Shape(heap, m_root, {}, {d}, R)
  /\ Filled(heap, {d}, m_root, 1) /\ m_root \in Allocated(heap)

LEMMA EmptiedIs ==
  ASSUME NEW R, IsRising(R), ret.fixmerge, NEW c, c = Top.curr, NEW s, s = EmptySlot(heap, Top),
         NEW m, m = childid(heap, c, s - 1), NEW d, d = childid(heap, c, s)
  PROVE  IsEmptied(R, c, s, m, d)
<1>1. /\ heap \in Heaps /\ c \in InnerNodes(heap) /\ m_root # NULL /\ s \in 1 .. slotuse(heap, c)
      /\ Shape(heap, m_root, {}, {d}, R) /\ Filled(heap, {d}, m_root, 1)
  BY DEF IsRising, Emptied, Hollow
<1>2. c \in Allocated(heap) /\ heap[c].level > 0 /\ slotuse(heap, c) \in Nat /\ heap[c].level \in Nat
      /\ heap[c].level >= heap[Top.curr].level
  BY <1>1, InnerNode
<1>3. slotuse(heap, c) >= 1
  BY <1>2, RisingFilled
<1>4. NodesHold(heap, {d}) /\ Tree(heap, m_root, {}, R)
  BY <1>1 DEF Shape
<1>5. d # c
  BY <1>3, <1>4 DEF NodesHold
<1>6. c \in Allocated(heap) \ {d} /\ s \in 0 .. slotuse(heap, c) /\ s - 1 \in 0 .. slotuse(heap, c)
      /\ s + 1 # (s - 1) + 1
  BY <1>1, <1>2, <1>5
<1>7. /\ s + 1 \in 1 .. Len(Kids(heap, c)) /\ d = Kids(heap, c)[s + 1] /\ d \in Allocated(heap)
      /\ heap[d].level = heap[c].level - 1
  BY <1>1, <1>2, <1>4, <1>6, ChildOf
<1>8. /\ (s - 1) + 1 \in 1 .. Len(Kids(heap, c)) /\ m = Kids(heap, c)[(s - 1) + 1] /\ m \in Allocated(heap)
      /\ heap[m].level = heap[c].level - 1
  BY <1>1, <1>2, <1>4, <1>6, ChildOf
<1>9. m # d
  BY <1>1, <1>2, <1>4, <1>6, <1>7, <1>8, KidOnce
<1>10. m # c
  BY <1>2, <1>8
<1>11. slotuse(heap, m) >= 1
  <2>1. m \notin {d}
    BY <1>9
  <2> QED
    BY <1>1, <1>8, <2>1, NodeHolds
<1>12. m \in NodeId /\ d \in NodeId
  BY <1>7, <1>8 DEF Allocated
<1>13. m_root \in Allocated(heap)
  BY <1>1, <1>4, RootIs
<1> QED
  BY <1>1, <1>2, <1>4, <1>5, <1>7, <1>8, <1>9, <1>10, <1>11, <1>12, <1>13 DEF IsEmptied

\* G is U without d, and H has the key of a merged leaf in it.
PrunedTo(R, U, G, Q, H, c, s, d) ==
  /\ IsPruned(U, G, m_root, R, Q, c, d) /\ PruneOf(U, G, c, s, d)
  /\ c \in InnerNodes(U) /\ slotuse(U, c) = slotuse(heap, c)
  /\ H = IF G[c].level = 1 THEN SetKey(G, c, s - 1, LastKey(G, childid(G, c, s - 1))) ELSE G

LEMMA PrunedForm ==
  ASSUME NEW R, IsRising(R), ret.fixmerge, NEW U \in Heaps, Rekeyed(heap, U),
         NEW H, H = Pruned(U, Top), NEW c, NEW s, NEW m, NEW d, IsEmptied(R, c, s, m, d)
  PROVE  \E G, Q : PrunedTo(R, U, G, Q, H, c, s, d)
<1>a. PICK t : t = Top.slot
  OBVIOUS
<1>1. /\ heap \in Heaps /\ c \in InnerNodes(heap) /\ m_root # NULL /\ s \in 1 .. slotuse(heap, c)
      /\ Shape(heap, m_root, {}, {d}, R) /\ Filled(heap, {d}, m_root, 1) /\ NodesHold(heap, {d})
      /\ Tree(heap, m_root, {}, R) /\ c \in Allocated(heap) /\ heap[c].level > 0 /\ slotuse(heap, c) \in Nat
      /\ d # c /\ d = childid(heap, c, s) /\ c = Top.curr /\ s = EmptySlot(heap, Top) /\ d \in NodeId
      /\ m_root \in Allocated(heap)
  BY DEF IsEmptied
<1>2. t \in 0 .. slotuse(heap, c)
  BY <1>1, <1>a DEF IsRising
<1>6. /\ c \in InnerNodes(U) /\ U[c].level = heap[c].level /\ slotuse(U, c) = slotuse(heap, c)
      /\ U[c].child = heap[c].child /\ \A i : childid(U, c, i) = childid(heap, c, i)
  BY <1>1, RekeyedNode
<1>7. EmptySlot(U, Top) = s
  <2>1. childid(heap, c, t) \in Allocated(heap)
    BY <1>1, <1>2, ChildOf
  <2>2. slotuse(U, childid(heap, c, t)) = slotuse(heap, childid(heap, c, t))
    BY <2>1 DEF Rekeyed, SameSizes
  <2> QED
    BY <1>1, <1>a, <1>6, <2>2 DEF EmptySlot
<1>8. Shape(U, m_root, {}, {d}, R) /\ Filled(U, {d}, m_root, 1)
  <2>1. Shape(U, m_root, {}, {d}, R)
    BY <1>1, RekeyedShape
  <2> QED
    BY <1>1, <2>1, RekeyedKeeps
<1>9. PICK ks, cs : ks = RemoveAt(U[c].keys, s) /\ cs = RemoveAt(U[c].child, s + 1)
  OBVIOUS
<1>10. PICK M : M = [U EXCEPT ![c].keys = ks, ![c].child = cs]
  OBVIOUS
<1>11. PICK G, Q : G = [M EXCEPT ![d] = NULL] /\ Q = OrderWithout(R, d)
  OBVIOUS
<1>12. Rewritten(U, M, c, ks, cs)
  BY <1>10 DEF Rewritten
<1>13. IsPruned(U, G, m_root, R, Q, c, d)
  <2>2. d = childid(U, c, s) /\ s \in 1 .. slotuse(U, c)
    BY <1>1, <1>6
  <2> QED
    BY <1>1, <1>6, <1>8, <1>9, <1>11, <1>12, <2>2, PruneShape
<1>14. H = IF G[c].level = 1 THEN SetKey(G, c, s - 1, LastKey(G, childid(G, c, s - 1))) ELSE G
  <2>1. U = [n \in NodeId |-> U[n]] /\ DOMAIN U = NodeId
    BY DEF Heaps
  <2>2. c \in NodeId
    BY <1>1, InnerNode
  <2>3. U[c] \in Inner
    BY <1>6, InnerNode
  <2>4. DOMAIN U[c] = {"level", "keys", "child"}
    BY <2>3 DEF Inner
  <2>5. [U EXCEPT ![c].keys = RemoveAt(@, s), ![c].child = RemoveAt(@, s + 1), ![d] = NULL] = G
    BY <1>9, <1>10, <1>11, <2>1, <2>2, <2>4
  <2>6. childid(U, c, s) = d
    BY <1>1, <1>6
  <2>7. H = LET X == [U EXCEPT ![Top.curr].keys = RemoveAt(@, EmptySlot(U, Top)),
                                ![Top.curr].child = RemoveAt(@, EmptySlot(U, Top) + 1),
                                ![childid(U, Top.curr, EmptySlot(U, Top))] = NULL]
            IN IF X[Top.curr].level = 1
                 THEN SetKey(X, Top.curr, EmptySlot(U, Top) - 1,
                             LastKey(X, childid(X, Top.curr, EmptySlot(U, Top) - 1)))
                 ELSE X
    BY DEF Pruned
  <2>8. H = LET X == [U EXCEPT ![c].keys = RemoveAt(@, s), ![c].child = RemoveAt(@, s + 1), ![d] = NULL]
            IN IF X[c].level = 1 THEN SetKey(X, c, s - 1, LastKey(X, childid(X, c, s - 1))) ELSE X
    BY <1>1, <1>7, <2>6, <2>7
  <2> QED
    BY <2>5, <2>8
<1>15. PruneOf(U, G, c, s, d)
  BY <1>9, <1>11, <1>12 DEF PruneOf
<1>16. PrunedTo(R, U, G, Q, H, c, s, d)
  BY <1>6, <1>13, <1>14, <1>15 DEF PrunedTo
<1> QED
  BY <1>16

\* With a merge below.
LEMMA PrunedOpens ==
  ASSUME NEW R, IsRising(R), KeysKept, Returning(EraseKinds), ret.fixmerge,
         NEW U, U = Updated(heap, Top), NEW H, H = Pruned(U, Top),
         NEW k, k = PassedKey(heap, Top), NEW own, own = OwnsKey(heap, Top)
  PROVE  Opens(H, Top.curr, k, own)
<1>a. PICK c, P, t, r : c = Top.curr /\ P = Top.parent /\ t = Top.parentslot /\ r = ret.lastkey
  OBVIOUS
<1>b. PICK s : s = EmptySlot(heap, Top)
  OBVIOUS
<1>c. PICK m, d : m = childid(heap, c, s - 1) /\ d = childid(heap, c, s)
  OBVIOUS
<1>1. IsEmptied(R, c, s, m, d)
  BY <1>a, <1>b, <1>c, EmptiedIs
<1>2. /\ heap \in Heaps /\ c \in InnerNodes(heap) /\ s \in 1 .. slotuse(heap, c) /\ slotuse(heap, c) \in Nat
      /\ d # c /\ m # d /\ m # c /\ m \in NodeId /\ d \in NodeId /\ slotuse(heap, m) >= 1
      /\ heap[c].level > 0 /\ heap[c].level \in Nat /\ heap[d].level = heap[c].level - 1
      /\ Tree(heap, m_root, {}, R) /\ m_root \in Allocated(heap) /\ m_root # NULL
  BY <1>1 DEF IsEmptied
<1>3. /\ r # NULL => s = slotuse(heap, c)
      /\ MergedOrder(heap, m, d, r)
  <2>1. Going(EraseKinds) /\ ret # NULL
    BY DEF Returning
  <2> QED
    BY <1>a, <1>b, <1>c, <2>1, KeptIs
<1>4. r \in Key \cup {NULL}
  BY <1>a DEF IsRising
<1>5. Hollowed(heap, c, s, m, d, r)
  BY <1>2, <1>3, <1>4, <1>c DEF Hollowed
<1>6. KeyParent(heap, c, P, t, own) /\ own \in BOOLEAN
  BY <1>a, KeyParentIs
<1>7. own => /\ P \in InnerNodes(heap) /\ P # d /\ t \in 0 .. slotuse(heap, P) /\ t < slotuse(heap, P)
             /\ c = childid(heap, P, t)
  BY <1>2, <1>6 DEF KeyParent
<1>8. U = (IF r # NULL /\ own THEN SetKey(heap, P, t, r) ELSE heap) /\ k = IF own THEN NULL ELSE r
  BY <1>a DEF Updated, PassedKey
<1>9. U \in Heaps /\ Rekeyed(heap, U)
  BY UpdatedIs
<1>10. PICK G, Q : PrunedTo(R, U, G, Q, H, c, s, d)
  BY <1>1, <1>9, PrunedForm
<1>11. IsPruned(U, G, m_root, R, Q, c, d) /\ PruneOf(U, G, c, s, d) /\ slotuse(U, c) = slotuse(heap, c)
  BY <1>10 DEF PrunedTo
<1>12. Opens(G, c, k, own)
  <2>1. Opens(G, c, IF own THEN NULL ELSE r, own)
    BY <1>2, <1>5, <1>6, <1>7, <1>8, <1>11, PruneKeyed
  <2> QED
    BY <1>8, <2>1
<1>13. /\ G \in Heaps /\ Shape(G, m_root, {}, {}, Q) /\ Filled(G, {c}, m_root, 1) /\ c \in InnerNodes(G)
       /\ slotuse(G, c) = slotuse(heap, c) - 1
  BY <1>11 DEF IsPruned
<1>14. CASE G[c].level # 1
  <2>1. H = G
    BY <1>10, <1>14 DEF PrunedTo
  <2> QED
    BY <1>12, <1>a, <2>1
<1>15. CASE G[c].level = 1
  <2>1. PICK e, z : e = childid(G, c, s - 1) /\ z = s - 1
    OBVIOUS
  <2>2. H = SetKey(G, c, z, LastKey(G, e))
    BY <1>10, <1>15, <2>1 DEF PrunedTo
  <2>3. Tree(G, m_root, {}, Q) /\ NodesHold(G, {}) /\ c \in Allocated(G) \ {} /\ G[c].level > 0
    BY <1>13, <1>15, InnerNode DEF Shape
  <2>4. z \in 0 .. slotuse(G, c) /\ e = childid(G, c, z)
    BY <1>2, <1>13, <2>1
  <2>5. e \in Allocated(G) /\ G[e].level = G[c].level - 1
    BY <1>13, <2>3, <2>4, ChildOf
  <2>6. G[e].level = 0 /\ e \notin {c}
    BY <1>15, <2>5
  <2>7. e \in Leaves(G)
    BY <2>5, <2>6 DEF Leaves, isleafnode
  <2>8. G[e].slots # <<>>
    <3>1. slotuse(G, e) >= 1
      BY <1>13, <2>5, <2>6, NodeHolds
    <3>2. slotuse(G, e) = Len(G[e].slots)
      BY <1>13, <2>7, LeafNode
    <3> QED
      BY <3>1, <3>2
  <2>9. Opens(H, c, k, own)
    BY <1>12, <1>13, <2>2, <2>3, <2>4, <2>7, <2>8, LastKeySet
  <2> QED
    BY <1>a, <2>9
<1> QED
  BY <1>14, <1>15

LEMMA AboveOpens ==
  ASSUME NEW R, IsRising(R), KeysKept, Returning(EraseKinds), ~ret.notFound,
         NEW H, H = Pruned(Updated(heap, Top), Top),
         NEW k, k = PassedKey(heap, Top), NEW own, own = OwnsKey(heap, Top)
  PROVE  Opens(H, Top.curr, k, own)
<1>1. PICK U : U = Updated(heap, Top)
  OBVIOUS
<1>2. CASE ret.fixmerge
  BY <1>1, <1>2, PrunedOpens
<1>3. CASE ~ret.fixmerge
  <2>1. H = U
    BY <1>1, <1>3 DEF Pruned
  <2> QED
    BY <1>1, <1>3, <2>1, UpdatedOpens
<1> QED
  BY <1>2, <1>3

\* An inner node after a change on its level and below.
LEMMA InnerRises ==
  ASSUME NEW R, IsRising(R), NEW G \in Heaps, NEW Q, Tree(G, m_root, {}, Q),
         Kept(heap, G, heap[Top.curr].level), slotuse(G, Top.curr) >= 1,
         NEW k, NEW own, own = OwnsKey(heap, Top), Opens(G, Top.curr, k, own)
  PROVE  Rises(G, k)
<1>a. PICK a, p, ps, l : a = Top.curr /\ p = Top.parent /\ ps = Top.parentslot /\ l = heap[Top.curr].level
  OBVIOUS
<1>1. /\ heap \in Heaps /\ Top = Last(stack) /\ Placed(heap, Top) /\ IsPlaced(heap, m_root, stack)
      /\ a \in InnerNodes(heap)
  BY <1>a DEF IsRising
<1>2. a \in Allocated(heap) /\ l \in Nat
  BY <1>1, <1>a, InnerNode
<1>3. a \in Allocated(G)
  BY <1>2, <1>a DEF Kept
<1>4. p # NULL => /\ slotuse(G, p) = slotuse(heap, p) /\ slotuse(heap, p) \in Nat
                  /\ childid(G, p, ps) = childid(heap, p, ps)
  <2>1. SUFFICES ASSUME p # NULL
                 PROVE  /\ slotuse(G, p) = slotuse(heap, p) /\ slotuse(heap, p) \in Nat
                        /\ childid(G, p, ps) = childid(heap, p, ps)
    OBVIOUS
  <2>2. p \in Allocated(heap) /\ heap[p].level = l + 1
    BY <1>1, <1>a, <2>1 DEF Placed
  <2>3. heap[p].level > l /\ slotuse(heap, p) \in Nat
    BY <1>1, <1>2, <2>2, NodeIs
  <2> QED
    BY <1>1, <1>2, <1>a, <2>2, <2>3, KeptChild
<1> QED
  BY <1>1, <1>3, <1>4, <1>a, RisesIs

\* What is left after the work on the children.
LEMMA OpenedIs ==
  ASSUME NEW R, IsRising(R), NEW H, NEW Q, IsOpened(R, H, Q), NEW a, a = Top.curr,
         NEW l, l = heap[Top.curr].level
  PROVE  /\ H \in Heaps /\ Shape(H, m_root, {}, {}, Q) /\ Tree(H, m_root, {}, Q) /\ NodesHold(H, {})
         /\ Filled(H, {a}, m_root, 1) /\ a \in InnerNodes(H) /\ Kept(heap, H, l)
         /\ l \in Nat /\ H[a].level = l /\ slotuse(H, a) \in Nat /\ a \in Allocated(H) /\ a \in NodeId
         /\ a \in Allocated(heap) /\ IsPlaced(heap, m_root, stack) /\ Top = Last(stack)
         /\ heap \in Heaps /\ m_root # NULL
<1>1. /\ heap \in Heaps /\ m_root # NULL /\ a \in InnerNodes(heap)
      /\ IsPlaced(heap, m_root, stack) /\ Top = Last(stack)
  BY DEF IsRising
<1>2. /\ H \in Heaps /\ Shape(H, m_root, {}, {}, Q) /\ Filled(H, {a}, m_root, 1) /\ a \in InnerNodes(H)
      /\ Kept(heap, H, l)
  BY DEF IsOpened, Opened
<1>3. l \in Nat /\ a \in Allocated(heap)
  BY <1>1, InnerNode
<1>4. H[a].level = l
  BY <1>2, <1>3 DEF Kept
<1>5. slotuse(H, a) \in Nat /\ a \in Allocated(H) /\ a \in NodeId
  BY <1>2, InnerNode
<1>6. Tree(H, m_root, {}, Q) /\ NodesHold(H, {})
  BY <1>2 DEF Shape
<1> QED
  BY <1>1, <1>2, <1>3, <1>4, <1>5, <1>6

LEMMA InnerKeptKeyed ==
  ASSUME NEW R, IsRising(R), Going(EraseKinds), NEW H, NEW Q, IsOpened(R, H, Q),
         NEW up \in Key \cup {NULL}, Opens(H, Top.curr, up, OwnsKey(heap, Top)),
         InnerKept(H, up), UNCHANGED op
  PROVE  KeysKept'
<1>a. PICK a, l, own : a = Top.curr /\ l = heap[Top.curr].level /\ own = OwnsKey(heap, Top)
  OBVIOUS
<1>1. /\ H \in Heaps /\ Tree(H, m_root, {}, Q) /\ Kept(heap, H, l) /\ slotuse(H, a) \in Nat
      /\ IsPlaced(heap, m_root, stack) /\ Top = Last(stack)
  BY <1>a, OpenedIs
<1>2. heap' = H /\ EraseReturns(Found(FALSE, up)) /\ ~NeedsRemedy(H, Top.curr) /\ op' = op
  BY DEF InnerKept
<1>3. slotuse(H, a) >= 1
  <2>1. ~isunderflow(H, a) \/ slotuse(H, a) >= 1
    BY <1>2, <1>a DEF NeedsRemedy
  <2>2. mininnerslots \in Nat /\ mininnerslots >= 2
    BY Sizes
  <2> QED
    BY <1>1, <2>1, <2>2 DEF isunderflow
<1>4. Rises(H, up)
  BY <1>1, <1>3, <1>a, InnerRises
<1> QED
  BY <1>1, <1>2, <1>4, GoesUp

LEMMA RootReplacedKeyed ==
  ASSUME NEW R, IsRising(R), Going(EraseKinds), NEW H, NEW Q, IsOpened(R, H, Q),
         NEW up \in Key \cup {NULL}, Opens(H, Top.curr, up, OwnsKey(heap, Top)),
         RootReplaced(H), UNCHANGED op
  PROVE  KeysKept'
<1>a. PICK a, own, G : a = Top.curr /\ own = OwnsKey(heap, Top) /\ G = heap'
  OBVIOUS
<1>1. H \in Heaps /\ Tree(H, m_root, {}, Q) /\ IsPlaced(heap, m_root, stack) /\ Top = Last(stack)
      /\ a \in NodeId
  BY <1>a, OpenedIs
<1>2. /\ Top.left = NULL /\ Top.right = NULL /\ G = [H EXCEPT ![a] = NULL]
      /\ EraseReturns(Found(FALSE, NULL)) /\ op' = op
  BY <1>a DEF RootReplaced
<1>3. a = m_root
  BY <1>2, <1>a, NoNeighboursAbove
<1>4. Tree(H, a, {}, Q) /\ Opens(H, a, up, own)
  BY <1>1, <1>3, <1>a
<1>5. InOrder(G)
  BY <1>1, <1>2, <1>4, RootGoneKeyed
<1>6. Rises(G, NULL)
  BY <1>5 DEF Rises
<1> QED
  BY <1>1, <1>2, <1>6, <1>a, GoesUp

\* Where a poor inner node is.
PoorInnerAt(R, H, Q, a, p, ps, l) ==
  /\ IsRising(R) /\ Going(EraseKinds) /\ IsOpened(R, H, Q)
  /\ H \in Heaps /\ Shape(H, m_root, {}, {}, Q) /\ Tree(H, m_root, {}, Q) /\ m_root # NULL
  /\ Filled(H, {a}, m_root, 1)
  /\ p # NULL /\ p \in InnerNodes(H) /\ p \in Allocated(H) /\ H[p].level > 1 /\ H[p].level > l
  /\ H[p].level > 0 /\ slotuse(H, p) \in Nat
  /\ ps \in 0 .. slotuse(H, p) /\ ps \in Nat /\ childid(H, p, ps) = a
  /\ a \in InnerNodes(H) /\ a \in NodeId /\ H[a].level = l /\ l \in Nat /\ l = heap[Top.curr].level
  /\ slotuse(H, a) + 1 = mininnerslots /\ slotuse(H, a) \in Nat /\ slotuse(H, a) >= 1
  /\ (OwnsKey(heap, Top) <=> ps < slotuse(H, p)) /\ OwnsKey(heap, Top) \in BOOLEAN
  /\ IsPlaced(heap, m_root, stack) /\ Top = Last(stack) /\ Top.parent # NULL
  /\ Above(stack).curr = p /\ Above(stack).slot = ps /\ GoodRemedy(H, Top)

LEMMA PoorInnerPlace ==
  ASSUME NEW R, NEW H, NEW Q, Climbing(R, H, Q), NEW a, a = Top.curr, NEW p, p = Top.parent,
         NEW ps, ps = Top.parentslot, NEW l, l = heap[Top.curr].level
  PROVE  PoorInnerAt(R, H, Q, a, p, ps, l) /\ op' = op
<1>1. /\ IsRising(R) /\ Going(EraseKinds) /\ IsOpened(R, H, Q) /\ IsPoorInner(H) /\ op' = op
  BY DEF Climbing
<1>2. /\ H \in Heaps /\ Shape(H, m_root, {}, {}, Q) /\ Tree(H, m_root, {}, Q)
      /\ Filled(H, {a}, m_root, 1) /\ a \in InnerNodes(H) /\ Kept(heap, H, l)
      /\ l \in Nat /\ H[a].level = l /\ slotuse(H, a) \in Nat /\ a \in NodeId /\ a \in Allocated(heap)
      /\ IsPlaced(heap, m_root, stack) /\ Top = Last(stack) /\ heap \in Heaps /\ m_root # NULL
  BY <1>1, OpenedIs
<1>3. /\ p # NULL /\ p \in Allocated(H) /\ H[p].level > 1 /\ H[p].level > l
      /\ slotuse(H, a) + 1 = mininnerslots /\ slotuse(H, p) \in Nat /\ GoodRemedy(H, Top)
      /\ Above(stack).curr = p /\ Above(stack).slot = ps /\ Placed(H, Top)
  BY <1>1 DEF IsPoorInner
<1>4. childid(H, p, ps) = a /\ ps \in 0 .. slotuse(H, p)
  BY <1>3 DEF Placed
<1>5. H[p].level \in Nat
  BY <1>2, <1>3, NodeIs
<1>6. p \in InnerNodes(H) /\ H[p].level > 0 /\ ps \in Nat
  BY <1>3, <1>4, <1>5 DEF InnerNodes, isleafnode
<1>7. slotuse(H, p) = slotuse(heap, p)
  <2>1. Placed(heap, Top)
    BY <1>1 DEF IsRising
  <2>2. p \in Allocated(heap) /\ heap[p].level = l + 1
    BY <1>3, <2>1 DEF Placed
  <2>3. heap[p].level > l
    BY <1>2, <2>2
  <2> QED
    BY <1>2, <2>2, <2>3, KeptChild
<1>8. (OwnsKey(heap, Top) <=> ps < slotuse(H, p)) /\ OwnsKey(heap, Top) \in BOOLEAN
  BY <1>3, <1>7 DEF OwnsKey
<1>9. slotuse(H, a) >= 1
  BY <1>2, <1>3, Sizes
<1>10. PoorInnerAt(R, H, Q, a, p, ps, l)
  BY <1>1, <1>2, <1>3, <1>4, <1>6, <1>8, <1>9 DEF PoorInnerAt
<1> QED
  BY <1>1, <1>10

\* After a shift.
LEMMA InnerShiftedKeyed ==
  ASSUME NEW R, NEW H, NEW Q, NEW a, NEW p, NEW ps, NEW l, PoorInnerAt(R, H, Q, a, p, ps, l), op' = op,
         NEW G, heap' = G, IsFixed(H, G, m_root, Q, {}, l), a = Top.curr,
         NEW up \in Key \cup {NULL}, EraseReturns(Found(FALSE, up)),
         NEW own, own = OwnsKey(heap, Top), Opens(G, a, up, own)
  PROVE  KeysKept'
<1>1. /\ IsRising(R) /\ Going(EraseKinds) /\ IsOpened(R, H, Q) /\ l = heap[Top.curr].level
      /\ IsPlaced(heap, m_root, stack) /\ Top = Last(stack)
  BY DEF PoorInnerAt
<1>2. heap \in Heaps /\ Kept(heap, H, l) /\ l \in Nat /\ a \in Allocated(H)
  BY <1>1, OpenedIs
<1>3. /\ G \in Heaps /\ Shape(G, m_root, {}, {}, Q) /\ Filled(G, {}, m_root, 1) /\ Kept(H, G, l)
      /\ Allocated(G) = Allocated(H)
  BY DEF IsFixed
<1>4. Tree(G, m_root, {}, Q)
  BY <1>3 DEF Shape
<1>5. Kept(heap, G, l)
  <2>1. \A n \in Allocated(heap) : heap[n].level \in Int
    BY <1>2, NodeIs
  <2> QED
    BY <1>2, <1>3, <2>1, KeptTwice
<1>6. slotuse(G, a) >= 1
  BY <1>2, <1>3, NodeHolds
<1>7. Rises(G, up)
  BY <1>1, <1>3, <1>4, <1>5, <1>6, InnerRises
<1> QED
  BY <1>1, <1>7, GoesUp

LEMMA InnerMergeLeftKeyed ==
  ASSUME NEW R, NEW H, NEW Q, Climbing(R, H, Q), NEW up \in Key \cup {NULL},
         Opens(H, Top.curr, up, OwnsKey(heap, Top)), Remedy(H, Top) = "merge_left",
         heap' = merge_inner(H, Top.left, Top.curr, Top.leftparent, Top.parentslot - 1),
         EraseReturns(Found(TRUE, up))
  PROVE  KeysKept'
<1>a. PICK a, p, d, ps, s, l, G : a = Top.curr /\ p = Top.parent /\ d = Top.left /\ ps = Top.parentslot
                                  /\ s = ps - 1 /\ l = heap[Top.curr].level /\ G = heap'
  OBVIOUS
<1>b. PICK own : own = OwnsKey(heap, Top)
  OBVIOUS
<1>1. PoorInnerAt(R, H, Q, a, p, ps, l) /\ op' = op
  BY <1>a, PoorInnerPlace
<1>2. /\ H \in Heaps /\ Shape(H, m_root, {}, {}, Q) /\ Tree(H, m_root, {}, Q) /\ m_root # NULL
      /\ Filled(H, {a}, m_root, 1) /\ Going(EraseKinds)
      /\ p # NULL /\ p \in InnerNodes(H) /\ p \in Allocated(H) /\ H[p].level > 1 /\ H[p].level > l
      /\ slotuse(H, p) \in Nat /\ ps \in 0 .. slotuse(H, p) /\ ps \in Nat /\ childid(H, p, ps) = a
      /\ a \in InnerNodes(H) /\ H[a].level = l /\ l \in Nat
      /\ slotuse(H, a) + 1 = mininnerslots /\ slotuse(H, a) \in Nat /\ slotuse(H, a) >= 1
      /\ (own <=> ps < slotuse(H, p)) /\ own \in BOOLEAN
      /\ IsPlaced(heap, m_root, stack) /\ Top = Last(stack) /\ Top.parent # NULL
      /\ Above(stack).curr = p /\ Above(stack).slot = ps /\ GoodRemedy(H, Top)
  BY <1>1, <1>b DEF PoorInnerAt
<1>3. ps \in 1 .. slotuse(H, p) /\ d = childid(H, p, s) /\ Top.leftparent = p /\ isfew(H, d)
  BY <1>2, <1>a DEF GoodRemedy, HasLeft
<1>4. s \in 0 .. slotuse(H, p) /\ s < slotuse(H, p) /\ s + 1 = ps /\ s \in 0 .. slotuse(H, p) - 1
  BY <1>2, <1>3, <1>a
<1>5. a = childid(H, p, s + 1)
  BY <1>2, <1>4
<1>6. NextInners(H, m_root, Q, d, a)
  BY <1>2, <1>3, <1>4, <1>5, NextInnersAre
<1>7. d # a /\ H[d].level = l /\ d \in InnerNodes(H)
  BY <1>2, <1>6 DEF NextInners
<1>8. PICK F : F = {a}
  OBVIOUS
<1>9. Filled(H, F, m_root, 1) /\ F \subseteq {d, a}
  BY <1>2, <1>8
<1>10. slotuse(H, d) = mininnerslots
  <2>1. d \in {d, a} /\ d \notin F
    BY <1>7, <1>8
  <2> QED
    BY <1>2, <1>3, <1>6, <1>9, <2>1, NeighbourFilled
<1>11. (slotuse(H, d) + slotuse(H, a)) + 1 \in mininnerslots .. innerslotmax
  BY <1>2, <1>10, InnerMergeCounts
<1>12. slotkey(H, p, s) \in Key
  BY <1>2, <1>4, SlotKey
<1>13. G = merge_inner(H, d, a, p, s)
  BY <1>3, <1>a
<1>14. IsFixed(H, G, m_root, Q, {a}, l)
  <2>1. l = H[d].level
    BY <1>7
  <2> QED
    BY <1>2, <1>6, <1>9, <1>11, <1>12, <1>13, <2>1, MergeInnerIs, ZenonT(40)
<1>15. G \in Heaps /\ Kept(H, G, l) /\ Shape(G, m_root, {}, {a}, Q) /\ Allocated(G) = Allocated(H)
  BY <1>14 DEF IsFixed
<1>16. slotuse(G, a) = 0
  BY <1>15 DEF Shape, NodesHold
<1>17. Abreast(H, p, s, d, a, up)
  <2>1. Opens(H, a, up, own)
    BY <1>a, <1>b
  <2> QED
    BY <1>3, <1>5, <2>1, AbreastLeft
<1>18. slotuse(H, d) >= 1
  BY <1>10, Sizes
<1>19. MergedOrder(G, d, a, up)
  BY <1>2, <1>4, <1>7, <1>13, <1>15, <1>17, <1>18, InnersMergedKeyed
<1>20. slotuse(G, p) = slotuse(H, p) /\ childid(G, p, ps) = a /\ childid(G, p, s) = d
  BY <1>2, <1>3, <1>15, KeptChild
<1>21. EmptySlot(G, Above(stack)) = ps
  BY <1>2, <1>16, <1>20 DEF EmptySlot
<1>22. up # NULL => ps = slotuse(G, p)
  <2>1. up # NULL => ~own
    BY <1>a, <1>b DEF Opens
  <2> QED
    BY <1>2, <1>20, <2>1
<1>23. MergedOrder(G, childid(G, p, ps - 1), childid(G, p, ps), up)
  BY <1>19, <1>20, <1>a
<1> QED
  BY <1>1, <1>2, <1>21, <1>22, <1>23, <1>a, MergeGoesUp

LEMMA InnerMergeRightKeyed ==
  ASSUME NEW R, NEW H, NEW Q, Climbing(R, H, Q), NEW up \in Key \cup {NULL},
         Opens(H, Top.curr, up, OwnsKey(heap, Top)), Remedy(H, Top) = "merge_right",
         heap' = merge_inner(H, Top.curr, Top.right, Top.rightparent, Top.parentslot),
         EraseReturns(Found(TRUE, up))
  PROVE  KeysKept'
<1>a. PICK a, p, d, s, l, G : a = Top.curr /\ p = Top.parent /\ d = Top.right /\ s = Top.parentslot
                              /\ l = heap[Top.curr].level /\ G = heap'
  OBVIOUS
<1>b. PICK own : own = OwnsKey(heap, Top)
  OBVIOUS
<1>1. PoorInnerAt(R, H, Q, a, p, s, l) /\ op' = op
  BY <1>a, PoorInnerPlace
<1>2. /\ H \in Heaps /\ Shape(H, m_root, {}, {}, Q) /\ Tree(H, m_root, {}, Q) /\ m_root # NULL
      /\ Filled(H, {a}, m_root, 1) /\ Going(EraseKinds)
      /\ p # NULL /\ p \in InnerNodes(H) /\ p \in Allocated(H) /\ H[p].level > 1 /\ H[p].level > l
      /\ slotuse(H, p) \in Nat /\ s \in 0 .. slotuse(H, p) /\ s \in Nat /\ childid(H, p, s) = a
      /\ a \in InnerNodes(H) /\ a \in NodeId /\ H[a].level = l /\ l \in Nat
      /\ slotuse(H, a) + 1 = mininnerslots /\ slotuse(H, a) \in Nat /\ slotuse(H, a) >= 1
      /\ (own <=> s < slotuse(H, p)) /\ own \in BOOLEAN
      /\ IsPlaced(heap, m_root, stack) /\ Top = Last(stack) /\ Top.parent # NULL
      /\ Above(stack).curr = p /\ Above(stack).slot = s /\ GoodRemedy(H, Top)
  BY <1>1, <1>b DEF PoorInnerAt
<1>3. s < slotuse(H, p) /\ d = childid(H, p, s + 1) /\ Top.rightparent = p /\ isfew(H, d) /\ own = TRUE
  BY <1>2, <1>a DEF GoodRemedy, HasRight
<1>4. s \in 0 .. slotuse(H, p) - 1 /\ a = childid(H, p, s)
  BY <1>2, <1>3
<1>6. NextInners(H, m_root, Q, a, d)
  BY <1>2, <1>3, <1>4, NextInnersAre
<1>7. d # a /\ d \in InnerNodes(H)
  BY <1>2, <1>6 DEF NextInners
<1>8. PICK F : F = {a}
  OBVIOUS
<1>9. Filled(H, F, m_root, 1) /\ F \subseteq {a, d}
  BY <1>2, <1>8
<1>10. slotuse(H, d) = mininnerslots
  <2>1. d \in {a, d} /\ d \notin F
    BY <1>7, <1>8
  <2> QED
    BY <1>2, <1>3, <1>6, <1>9, <2>1, NeighbourFilled
<1>11. (slotuse(H, a) + slotuse(H, d)) + 1 \in mininnerslots .. innerslotmax
  BY <1>2, <1>10, InnerMergeCounts
<1>12. slotkey(H, p, s) \in Key
  BY <1>2, <1>4, SlotKey
<1>13. G = merge_inner(H, a, d, p, s)
  BY <1>3, <1>a
<1>14. IsFixed(H, G, m_root, Q, {d}, l)
  <2>1. l = H[a].level
    BY <1>2
  <2> QED
    BY <1>2, <1>6, <1>9, <1>11, <1>12, <1>13, <2>1, MergeInnerIs, ZenonT(40)
<1>15. G \in Heaps /\ Kept(H, G, l) /\ Filled(G, {d}, m_root, 1) /\ Allocated(G) = Allocated(H)
  BY <1>14 DEF IsFixed
<1>16. slotuse(G, a) # 0
  <2>1. a \in Allocated(G) /\ a \notin {d}
    BY <1>2, <1>7, <1>15, InnerNode
  <2> QED
    BY <1>15, <2>1, NodeHolds
<1>17. Abreast(H, p, s, a, d, NULL) /\ up = NULL
  <2>1. Opens(H, a, up, TRUE)
    BY <1>3, <1>a, <1>b
  <2>2. d \in NodeId
    BY <1>2, <1>7, InnerNode
  <2> QED
    BY <1>2, <1>3, <1>4, <2>1, <2>2, AbreastRight
<1>18. slotuse(H, d) >= 1
  BY <1>10, Sizes
<1>19. MergedOrder(G, a, d, NULL)
  BY <1>2, <1>3, <1>7, <1>13, <1>15, <1>17, <1>18, InnersMergedKeyed
<1>20. slotuse(G, p) = slotuse(H, p) /\ childid(G, p, s) = a /\ childid(G, p, s + 1) = d
  BY <1>2, <1>3, <1>15, KeptChild
<1>21. EmptySlot(G, Above(stack)) = s + 1
  BY <1>2, <1>16, <1>20 DEF EmptySlot
<1>22. MergedOrder(G, childid(G, p, (s + 1) - 1), childid(G, p, s + 1), up)
  <2>1. (s + 1) - 1 = s
    BY <1>2
  <2> QED
    BY <1>17, <1>19, <1>20, <2>1
<1>23. PICK es : es = s + 1
  OBVIOUS
<1>24. MergedOrder(G, childid(G, p, es - 1), childid(G, p, es), up) /\ es = EmptySlot(G, Above(stack))
  BY <1>21, <1>22, <1>23
<1>25. up # NULL => es = slotuse(G, p)
  BY <1>17
<1> QED
  BY <1>1, <1>2, <1>24, <1>25, <1>a, MergeGoesUp

LEMMA InnerShiftLeftKeyed ==
  ASSUME NEW R, NEW H, NEW Q, Climbing(R, H, Q), NEW up \in Key \cup {NULL},
         Opens(H, Top.curr, up, OwnsKey(heap, Top)), Remedy(H, Top) = "shift_left",
         heap' = shift_left_inner(H, Top.curr, Top.right, Top.rightparent, Top.parentslot),
         EraseReturns(Found(FALSE, up))
  PROVE  KeysKept'
<1>a. PICK a, p, d, s, l, G : a = Top.curr /\ p = Top.parent /\ d = Top.right /\ s = Top.parentslot
                              /\ l = heap[Top.curr].level /\ G = heap'
  OBVIOUS
<1>b. PICK own : own = OwnsKey(heap, Top)
  OBVIOUS
<1>1. PoorInnerAt(R, H, Q, a, p, s, l) /\ op' = op
  BY <1>a, PoorInnerPlace
<1>2. /\ H \in Heaps /\ Shape(H, m_root, {}, {}, Q) /\ Tree(H, m_root, {}, Q) /\ m_root # NULL
      /\ Filled(H, {a}, m_root, 1)
      /\ p \in InnerNodes(H) /\ p \in Allocated(H) /\ H[p].level > 1 /\ H[p].level > 0
      /\ slotuse(H, p) \in Nat /\ s \in 0 .. slotuse(H, p) /\ s \in Nat /\ childid(H, p, s) = a
      /\ a \in InnerNodes(H) /\ a \in NodeId /\ H[a].level = l /\ l \in Nat
      /\ slotuse(H, a) + 1 = mininnerslots /\ slotuse(H, a) >= 1
      /\ (own <=> s < slotuse(H, p)) /\ own \in BOOLEAN /\ GoodRemedy(H, Top)
  BY <1>1, <1>b DEF PoorInnerAt
<1>3. s < slotuse(H, p) /\ d = childid(H, p, s + 1) /\ Top.rightparent = p /\ ~isfew(H, d) /\ own = TRUE
  BY <1>2, <1>a DEF GoodRemedy, HasRight
<1>4. s \in 0 .. slotuse(H, p) - 1 /\ a = childid(H, p, s)
  BY <1>2, <1>3
<1>6. NextInners(H, m_root, Q, a, d)
  BY <1>2, <1>3, <1>4, NextInnersAre
<1>7. d # a /\ d \in InnerNodes(H) /\ H[a].level = H[d].level
  BY <1>2, <1>6 DEF NextInners
<1>8. PICK F : F = {a}
  OBVIOUS
<1>9. Filled(H, F, m_root, 1) /\ F \subseteq {a, d}
  BY <1>2, <1>8
<1>10. slotkey(H, p, s) \in Key
  BY <1>2, <1>4, SlotKey
<1>11. G = shift_left_inner(H, a, d, p, s) /\ l = H[a].level
  BY <1>2, <1>3, <1>a
<1>12. IsFixed(H, G, m_root, Q, {}, l)
  BY <1>2, <1>3, <1>6, <1>9, <1>10, <1>11, ShiftLeftInnerIs
<1>13. InnersCut(H, G, a, d, p, s)
  BY <1>2, <1>3, <1>6, <1>10, <1>11, InnersCutLeft
<1>14. d \in NodeId /\ slotuse(H, d) >= 1
  <2>1. d \in Allocated(H) /\ d \in NodeId /\ d \notin {a}
    BY <1>2, <1>7, InnerNode
  <2> QED
    BY <1>2, <2>1, NodeHolds
<1>15. Abreast(H, p, s, a, d, NULL) /\ up = NULL
  <2>1. Opens(H, a, up, TRUE)
    BY <1>3, <1>a, <1>b
  <2>2. d \in NodeId /\ a \in NodeId
    BY <1>2, <1>14
  <2>3. PICK c, e : c = childid(H, p, s) /\ e = childid(H, p, s + 1)
    OBVIOUS
  <2>4. c = a /\ e = d
    BY <1>3, <1>4, <2>3
  <2>5. c \in NodeId /\ e \in NodeId
    BY <2>2, <2>4
  <2>6. Opens(H, c, up, TRUE)
    BY <2>1, <2>4
  <2>7. up = NULL
    BY <2>6 DEF Opens
  <2>8. InOrder(H)
    BY <2>5, <2>6, <2>7, OpensNothing
  <2>9. Opens(H, e, NULL, FALSE)
    BY <2>5, <2>8, OrderOpens
  <2>10. Abreast(H, p, s, c, e, NULL)
    BY <2>3, <2>9, AbreastLeft
  <2> QED
    BY <2>4, <2>7, <2>10
<1>16. Opens(G, d, NULL, FALSE)
  BY <1>2, <1>3, <1>7, <1>13, <1>14, <1>15, InnersCutKeyed
<1>17. Opens(G, a, up, own)
  <2>1. InOrder(G)
    BY <1>14, <1>16, OpensNothing
  <2>2. Opens(G, a, NULL, own)
    BY <1>2, <2>1, OrderOpens
  <2> QED
    BY <1>15, <2>2
<1> QED
  BY <1>1, <1>12, <1>17, <1>a, <1>b, InnerShiftedKeyed

LEMMA InnerShiftRightKeyed ==
  ASSUME NEW R, NEW H, NEW Q, Climbing(R, H, Q), NEW up \in Key \cup {NULL},
         Opens(H, Top.curr, up, OwnsKey(heap, Top)), Remedy(H, Top) = "shift_right",
         heap' = shift_right_inner(H, Top.left, Top.curr, Top.leftparent, Top.parentslot - 1),
         EraseReturns(Found(FALSE, up))
  PROVE  KeysKept'
<1>a. PICK a, p, d, ps, s, l, G : a = Top.curr /\ p = Top.parent /\ d = Top.left /\ ps = Top.parentslot
                                  /\ s = ps - 1 /\ l = heap[Top.curr].level /\ G = heap'
  OBVIOUS
<1>b. PICK own : own = OwnsKey(heap, Top)
  OBVIOUS
<1>1. PoorInnerAt(R, H, Q, a, p, ps, l) /\ op' = op
  BY <1>a, PoorInnerPlace
<1>2. /\ H \in Heaps /\ Shape(H, m_root, {}, {}, Q) /\ Tree(H, m_root, {}, Q) /\ m_root # NULL
      /\ Filled(H, {a}, m_root, 1)
      /\ p \in InnerNodes(H) /\ p \in Allocated(H) /\ H[p].level > 1 /\ H[p].level > 0
      /\ slotuse(H, p) \in Nat /\ ps \in 0 .. slotuse(H, p) /\ ps \in Nat /\ childid(H, p, ps) = a
      /\ a \in InnerNodes(H) /\ a \in NodeId /\ H[a].level = l /\ l \in Nat
      /\ slotuse(H, a) + 1 = mininnerslots /\ slotuse(H, a) >= 1
      /\ own \in BOOLEAN /\ GoodRemedy(H, Top)
  BY <1>1, <1>b DEF PoorInnerAt
<1>3. ps \in 1 .. slotuse(H, p) /\ d = childid(H, p, s) /\ Top.leftparent = p /\ ~isfew(H, d)
  BY <1>2, <1>a DEF GoodRemedy, HasLeft
<1>4. s \in 0 .. slotuse(H, p) /\ s < slotuse(H, p) /\ s + 1 = ps /\ s \in 0 .. slotuse(H, p) - 1
  BY <1>2, <1>3, <1>a
<1>5. a = childid(H, p, s + 1)
  BY <1>2, <1>4
<1>6. NextInners(H, m_root, Q, d, a)
  BY <1>2, <1>3, <1>4, <1>5, NextInnersAre
<1>7. d # a /\ d \in InnerNodes(H) /\ H[d].level = H[a].level
  BY <1>2, <1>6 DEF NextInners
<1>8. PICK F : F = {a}
  OBVIOUS
<1>9. Filled(H, F, m_root, 1) /\ F \subseteq {d, a}
  BY <1>2, <1>8
<1>10. slotkey(H, p, s) \in Key
  BY <1>2, <1>4, SlotKey
<1>11. G = shift_right_inner(H, d, a, p, s) /\ l = H[d].level
  BY <1>2, <1>3, <1>7, <1>a
<1>12. IsFixed(H, G, m_root, Q, {}, l)
  BY <1>2, <1>3, <1>6, <1>9, <1>10, <1>11, ShiftRightInnerIs
<1>13. InnersCut(H, G, d, a, p, s)
  BY <1>2, <1>3, <1>6, <1>10, <1>11, InnersCutRight
<1>14. slotuse(H, d) >= 1
  <2>1. d \in Allocated(H) /\ d \notin {a}
    BY <1>2, <1>7, InnerNode
  <2> QED
    BY <1>2, <2>1, NodeHolds
<1>15. Abreast(H, p, s, d, a, up)
  <2>1. Opens(H, a, up, own)
    BY <1>a, <1>b
  <2> QED
    BY <1>3, <1>5, <2>1, AbreastLeft
<1>16. Opens(G, a, up, FALSE)
  BY <1>2, <1>4, <1>7, <1>13, <1>14, <1>15, InnersCutKeyed
<1>17. Opens(G, a, up, own)
  <2>1. Opens(H, a, up, own)
    BY <1>a, <1>b
  <2> QED
    BY <1>2, <1>16, <2>1, OpensOwn
<1> QED
  BY <1>1, <1>12, <1>17, <1>a, <1>b, InnerShiftedKeyed

LEMMA EraseAboveKeyed ==
  ASSUME TypeOK, NEW R, Phase(R), KeysKept, EraseAbove
  PROVE  KeysKept'
<1>1. IsRising(R)
  BY RisingIs
<1>2. UNCHANGED <<m_headleaf, m_tailleaf, op>> /\ Going(EraseKinds) /\ Returning(EraseKinds) /\ ~ret.notFound
  BY DEF EraseAbove, Returning
<1>3. PICK U, H, up : U = Updated(heap, Top) /\ H = Pruned(U, Top) /\ up = PassedKey(heap, Top)
  OBVIOUS
<1>4. PICK own : own = OwnsKey(heap, Top)
  OBVIOUS
<1>5. U \in Heaps /\ Rekeyed(heap, U)
  BY <1>1, <1>3, UpdatedIs
<1>6. \E Q : IsOpened(R, H, Q)
  <2>1. CASE ret.fixmerge
    BY <1>1, <1>3, <1>5, <2>1, PrunedIs
  <2>2. CASE ~ret.fixmerge
    <3>1. H = U
      BY <1>3, <2>2 DEF Pruned
    <3>2. IsOpened(R, U, R)
      BY <1>1, <1>5, <2>2, NotPruned
    <3> QED
      BY <3>1, <3>2
  <2> QED
    BY <2>1, <2>2
<1>7. PICK Q : IsOpened(R, H, Q)
  BY <1>6
<1>8. up \in Key \cup {NULL}
  BY <1>1, <1>3 DEF PassedKey, IsRising
<1>9. Opens(H, Top.curr, up, OwnsKey(heap, Top))
  <2>1. Opens(H, Top.curr, up, own)
    BY <1>1, <1>2, <1>3, <1>4, AboveOpens
  <2> QED
    BY <1>4, <2>1
<1>10. InnerKept(H, up) \/ RootReplaced(H) \/ InnerBalanced(H, up)
  BY <1>3 DEF EraseAbove
<1>11. CASE InnerKept(H, up)
  BY <1>1, <1>2, <1>7, <1>8, <1>9, <1>11, InnerKeptKeyed
<1>12. CASE RootReplaced(H)
  BY <1>1, <1>2, <1>7, <1>8, <1>9, <1>12, RootReplacedKeyed
<1>13. CASE InnerBalanced(H, up)
  <2>1. /\ NeedsRemedy(H, Top.curr) /\ (Top.left # NULL \/ Top.right # NULL)
        /\ m_stats' = StatsPruned(heap, Top, m_stats) /\ UNCHANGED m_root
    BY <1>13 DEF InnerBalanced
  <2>2. IsPoorInner(H)
    BY <1>1, <1>7, <2>1, PoorInnerIs
  <2>3. Climbing(R, H, Q)
    BY <1>1, <1>2, <1>7, <2>1, <2>2 DEF Climbing
  <2>4. \/ /\ Remedy(H, Top) = "merge_left"
           /\ heap' = merge_inner(H, Top.left, Top.curr, Top.leftparent, Top.parentslot - 1)
           /\ EraseReturns(Found(TRUE, up))
        \/ /\ Remedy(H, Top) = "merge_right"
           /\ heap' = merge_inner(H, Top.curr, Top.right, Top.rightparent, Top.parentslot)
           /\ EraseReturns(Found(TRUE, up))
        \/ /\ Remedy(H, Top) = "shift_left"
           /\ heap' = shift_left_inner(H, Top.curr, Top.right, Top.rightparent, Top.parentslot)
           /\ EraseReturns(Found(FALSE, up))
        \/ /\ Remedy(H, Top) = "shift_right"
           /\ heap' = shift_right_inner(H, Top.left, Top.curr, Top.leftparent, Top.parentslot - 1)
           /\ EraseReturns(Found(FALSE, up))
    BY <1>13 DEF InnerBalanced
  <2> QED
    BY <1>8, <1>9, <2>3, <2>4,
       InnerMergeLeftKeyed, InnerMergeRightKeyed, InnerShiftLeftKeyed, InnerShiftRightKeyed
<1> QED
  BY <1>10, <1>11, <1>12, <1>13

LEMMA EraseStartKeyed ==
  ASSUME NEW R, Phase(R), KeysKept, NEW key \in Key, NEW kind \in KeyKinds, EraseStart(kind, key)
  PROVE  KeysKept'
<1>1. op' = [kind |-> kind, key |-> key]
  BY DEF EraseStart
<1>2. op' \in Call /\ op'.kind \in EraseKinds
  BY <1>1 DEF Call, EraseKinds
<1>3. Idle /\ heap' = heap /\ ret' = ret
  BY DEF EraseStart, treeVars
<1>4. op' # NULL
  BY <1>2, NULLAssumption
<1> QED
  BY <1>2, <1>3, <1>4, EraseStartsKeyed

LEMMA EraseIterStartKeyed ==
  ASSUME TypeOK, NEW R, Phase(R), KeysKept, NEW leaf \in NodeId, NEW slot \in Nat, EraseIterStart(leaf, slot)
  PROVE  KeysKept'
<1>1. heap \in Heaps
  BY CallIs
<1>2. /\ Idle /\ leaf \in Allocated(heap) /\ slot \in 0 .. slotuse(heap, leaf) - 1
      /\ op' = [kind |-> "erase_iter", key |-> slotkey(heap, leaf, slot), leaf |-> leaf, slot |-> slot]
      /\ heap' = heap /\ ret' = ret
  BY DEF EraseIterStart, treeVars
<1>3. slotkey(heap, leaf, slot) \in Key
  BY <1>1, <1>2, SlotKey
<1>4. op' \in Call /\ op'.kind \in EraseKinds
  <2>k. PICK k : k = slotkey(heap, leaf, slot)
    OBVIOUS
  <2>1. op' = [kind |-> "erase_iter", key |-> k, leaf |-> leaf, slot |-> slot] /\ k \in Key
    BY <1>2, <1>3, <2>k
  <2> QED
    BY <2>1 DEF Call, EraseKinds
<1>5. op' # NULL
  BY <1>4, NULLAssumption
<1> QED
  BY <1>2, <1>4, <1>5, EraseStartsKeyed

\* Every step keeps the keys in order.
LEMMA KeysNext ==
  ASSUME MergedFits, IInv, KeysKept, [Next]_vars
  PROVE  KeysKept'
<1>1. TypeOK
  BY DEF IInv
<1>2. PICK R : Phase(R)
  BY DEF IInv
<1>5. CASE UNCHANGED vars
  BY <1>5, KeysStutter
<1>6. CASE \E key \in Key, data \in Data : InsertStart(key, data)
  BY <1>1, <1>2, <1>6, InsertStartKeyed
<1>7. CASE \E key \in Key, kind \in KeyKinds : EraseStart(kind, key)
  BY <1>2, <1>7, EraseStartKeyed
<1>8. CASE \E leaf \in NodeId, slot \in 0 .. leafslotmax - 1 : EraseIterStart(leaf, slot)
  <2>1. PICK leaf \in NodeId, slot \in 0 .. leafslotmax - 1 : EraseIterStart(leaf, slot)
    BY <1>8
  <2>2. slot \in Nat
    OBVIOUS
  <2> QED
    BY <1>1, <1>2, <2>1, <2>2, EraseIterStartKeyed
<1>9. CASE Clear
  BY <1>1, <1>2, <1>9, ClearKeyed
<1>10. CASE InsertStep
  BY <1>1, <1>2, <1>10, InsertStepKeyed
<1>11. CASE EraseStep
  <2>1. CASE EraseDescend \/ EraseMiss \/ EraseNextSlot \/ ErasePass
    BY <1>2, <2>1, EraseQuietKeyed
  <2>2. CASE EraseHit
    BY <1>1, <1>2, <2>2, EraseHitKeyed
  <2>3. CASE EraseAbove
    BY <1>1, <1>2, <2>3, EraseAboveKeyed
  <2>4. CASE EraseFinish
    BY <1>2, <2>4, EraseFinishKeyed
  <2> QED
    BY <1>11, <2>1, <2>2, <2>3, <2>4 DEF EraseStep
<1> QED
  BY <1>5, <1>6, <1>7, <1>8, <1>9, <1>10, <1>11 DEF Next, Step

\* The whole invariant, the order of the keys included.
KInv == EInv /\ KeysKept

LEMMA KeysInductive ==
  ASSUME MergedFits
  PROVE  Spec => []KInv
<1>1. Init => KInv
  BY InitHolds, EndsStart, KeysStart DEF EInv, KInv
<1>2. KInv /\ [Next]_vars => KInv'
  BY NextKeeps, EndsNext, KeysNext DEF EInv, KInv
<1> QED
  BY <1>1, <1>2, PTL DEF Spec

-----------------------------------------------------------------------------
(* The order of the keys between two calls                                 *)

LEMMA OrderAtRest ==
  ASSUME KInv, Idle, m_root # NULL
  PROVE  \E R, lo, hi : /\ OrderedTree(heap, m_root, R, lo, hi)
                        /\ IsTheChain(heap, R, m_root, m_headleaf, m_tailleaf, Chain)
<1>1. EInv /\ KeysKept
  BY DEF KInv
<1>2. heap \in Heaps
  BY <1>1, ChainAtRest
<1>3. PICK R : /\ Shape(heap, m_root, {}, {}, R) /\ Filled(heap, {}, m_root, 1)
               /\ IsTheChain(heap, R, m_root, m_headleaf, m_tailleaf, Chain)
  BY <1>1, ChainAtRest
<1>4. InOrder(heap)
  <2>1. Settled
    BY DEF Settled, Idle
  <2> QED
    BY <1>1, <2>1, KeptIs
<1>5. PICK lo, hi : Keyed(heap, {}, lo, hi, hi)
  BY <1>4 DEF InOrder
<1>6. Tree(heap, m_root, {}, R)
  BY <1>3 DEF Shape
<1>7. OrderedTree(heap, m_root, R, lo, hi)
  BY <1>2, <1>3, <1>5, <1>6, OrderedIs
<1> QED
  BY <1>3, <1>7

LEMMA ItemsInOrder ==
  ASSUME KInv, Idle, m_root # NULL, NEW p \in 1 .. Len(Items), NEW q \in 1 .. Len(Items), p < q
  PROVE  Items[p].key <= Items[q].key
<1>1. PICK R, lo, hi : /\ OrderedTree(heap, m_root, R, lo, hi)
                       /\ IsTheChain(heap, R, m_root, m_headleaf, m_tailleaf, Chain)
  BY OrderAtRest
<1>2. PICK o : ItemsAlong(heap, Chain, o, Items)
  BY ItemsAtRest DEF KInv
<1>3. PICK s, t : s = Chain /\ t = Items
  OBVIOUS
<1>4. Laid(heap, s, o, t) /\ Len(s) \in Nat /\ \A i \in 1 .. Len(s) : s[i] \in Leaves(heap)
  BY <1>2, <1>3 DEF ItemsAlong
<1>5. Lists(s, Leaves(heap), R)
  BY <1>1, <1>3 DEF IsTheChain
<1>6. LeavesInOrder(heap, s, lo, hi)
  BY <1>1, <1>5, ChainInOrder
<1>7. heap \in Heaps
  BY <1>1 DEF OrderedTree
<1> QED
  BY <1>3, <1>4, <1>6, <1>7, PairsInOrder

\* The key in slot i of an inner node is the last one below its child i.
LEMMA SeparatorIs ==
  ASSUME NEW root, NEW R, NEW lo, NEW hi, OrderedTree(heap, root, R, lo, hi),
         NEW n \in Allocated(heap), ~isleafnode(heap, n), NEW i \in DOMAIN heap[n].keys,
         root # NULL
  PROVE  heap[n].keys[i] = LastKey(heap, Last(LeavesBelow(heap[n].child[i])))
<1>1. /\ heap \in Heaps /\ Tree(heap, root, {}, R) /\ Keyed(heap, {}, lo, hi, hi)
      /\ \A x \in Allocated(heap) :
           /\ LeafLists(heap)[x] \in Seq(Allocated(heap)) /\ LeafLists(heap)[x] # <<>>
           /\ hi[x] = hi[LeafLists(heap)[x][Len(LeafLists(heap)[x])]]
           /\ LeafLists(heap)[x][Len(LeafLists(heap)[x])] \in Leaves(heap)
      /\ \A x \in Leaves(heap) : LastKey(heap, x) = hi[x]
  BY DEF OrderedTree
<1>2. n \in InnerNodes(heap) /\ NodeKeyed(heap, lo, hi, n, lo[n], hi[n])
  <2>1. n \notin {}
    OBVIOUS
  <2> QED
    BY <1>1, <2>1 DEF InnerNodes, Keyed
<1>3. PICK ks, cs : RowOf(heap, n, ks, cs, lo, hi, lo[n], hi[n])
  BY <1>1, <1>2, RowOfNode
<1>4. /\ ks = heap[n].keys /\ cs = heap[n].child /\ ks \in Seq(Key) /\ Len(ks) \in Nat
      /\ Len(cs) = Len(ks) + 1 /\ Row(ks, cs, lo, hi, lo[n], hi[n])
      /\ \A j \in 1 .. Len(cs) : cs[j] \in Allocated(heap)
  BY <1>3 DEF RowOf
<1>5. i \in 1 .. Len(ks) /\ i \in 1 .. Len(cs)
  BY <1>4
<1>6. ks[i] = hi[cs[i]] /\ cs[i] \in Allocated(heap)
  BY <1>4, <1>5 DEF Row
<1>7. PICK c, l : c = cs[i] /\ l = LeafLists(heap)[c]
  OBVIOUS
<1>8. hi[c] = hi[l[Len(l)]] /\ l # <<>> /\ c \in Allocated(heap)
  BY <1>1, <1>6, <1>7
<1>9. l[Len(l)] \in Leaves(heap)
  BY <1>1, <1>7, <1>8
<1>10. LeavesBelow(c) = l /\ Last(l) = l[Len(l)]
  BY <1>7 DEF LeavesBelow, LeafLists, Last
<1> QED
  BY <1>1, <1>4, <1>6, <1>7, <1>8, <1>9, <1>10

\* Between two calls the pairs are in key order, and every key of an inner node
\* is the largest key below its child, not just a bound: a split passes that key
\* to the parent (btree.h:1034, 1064), and an erase that takes the largest key of
\* a leaf reports the new one on its way back (btree_update_lastkey, btree.h:1318
\* and 1619).
THEOREM SeparatorsAreExact ==
  ASSUME MergedFits
  PROVE  Spec => []SeparatorsExact
<1>1. KInv => SeparatorsExact
  <2> SUFFICES ASSUME KInv, Idle
               PROVE  /\ \A i \in 1 .. Len(Items) - 1 : Items[i].key <= Items[i + 1].key
                      /\ \A n \in Subtree : ~isleafnode(heap, n) =>
                           \A i \in DOMAIN heap[n].keys :
                             heap[n].keys[i] = LastKey(heap, Last(LeavesBelow(heap[n].child[i])))
    BY DEF SeparatorsExact
  <2>1. EInv /\ heap \in Heaps /\ Subtree = Allocated(heap)
    BY ChainAtRest DEF KInv
  <2>2. CASE m_root = NULL
    <3>1. Len(Items) = 0 /\ InnerNodes(heap) = {}
      BY <2>1, <2>2, NoItems
    <3>2. \A n \in Subtree : isleafnode(heap, n)
      BY <2>1, <3>1 DEF InnerNodes
    <3>3. 1 .. Len(Items) - 1 = {}
      BY <3>1
    <3> QED
      BY <3>2, <3>3
  <2>3. CASE m_root # NULL
    <3>1. PICK R, lo, hi : OrderedTree(heap, m_root, R, lo, hi)
      BY <2>3, OrderAtRest
    <3>2. PICK o : ItemsAlong(heap, Chain, o, Items)
      BY <2>1, <2>3, ItemsAtRest
    <3>3. Len(Items) \in Nat
      <4>1. Items \in Seq(Pair)
        BY <3>2 DEF ItemsAlong, Laid
      <4> QED
        BY <4>1
    <3>4. ASSUME NEW i \in 1 .. Len(Items) - 1 PROVE Items[i].key <= Items[i + 1].key
      <4>1. i \in 1 .. Len(Items) /\ i + 1 \in 1 .. Len(Items) /\ i < i + 1
        BY <3>3
      <4> QED
        BY <2>3, <4>1, ItemsInOrder
    <3>5. ASSUME NEW n \in Subtree, ~isleafnode(heap, n), NEW i \in DOMAIN heap[n].keys
          PROVE  heap[n].keys[i] = LastKey(heap, Last(LeavesBelow(heap[n].child[i])))
      BY <2>1, <2>3, <3>1, <3>5, SeparatorIs
    <3> QED
      BY <3>4, <3>5
  <2> QED
    BY <2>2, <2>3
<1> QED
  BY <1>1, KeysInductive, PTL

-----------------------------------------------------------------------------
(* Where a search ends                                                     *)

LEMMA LowerLeaf ==
  ASSUME NEW key
  PROVE  SearchLeaf(find_lower, key) =
         (CHOOSE leaf : leaf = [n \in Allocated(heap) |->
             IF isleafnode(heap, n) THEN n ELSE leaf[childid(heap, n, find_lower(heap, n, key))]])[m_root]
BY DEF SearchLeaf

LEMMA UpperLeaf ==
  ASSUME NEW key
  PROVE  SearchLeaf(find_upper, key) =
         (CHOOSE leaf : leaf = [n \in Allocated(heap) |->
             IF isleafnode(heap, n) THEN n ELSE leaf[childid(heap, n, find_upper(heap, n, key))]])[m_root]
BY DEF SearchLeaf

LEMMA LowerPosition ==
  ASSUME NEW key
  PROVE  lower_bound(key) = [leaf |-> SearchLeaf(find_lower, key),
                             slot |-> find_lower(heap, SearchLeaf(find_lower, key), key)]
BY DEF lower_bound, Position

LEMMA UpperPosition ==
  ASSUME NEW key
  PROVE  upper_bound(key) = [leaf |-> SearchLeaf(find_upper, key),
                             slot |-> find_upper(heap, SearchLeaf(find_upper, key), key)]
BY DEF upper_bound, Position

-----------------------------------------------------------------------------
(* The searches between two calls                                          *)

\* The tree, its chain s and the pairs t along it, between two calls.
Resting(R, lo, hi, s, o, t) ==
  /\ OrderedTree(heap, m_root, R, lo, hi) /\ Along(heap, R, s, o, t, lo, hi)
  /\ ItemsAlong(heap, s, o, t) /\ s = Chain /\ t = Items

LEMMA RestingIs ==
  ASSUME KInv, Idle, m_root # NULL
  PROVE  \E R, lo, hi, s, o, t : Resting(R, lo, hi, s, o, t)
<1>1. PICK R, lo, hi : /\ OrderedTree(heap, m_root, R, lo, hi)
                       /\ IsTheChain(heap, R, m_root, m_headleaf, m_tailleaf, Chain)
  BY OrderAtRest
<1>2. PICK o : ItemsAlong(heap, Chain, o, Items)
  BY ItemsAtRest DEF KInv
<1>3. PICK s, t : s = Chain /\ t = Items
  OBVIOUS
<1>4. /\ Laid(heap, s, o, t) /\ Len(s) \in Nat /\ \A i \in 1 .. Len(s) : s[i] \in Leaves(heap) /\ slotuse(heap, s[i]) >= 1
      /\ \A n \in Leaves(heap) : \E k \in 1 .. Len(s) : s[k] = n
  BY <1>2, <1>3 DEF ItemsAlong
<1>5. Lists(s, Leaves(heap), R)
  BY <1>1, <1>3 DEF IsTheChain
<1>6. LeavesInOrder(heap, s, lo, hi)
  BY <1>1, <1>5, ChainInOrder
<1>7. heap \in Heaps /\ \A n \in Leaves(heap) : slotuse(heap, n) >= 1
  BY <1>1, <1>4 DEF OrderedTree
<1>8. Along(heap, R, s, o, t, lo, hi)
  BY <1>4, <1>5, <1>6, <1>7 DEF Along
<1>9. Resting(R, lo, hi, s, o, t)
  BY <1>1, <1>2, <1>3, <1>8 DEF Resting
<1> QED
  BY <1>9

\* A search for the place between the keys of L and the others, from the root.
LEMMA SearchEnds ==
  ASSUME NEW R, NEW lo, NEW hi, NEW s, NEW o, NEW t, Resting(R, lo, hi, s, o, t), m_root # NULL,
         NEW L, Downward(L), NEW D, \A n \in Allocated(heap) : FoundAt(heap, L, n, D[n]),
         NEW l, l = (CHOOSE leaf : leaf = [n \in Allocated(heap) |->
                       IF isleafnode(heap, n) THEN n ELSE leaf[childid(heap, n, D[n])]])[m_root]
  PROVE  \E k \in 1 .. Len(s) : s[k] = l /\ EndsAt(heap, R, hi, L, s, k, D[l])
<1>1. OrderedTree(heap, m_root, R, lo, hi) /\ ItemsAlong(heap, s, o, t)
  BY DEF Resting
<1>2. l \in Leaves(heap) /\ SplitsAt(Allocated(heap), R, hi, L, l)
  BY <1>1, LeafFound
<1>3. PICK k \in 1 .. Len(s) : s[k] = l
  BY <1>1, <1>2 DEF ItemsAlong
<1>4. l \in Allocated(heap)
  BY <1>2 DEF Leaves
<1>5. EndsAt(heap, R, hi, L, s, k, D[l])
  BY <1>2, <1>3, <1>4 DEF EndsAt
<1> QED
  BY <1>3, <1>5

\* lower_bound ends before the first key that is not less, ...
LEMMA LowerEnds ==
  ASSUME NEW R, NEW lo, NEW hi, NEW s, NEW o, NEW t, Resting(R, lo, hi, s, o, t), m_root # NULL,
         NEW key \in Key, NEW l, l = SearchLeaf(find_lower, key)
  PROVE  \E k \in 1 .. Len(s) : s[k] = l /\ EndsAt(heap, R, hi, Less(key), s, k, find_lower(heap, l, key))
<1>1. heap \in Heaps /\ key \in Int
  BY KeysAreInts DEF Resting, OrderedTree
<1>2. Downward(Less(key))
  BY <1>1, SetsDownward
<1>D. PICK D : D = [n \in Allocated(heap) |-> find_lower(heap, n, key)]
  OBVIOUS
<1>3. \A n \in Allocated(heap) : D[n] = find_lower(heap, n, key)
  BY <1>D
<1>4. \A n \in Allocated(heap) : FoundAt(heap, Less(key), n, D[n])
  BY <1>1, <1>3, LowerFound
<1>5. l = (CHOOSE leaf : leaf = [n \in Allocated(heap) |->
             IF isleafnode(heap, n) THEN n ELSE leaf[childid(heap, n, D[n])]])[m_root]
  <2>1. \A leaf : [n \in Allocated(heap) |-> IF isleafnode(heap, n) THEN n ELSE leaf[childid(heap, n, D[n])]]
                = [n \in Allocated(heap) |-> IF isleafnode(heap, n) THEN n
                                             ELSE leaf[childid(heap, n, find_lower(heap, n, key))]]
    BY <1>3
  <2>2. (CHOOSE leaf : leaf = [n \in Allocated(heap) |->
           IF isleafnode(heap, n) THEN n ELSE leaf[childid(heap, n, D[n])]])
        = CHOOSE leaf : leaf = [n \in Allocated(heap) |->
           IF isleafnode(heap, n) THEN n ELSE leaf[childid(heap, n, find_lower(heap, n, key))]]
    BY <2>1, Zenon
  <2> QED
    BY <2>2, LowerLeaf
<1>6. PICK k \in 1 .. Len(s) : s[k] = l /\ EndsAt(heap, R, hi, Less(key), s, k, D[l])
  BY <1>2, <1>4, <1>5, SearchEnds
<1>7. l \in Allocated(heap)
  BY <1>6, AlongIs DEF Resting
<1> QED
  BY <1>3, <1>6, <1>7

\* ... and upper_bound behind the last that is not greater.
LEMMA UpperEnds ==
  ASSUME NEW R, NEW lo, NEW hi, NEW s, NEW o, NEW t, Resting(R, lo, hi, s, o, t), m_root # NULL,
         NEW key \in Key, NEW l, l = SearchLeaf(find_upper, key)
  PROVE  \E k \in 1 .. Len(s) : s[k] = l /\ EndsAt(heap, R, hi, NotMore(key), s, k, find_upper(heap, l, key))
<1>1. heap \in Heaps /\ key \in Int
  BY KeysAreInts DEF Resting, OrderedTree
<1>2. Downward(NotMore(key))
  BY <1>1, SetsDownward
<1>D. PICK D : D = [n \in Allocated(heap) |-> find_upper(heap, n, key)]
  OBVIOUS
<1>3. \A n \in Allocated(heap) : D[n] = find_upper(heap, n, key)
  BY <1>D
<1>4. \A n \in Allocated(heap) : FoundAt(heap, NotMore(key), n, D[n])
  BY <1>1, <1>3, UpperFound
<1>5. l = (CHOOSE leaf : leaf = [n \in Allocated(heap) |->
             IF isleafnode(heap, n) THEN n ELSE leaf[childid(heap, n, D[n])]])[m_root]
  <2>1. \A leaf : [n \in Allocated(heap) |-> IF isleafnode(heap, n) THEN n ELSE leaf[childid(heap, n, D[n])]]
                = [n \in Allocated(heap) |-> IF isleafnode(heap, n) THEN n
                                             ELSE leaf[childid(heap, n, find_upper(heap, n, key))]]
    BY <1>3
  <2>2. (CHOOSE leaf : leaf = [n \in Allocated(heap) |->
           IF isleafnode(heap, n) THEN n ELSE leaf[childid(heap, n, D[n])]])
        = CHOOSE leaf : leaf = [n \in Allocated(heap) |->
           IF isleafnode(heap, n) THEN n ELSE leaf[childid(heap, n, find_upper(heap, n, key))]]
    BY <2>1, Zenon
  <2> QED
    BY <2>2, UpperLeaf
<1>6. PICK k \in 1 .. Len(s) : s[k] = l /\ EndsAt(heap, R, hi, NotMore(key), s, k, D[l])
  BY <1>2, <1>4, <1>5, SearchEnds
<1>7. l \in Allocated(heap)
  BY <1>6, AlongIs DEF Resting
<1> QED
  BY <1>3, <1>6, <1>7

\* What a search that ends on a slot says of all pairs.
LEMMA PlaceCounts ==
  ASSUME NEW R, NEW lo, NEW hi, NEW s, NEW o, NEW t, Resting(R, lo, hi, s, o, t),
         NEW L, Downward(L), NEW k, NEW slot, EndsAt(heap, R, hi, L, s, k, slot),
         NEW p, p = [leaf |-> s[k], slot |-> slot]
  PROVE  /\ Offset(p) = Cardinality({i \in DOMAIN t : t[i].key \in L})
         /\ Offset(p) = o[k - 1] + slot /\ OnPair(p)
<1>1. /\ Along(heap, R, s, o, t, lo, hi) /\ ItemsAlong(heap, Chain, o, Items) /\ s = Chain
      /\ Laid(heap, s, o, t) /\ m_tailleaf = s[Len(s)]
  BY DEF Resting, ItemsAlong
<1>2. /\ slot < slotuse(heap, s[k]) \/ (k = Len(s) /\ slot = slotuse(heap, s[k]))
      /\ slot \in 0 .. slotuse(heap, s[k]) /\ o[k - 1] \in Nat /\ o[k - 1] + slot \in 0 .. Len(t)
  BY <1>1, PlaceOnPair
<1>3. k \in 1 .. Len(s) /\ slot \in Int
  BY <1>2 DEF EndsAt
<1>4. Offset(p) = o[k - 1] + slot
  BY <1>1, <1>3, OffsetAt
<1>5. Len(t) \in Nat /\ DOMAIN t = 1 .. Len(t)
  BY <1>1 DEF Laid
<1>m. PICK m \in 0 .. Len(t) : m = o[k - 1] + slot
  BY <1>2
<1>6. \A q \in 1 .. Len(t) : t[q].key \in L <=> q <= m
  BY <1>1, <1>m, PlaceIs
<1>7. Cardinality({i \in DOMAIN t : t[i].key \in L}) = m
  BY <1>5, <1>6, CountOf
<1>8. OnPair(p)
  BY <1>1, <1>2 DEF OnPair
<1> QED
  BY <1>4, <1>7, <1>8, <1>m

\* exists finds a key that is there, and no other.
LEMMA ExistsIs ==
  ASSUME NEW R, NEW lo, NEW hi, NEW s, NEW o, NEW t, Resting(R, lo, hi, s, o, t), m_root # NULL,
         NEW key \in Key
  PROVE  exists(key) <=> Has(t, key)
<1>l. PICK l : l = SearchLeaf(find_lower, key)
  OBVIOUS
<1>s. PICK slot : slot = find_lower(heap, l, key)
  OBVIOUS
<1>k. PICK k \in 1 .. Len(s) : s[k] = l /\ EndsAt(heap, R, hi, Less(key), s, k, slot)
  BY <1>l, <1>s, LowerEnds
<1>1. key \in Int /\ Along(heap, R, s, o, t, lo, hi)
  BY KeysAreInts DEF Resting
<1>2. Downward(Less(key))
  BY <1>1, SetsDownward
<1>3. /\ slot < slotuse(heap, l) \/ (k = Len(s) /\ slot = slotuse(heap, l))
      /\ slot \in 0 .. slotuse(heap, l) /\ o[k - 1] \in Nat /\ o[k - 1] + slot \in 0 .. Len(t)
  BY <1>1, <1>2, <1>k, PlaceOnPair
<1>m. PICK m \in 0 .. Len(t) : m = o[k - 1] + slot
  BY <1>3
<1>4. \A q \in 1 .. Len(t) : t[q].key \in Less(key) <=> q <= m
  BY <1>1, <1>2, <1>k, <1>m, PlaceIs
<1>5. /\ \A p \in 1 .. Len(t) : t[p].key \in Int
      /\ \A p, q \in 1 .. Len(t) : p < q => t[p].key <= t[q].key
  BY <1>1, AlongInOrder
<1>6. \A q \in 1 .. Len(t) : t[q].key < key <=> q <= m
  BY <1>1, <1>4, <1>5 DEF Less
<1>7. /\ slotuse(heap, l) \in Nat /\ o[k] = o[k - 1] + slotuse(heap, l) /\ Len(t) = o[Len(s)] /\ Len(t) \in Nat
  BY <1>1, <1>k, AlongIs
<1>8. exists(key) <=> (slot < slotuse(heap, l) /\ slotkey(heap, l, slot) = key)
  BY <1>l, <1>s DEF exists, InLeaf
<1>9. DOMAIN t = 1 .. Len(t)
  BY <1>1 DEF Along, Laid
<1>10. CASE slot < slotuse(heap, l)
  <2>1. slot \in 0 .. slotuse(heap, s[k]) - 1
    BY <1>3, <1>7, <1>10, <1>k
  <2>2. o[k - 1] + slot + 1 \in 1 .. Len(t) /\ slotkey(heap, s[k], slot) = t[o[k - 1] + slot + 1].key
    BY <1>1, <2>1, PairAt
  <2>3. m + 1 \in 1 .. Len(t) /\ slotkey(heap, l, slot) = t[m + 1].key
    BY <1>k, <1>m, <2>2
  <2>4. ~(t[m + 1].key < key) /\ t[m + 1].key \in Int
    BY <1>5, <1>6, <2>3
  <2>5. ASSUME NEW p \in 1 .. Len(t), t[p].key = key PROVE t[m + 1].key = key
    <3>1. ~(p <= m)
      BY <1>1, <1>6, <2>5
    <3>2. p = m + 1 \/ m + 1 < p
      BY <3>1
    <3>3. CASE m + 1 < p
      <4>1. t[m + 1].key <= t[p].key
        BY <1>5, <2>3, <3>3
      <4> QED
        BY <1>1, <2>4, <2>5, <4>1
    <3> QED
      BY <2>5, <3>2, <3>3
  <2> QED
    BY <1>8, <1>9, <1>10, <2>3, <2>5 DEF Has
<1>11. CASE k = Len(s) /\ slot = slotuse(heap, l)
  <2>1. m = Len(t) /\ ~(slot < slotuse(heap, l))
    BY <1>7, <1>11, <1>m
  <2>2. \A q \in 1 .. Len(t) : t[q].key # key
    BY <1>1, <1>6, <2>1
  <2> QED
    BY <1>8, <1>9, <2>1, <2>2 DEF Has
<1> QED
  BY <1>3, <1>10, <1>11

-----------------------------------------------------------------------------
(* The loop of count                                                       *)

Counts == (0 .. m_stats.itemcount) \X (Leaves(heap) \cup {NULL}) \X (0 .. leafslotmax)

\* Where it stops, and where it goes on from elsewhere.
CountStops(key) == {r \in Counts : \/ r[2] = NULL \/ r[1] = m_stats.itemcount
                                   \/ r[3] >= slotuse(heap, r[2]) \/ slotkey(heap, r[2], r[3]) # key}

CountNext(r) == IF r[3] + 1 >= slotuse(heap, r[2]) THEN <<r[1] + 1, heap[r[2]].next, 0>>
                ELSE <<r[1] + 1, r[2], r[3] + 1>>

CountIs(key, f) == f = [r \in Counts |-> IF r \in CountStops(key) THEN r[1] ELSE f[CountNext(r)]]

LEMMA CountsIs ==
  ASSUME NEW r \in Counts
  PROVE  /\ r = <<r[1], r[2], r[3]>> /\ r[1] \in 0 .. m_stats.itemcount
         /\ r[2] \in Leaves(heap) \cup {NULL} /\ r[3] \in 0 .. leafslotmax
BY DEF Counts

LEMMA CountFunction ==
  ASSUME NEW key, NEW leaf0, NEW slot0
  PROVE  \E f : /\ f = CHOOSE g : CountIs(key, g)
                /\ CountFrom(leaf0, slot0, key) = f[<<0, leaf0, slot0>>]
<1> DEFINE body(f, r) ==
             IF r[2] = NULL \/ r[1] = m_stats.itemcount THEN r[1]
             ELSE IF r[3] >= slotuse(heap, r[2]) \/ slotkey(heap, r[2], r[3]) # key THEN r[1]
             ELSE IF r[3] + 1 >= slotuse(heap, r[2]) THEN f[<<r[1] + 1, heap[r[2]].next, 0>>]
             ELSE f[<<r[1] + 1, r[2], r[3] + 1>>]
<1>1. CountFrom(leaf0, slot0, key) = (CHOOSE f : f = [r \in Counts |-> body(f, r)])[<<0, leaf0, slot0>>]
  BY DEF CountFrom, Counts, Leaves
<1>2. ASSUME NEW f, NEW r \in Counts
      PROVE  body(f, r) = IF r \in CountStops(key) THEN r[1] ELSE f[CountNext(r)]
  BY DEF CountStops, CountNext
<1> HIDE DEF body
<1>3. \A f : (f = [r \in Counts |-> body(f, r)]) <=> CountIs(key, f)
  BY <1>2 DEF CountIs
<1>4. (CHOOSE f : f = [r \in Counts |-> body(f, r)]) = CHOOSE f : CountIs(key, f)
  BY <1>3, Zenon
<1> QED
  BY <1>1, <1>4

\* With the links of the leaves it is a function.
LEMMA CountExists ==
  ASSUME NEW key, m_stats.itemcount \in Nat,
         \A n \in Leaves(heap) : /\ heap[n].next \in Leaves(heap) \cup {NULL}
                                 /\ slotuse(heap, n) \in 0 .. leafslotmax
  PROVE  CountIs(key, CHOOSE f : CountIs(key, f))
<1>N. PICK N \in Nat : N = m_stats.itemcount
  OBVIOUS
<1>a. PICK A, Q, val, nx, lv :
        /\ A = Counts /\ Q = CountStops(key) /\ val = [r \in A |-> r[1]]
        /\ nx = [r \in A |-> CountNext(r)] /\ lv = [r \in A |-> N - r[1]]
  OBVIOUS
<1>1. ASSUME NEW r \in A PROVE lv[r] \in Nat /\ lv[r] <= N
  <2>1. r[1] \in 0 .. N
    BY <1>N, <1>a, CountsIs
  <2>2. lv[r] = N - r[1]
    BY <1>a
  <2> QED
    BY <2>1, <2>2
<1>2. ASSUME NEW r \in A \ Q PROVE nx[r] \in A /\ lv[nx[r]] < lv[r]
  <2>1. r \in Counts /\ r \notin CountStops(key) /\ nx[r] = CountNext(r)
    BY <1>a
  <2>2. PICK c, l, j : c = r[1] /\ l = r[2] /\ j = r[3]
    OBVIOUS
  <2>3. c \in 0 .. N /\ l \in Leaves(heap) \cup {NULL} /\ j \in 0 .. leafslotmax
    BY <1>N, <2>1, <2>2, CountsIs
  <2>4. l # NULL /\ c # N /\ ~(j >= slotuse(heap, l))
    BY <1>N, <2>1, <2>2 DEF CountStops
  <2>5. l \in Leaves(heap) /\ heap[l].next \in Leaves(heap) \cup {NULL} /\ slotuse(heap, l) \in 0 .. leafslotmax
    BY <2>3, <2>4
  <2>6. c + 1 \in 0 .. N /\ leafslotmax \in Nat
    BY <2>3, <2>4, Sizes
  <2>7. CountNext(r) = IF j + 1 >= slotuse(heap, l) THEN <<c + 1, heap[l].next, 0>> ELSE <<c + 1, l, j + 1>>
    BY <2>2 DEF CountNext
  <2>8. 0 \in 0 .. leafslotmax /\ (~(j + 1 >= slotuse(heap, l)) => j + 1 \in 0 .. leafslotmax)
    BY <2>3, <2>5, <2>6
  <2>9. CountNext(r) \in Counts /\ CountNext(r)[1] = c + 1
    <3>1. CASE j + 1 >= slotuse(heap, l)
      BY <1>N, <2>5, <2>6, <2>7, <2>8, <3>1 DEF Counts
    <3>2. CASE ~(j + 1 >= slotuse(heap, l))
      BY <1>N, <2>5, <2>6, <2>7, <2>8, <3>2 DEF Counts
    <3> QED
      BY <3>1, <3>2
  <2>10. lv[nx[r]] = N - (c + 1) /\ lv[r] = N - c
    BY <1>a, <2>1, <2>2, <2>9
  <2> QED
    BY <1>a, <2>1, <2>3, <2>9, <2>10
<1>3. Descending(A, Q, nx, lv)
  BY <1>1, <1>2 DEF Descending
<1>4. \A r \in A : lv[r] <= N
  BY <1>1
<1>5. PICK f : Recurs(A, Q, val, nx, f)
  BY <1>3, <1>4, RecursExists
<1>6. CountIs(key, f)
  <2>1. \A r \in A : (IF r \in Q THEN val[r] ELSE f[nx[r]])
                   = IF r \in CountStops(key) THEN r[1] ELSE f[CountNext(r)]
    BY <1>a
  <2>2. f = [r \in A |-> IF r \in Q THEN val[r] ELSE f[nx[r]]]
    BY <1>5 DEF Recurs
  <2>3. f = [r \in A |-> IF r \in CountStops(key) THEN r[1] ELSE f[CountNext(r)]]
    BY <2>1, <2>2
  <2> QED
    BY <1>a, <2>3 DEF CountIs
<1> QED
  BY <1>6

\* Slot j of leaf l is on pair i, counted from 0; the end is behind the last.
AtPair(s, o, t, l, j, i) ==
  \/ l = NULL /\ i = Len(t)
  \/ \E k \in 1 .. Len(s) :
       /\ l = s[k] /\ j \in 0 .. slotuse(heap, l) /\ i = o[k - 1] + j
       /\ j < slotuse(heap, l) \/ k = Len(s)

\* It is at the end when the slot holds no pair.
LEMMA AtEnd ==
  ASSUME NEW R, NEW lo, NEW hi, NEW s, NEW o, NEW t, Resting(R, lo, hi, s, o, t),
         NEW l, NEW j, NEW i, AtPair(s, o, t, l, j, i), l = NULL \/ j >= slotuse(heap, l)
  PROVE  i = Len(t)
<1>1. Along(heap, R, s, o, t, lo, hi)
  BY DEF Resting
<1>2. CASE l = NULL
  <2> SUFFICES ASSUME NEW k \in 1 .. Len(s), l = s[k] PROVE FALSE
    BY <1>2 DEF AtPair
  <2>1. s[k] \in Allocated(heap)
    BY <1>1, AlongIs
  <2> QED
    BY <1>2, <2>1, NodeAssumption DEF Allocated
<1>3. CASE l # NULL /\ j >= slotuse(heap, l)
  <2>1. PICK k \in 1 .. Len(s) :
          /\ l = s[k] /\ j \in 0 .. slotuse(heap, l) /\ i = o[k - 1] + j
          /\ j < slotuse(heap, l) \/ k = Len(s)
    BY <1>3 DEF AtPair
  <2>2. /\ slotuse(heap, s[k]) \in Nat /\ o[k] = o[k - 1] + slotuse(heap, s[k])
        /\ Len(t) = o[Len(s)]
    BY <1>1, AlongIs
  <2>3. k = Len(s) /\ j = slotuse(heap, l)
    BY <1>3, <2>1, <2>2
  <2> QED
    BY <2>1, <2>2, <2>3
<1> QED
  BY <1>2, <1>3

\* From pair i, which slot j of leaf l holds, it goes on to the next.
GoesOn(s, o, t, l, j, i) ==
  /\ i \in Nat /\ i + 1 \in 1 .. Len(t) /\ slotkey(heap, l, j) = t[i + 1].key
  /\ IF j + 1 >= slotuse(heap, l) THEN AtPair(s, o, t, heap[l].next, 0, i + 1)
     ELSE AtPair(s, o, t, l, j + 1, i + 1)

LEMMA OnToNext ==
  ASSUME NEW R, NEW lo, NEW hi, NEW s, NEW o, NEW t, Resting(R, lo, hi, s, o, t),
         NEW l, NEW j, NEW i, AtPair(s, o, t, l, j, i), l # NULL, ~(j >= slotuse(heap, l))
  PROVE  GoesOn(s, o, t, l, j, i)
<1>1. Along(heap, R, s, o, t, lo, hi) /\ ItemsAlong(heap, s, o, t)
  BY DEF Resting
<1>2. PICK k \in 1 .. Len(s) :
        /\ l = s[k] /\ j \in 0 .. slotuse(heap, l) /\ i = o[k - 1] + j
        /\ j < slotuse(heap, l) \/ k = Len(s)
  BY DEF AtPair
<1>n. PICK n \in Nat : n = Len(s)
  BY <1>1 DEF Along
<1>3. /\ slotuse(heap, l) \in Nat /\ o[k] = o[k - 1] + slotuse(heap, l) /\ Len(t) = o[n]
      /\ l \in Leaves(heap)
  BY <1>1, <1>2, <1>n, AlongIs
<1>4. j \in 0 .. slotuse(heap, l) - 1
  BY <1>2, <1>3
<1>5. /\ o[k - 1] + j + 1 \in 1 .. Len(t) /\ slotkey(heap, l, j) = t[o[k - 1] + j + 1].key
      /\ o[k - 1] \in Nat /\ j \in Nat
  BY <1>1, <1>2, <1>4, PairAt
<1>b. PICK b \in Nat : b = o[k - 1]
  BY <1>5
<1>6. i = b + j /\ i \in Nat /\ i + 1 = b + j + 1 /\ i + 1 = b + (j + 1)
  BY <1>2, <1>5, <1>b
<1>7. i + 1 \in 1 .. Len(t) /\ slotkey(heap, l, j) = t[i + 1].key
  BY <1>5, <1>6, <1>b
<1>8. CASE ~(j + 1 >= slotuse(heap, l))
  <2>1. j + 1 \in 0 .. slotuse(heap, l) /\ j + 1 < slotuse(heap, l)
    BY <1>3, <1>5, <1>8
  <2>2. AtPair(s, o, t, l, j + 1, i + 1)
    BY <1>2, <1>6, <1>b, <2>1 DEF AtPair
  <2> QED
    BY <1>6, <1>7, <1>8, <2>2 DEF GoesOn
<1>9. CASE j + 1 >= slotuse(heap, l)
  <2>1. j + 1 = slotuse(heap, l)
    BY <1>3, <1>4, <1>9
  <2>2. i + 1 = o[k]
    BY <1>3, <1>6, <1>b, <2>1
  <2>3. heap[l].next = IF k = n THEN NULL ELSE s[k + 1]
    <3>1. Nexts(heap)[s[k]] = IF k = n THEN NULL ELSE s[k + 1]
      BY <1>1, <1>n DEF ItemsAlong, LinkedList
    <3> QED
      BY <1>2, <1>3, <3>1 DEF Nexts
  <2>4. CASE k = n
    <3>1. AtPair(s, o, t, heap[l].next, 0, i + 1)
      BY <1>3, <2>2, <2>3, <2>4 DEF AtPair
    <3> QED
      BY <1>6, <1>7, <1>9, <3>1 DEF GoesOn
  <2>5. CASE k # n
    <3>1. k + 1 \in 1 .. n /\ (k + 1) - 1 = k
      BY <1>n, <2>5
    <3>2. slotuse(heap, s[k + 1]) \in Nat /\ slotuse(heap, s[k + 1]) >= 1
      BY <1>1, <1>n, <3>1, AlongIs DEF ItemsAlong
    <3>3. PICK q : q = k + 1
      OBVIOUS
    <3>4. /\ q \in 1 .. Len(s) /\ heap[l].next = s[q] /\ 0 \in 0 .. slotuse(heap, s[q])
          /\ i + 1 = o[q - 1] + 0 /\ 0 < slotuse(heap, s[q])
      <4>1. i + 1 = o[k] + 0
        BY <1>6, <2>2
      <4> QED
        BY <1>n, <2>3, <2>5, <3>1, <3>2, <3>3, <4>1
    <3>5. AtPair(s, o, t, heap[l].next, 0, i + 1)
      BY <3>4 DEF AtPair
    <3> QED
      BY <1>6, <1>7, <1>9, <3>5 DEF GoesOn
  <2> QED
    BY <2>4, <2>5
<1> QED
  BY <1>8, <1>9

\* f counts them, from pair i on.
CountsRange(s, o, t, B, U, f) ==
  \A i \in B .. U : \A l, j : AtPair(s, o, t, l, j, i) /\ <<i - B, l, j>> \in Counts
                            => f[<<i - B, l, j>>] = U - B

LEMMA CountWalks ==
  ASSUME NEW R, NEW lo, NEW hi, NEW s, NEW o, NEW t, Resting(R, lo, hi, s, o, t),
         \A n \in Leaves(heap) : slotuse(heap, n) <= leafslotmax,
         NEW key, NEW B, NEW U, KeyRange(t, key, B, U), NEW f, CountIs(key, f)
  PROVE  CountsRange(s, o, t, B, U, f)
<1>r. /\ B \in 0 .. Len(t) /\ U \in B .. Len(t)
      /\ \A p \in 1 .. Len(t) : t[p].key = key <=> B < p /\ p <= U
  BY DEF KeyRange
<1>N. PICK N \in Nat : N = Len(t) /\ m_stats.itemcount = N
  BY DEF Resting, ItemsAlong, Laid
<1> DEFINE P(i) == \A l, j : AtPair(s, o, t, l, j, i) /\ <<i - B, l, j>> \in Counts
                             => f[<<i - B, l, j>>] = U - B
           T == {i \in B .. U : P(i)}
<1>f. ASSUME NEW r \in Counts
      PROVE  f[r] = IF r \in CountStops(key) THEN r[1] ELSE f[CountNext(r)]
  BY DEF CountIs
<1>1. U \in T
  <2> SUFFICES ASSUME NEW l, NEW j, AtPair(s, o, t, l, j, U), <<U - B, l, j>> \in Counts
               PROVE  f[<<U - B, l, j>>] = U - B
    BY <1>N, <1>r
  <2>1. <<U - B, l, j>> \in CountStops(key)
    <3>1. CASE l = NULL \/ j >= slotuse(heap, l)
      BY <3>1 DEF CountStops
    <3>2. CASE l # NULL /\ ~(j >= slotuse(heap, l))
      <4>1. U + 1 \in 1 .. Len(t) /\ slotkey(heap, l, j) = t[U + 1].key
        <5>1. GoesOn(s, o, t, l, j, U)
          BY <3>2, OnToNext
        <5> QED
          BY <5>1 DEF GoesOn
      <4>2. t[U + 1].key # key
        BY <1>N, <1>r, <4>1
      <4> QED
        BY <4>1, <4>2 DEF CountStops
    <3> QED
      BY <3>1, <3>2
  <2> QED
    BY <1>f, <2>1
<1>2. ASSUME NEW i \in B .. U - 1, i + 1 \in T PROVE i \in T
  <2>0. i \in B .. U /\ i \in Nat /\ i < U /\ B \in Nat /\ U \in Nat /\ U <= N
    BY <1>N, <1>r
  <2> SUFFICES ASSUME NEW l, NEW j, AtPair(s, o, t, l, j, i), <<i - B, l, j>> \in Counts
               PROVE  f[<<i - B, l, j>>] = U - B
    BY <2>0
  <2>1. i # Len(t)
    BY <1>N, <2>0
  <2>2. l # NULL /\ ~(j >= slotuse(heap, l))
    BY <2>1, AtEnd
  <2>3. /\ i + 1 \in 1 .. Len(t) /\ slotkey(heap, l, j) = t[i + 1].key
        /\ IF j + 1 >= slotuse(heap, l) THEN AtPair(s, o, t, heap[l].next, 0, i + 1)
           ELSE AtPair(s, o, t, l, j + 1, i + 1)
    <3>1. GoesOn(s, o, t, l, j, i)
      BY <2>2, OnToNext
    <3> QED
      BY <3>1 DEF GoesOn
  <2>4. t[i + 1].key = key
    BY <1>r, <2>0, <2>3
  <2>5. i - B # m_stats.itemcount
    BY <1>N, <2>0
  <2>6. <<i - B, l, j>> \notin CountStops(key)
    BY <2>2, <2>3, <2>4, <2>5 DEF CountStops
  <2>7. f[<<i - B, l, j>>] = f[CountNext(<<i - B, l, j>>)]
    BY <1>f, <2>6
  <2>8. /\ i - B \in 0 .. N /\ l \in Leaves(heap) /\ j \in 0 .. leafslotmax
    BY <1>N, <2>2 DEF Counts
  <2>9. (i + 1) - B = (i - B) + 1 /\ (i + 1) - B \in 0 .. N
    BY <2>0
  <2>10. slotuse(heap, l) <= leafslotmax /\ slotuse(heap, l) \in Nat /\ leafslotmax \in Nat
    <3>1. heap \in Heaps
      BY DEF Resting, OrderedTree
    <3> QED
      BY <2>8, <3>1, LeafNode, Sizes
  <2>11. CountNext(<<i - B, l, j>>) = IF j + 1 >= slotuse(heap, l) THEN <<(i + 1) - B, heap[l].next, 0>>
                                      ELSE <<(i + 1) - B, l, j + 1>>
    BY <2>9 DEF CountNext
  <2>12. P(i + 1)
    BY <1>2
  <2>13. CASE j + 1 >= slotuse(heap, l)
    <3>1. heap[l].next \in Leaves(heap) \cup {NULL}
      <4>1. PICK k \in 1 .. Len(s) : s[k] = l
        BY <2>8 DEF Resting, ItemsAlong
      <4>2. Nexts(heap)[s[k]] = IF k = Len(s) THEN NULL ELSE s[k + 1]
        BY DEF Resting, ItemsAlong, LinkedList
      <4>3. k # Len(s) => k + 1 \in 1 .. Len(s)
        BY DEF Resting, ItemsAlong
      <4> QED
        BY <2>8, <4>1, <4>2, <4>3 DEF Nexts, Resting, ItemsAlong
    <3>2. <<(i + 1) - B, heap[l].next, 0>> \in Counts
      BY <1>N, <2>9, <2>10, <3>1 DEF Counts
    <3>3. AtPair(s, o, t, heap[l].next, 0, i + 1)
      BY <2>3, <2>13
    <3> QED
      BY <2>7, <2>11, <2>12, <2>13, <3>2, <3>3
  <2>14. CASE ~(j + 1 >= slotuse(heap, l))
    <3>1. j + 1 \in 0 .. leafslotmax
      BY <2>8, <2>10, <2>14
    <3>2. <<(i + 1) - B, l, j + 1>> \in Counts
      BY <1>N, <2>8, <2>9, <3>1 DEF Counts
    <3>3. AtPair(s, o, t, l, j + 1, i + 1)
      BY <2>3, <2>14
    <3> QED
      BY <2>7, <2>11, <2>12, <2>14, <3>2, <3>3
  <2> QED
    BY <2>13, <2>14
<1> HIDE DEF T
<1>3. B \in Int /\ U \in Int
  BY <1>N, <1>r
<1>5. ASSUME NEW i \in B .. U, \A j \in i + 1 .. U : j \in T PROVE i \in T
  <2>1. CASE i = U
    BY <1>1, <2>1
  <2>2. CASE i # U
    <3>1. i \in B .. U - 1 /\ i + 1 \in i + 1 .. U
      BY <1>3, <2>2
    <3> QED
      BY <1>2, <1>5, <3>1
  <2> QED
    BY <2>1, <2>2
<1>4. \A i \in B .. U : i \in T
  BY <1>3, <1>5, DownwardInduction
<1> QED
  BY <1>4 DEF T, CountsRange

LEMMA KeysCounted ==
  ASSUME NEW R, NEW lo, NEW hi, NEW s, NEW o, NEW t, Resting(R, lo, hi, s, o, t), NEW key \in Key
  PROVE  /\ Below(t, key) = KeysIn(t, Less(key))
         /\ UpTo(t, key) = KeysIn(t, NotMore(key))
<1>a. Along(heap, R, s, o, t, lo, hi)
  BY DEF Resting
<1>1. Along(heap, R, s, o, t, lo, hi) /\ DOMAIN t = 1 .. Len(t)
  BY <1>a DEF Along, Laid
<1>2. \A p \in 1 .. Len(t) : t[p].key \in Int
  BY <1>1, AlongInOrder
<1>3. {i \in DOMAIN t : t[i].key \in Less(key)} = {i \in DOMAIN t : t[i].key < key}
  BY <1>1, <1>2 DEF Less
<1>4. {i \in DOMAIN t : t[i].key \in NotMore(key)} = {i \in DOMAIN t : t[i].key <= key}
  BY <1>1, <1>2 DEF NotMore
<1> QED
  BY <1>3, <1>4 DEF Below, UpTo, KeysIn

\* lower_bound and upper_bound.
LEMMA BoundsAre ==
  ASSUME NEW R, NEW lo, NEW hi, NEW s, NEW o, NEW t, Resting(R, lo, hi, s, o, t), m_root # NULL,
         NEW key \in Key
  PROVE  /\ Offset(lower_bound(key)) = Below(t, key) /\ OnPair(lower_bound(key))
         /\ Offset(upper_bound(key)) = UpTo(t, key) /\ OnPair(upper_bound(key))
<1>1. key \in Int
  BY KeysAreInts
<1>2. Downward(Less(key)) /\ Downward(NotMore(key))
  BY <1>1, SetsDownward
<1>5. /\ Below(t, key) = KeysIn(t, Less(key))
      /\ UpTo(t, key) = KeysIn(t, NotMore(key))
  BY KeysCounted
<1>3. Offset(lower_bound(key)) = Below(t, key) /\ OnPair(lower_bound(key))
  <2>l. PICK l : l = SearchLeaf(find_lower, key)
    OBVIOUS
  <2>s. PICK slot : slot = find_lower(heap, l, key)
    OBVIOUS
  <2>k. PICK k \in 1 .. Len(s) : s[k] = l /\ EndsAt(heap, R, hi, Less(key), s, k, slot)
    BY <2>l, <2>s, LowerEnds
  <2>p. PICK p : p = [leaf |-> s[k], slot |-> slot]
    OBVIOUS
  <2>1. Offset(p) = KeysIn(t, Less(key)) /\ OnPair(p)
    BY <1>2, <2>k, <2>p, PlaceCounts DEF KeysIn
  <2>2. lower_bound(key) = p
    BY <2>k, <2>l, <2>p, <2>s, LowerPosition
  <2>3. Below(t, key) = KeysIn(t, Less(key))
    BY <1>5
  <2> QED
    BY <2>1, <2>2, <2>3
<1>4. Offset(upper_bound(key)) = UpTo(t, key) /\ OnPair(upper_bound(key))
  <2>l. PICK l : l = SearchLeaf(find_upper, key)
    OBVIOUS
  <2>s. PICK slot : slot = find_upper(heap, l, key)
    OBVIOUS
  <2>k. PICK k \in 1 .. Len(s) : s[k] = l /\ EndsAt(heap, R, hi, NotMore(key), s, k, slot)
    BY <2>l, <2>s, UpperEnds
  <2>p. PICK p : p = [leaf |-> s[k], slot |-> slot]
    OBVIOUS
  <2>1. Offset(p) = KeysIn(t, NotMore(key)) /\ OnPair(p)
    BY <1>2, <2>k, <2>p, PlaceCounts DEF KeysIn
  <2>2. upper_bound(key) = p
    BY <2>k, <2>l, <2>p, <2>s, UpperPosition
  <2>3. UpTo(t, key) = KeysIn(t, NotMore(key))
    BY <1>5
  <2> QED
    BY <2>1, <2>2, <2>3
<1> QED
  BY <1>3, <1>4

\* The place a search ends on, as a number.
IsPlace(s, o, t, L, k, slot, m) ==
  /\ m \in 0 .. Len(t) /\ m = o[k - 1] + slot
  /\ \A p \in 1 .. Len(t) : t[p].key \in L <=> p <= m
  /\ KeysIn(t, L) = m
  /\ AtPair(s, o, t, s[k], slot, m)
  /\ slot \in 0 .. slotuse(heap, s[k])

LEMMA PlacesOf ==
  ASSUME NEW R, NEW lo, NEW hi, NEW s, NEW o, NEW t, Resting(R, lo, hi, s, o, t), m_root # NULL,
         NEW key \in Key, NEW L, Downward(L), NEW k, NEW slot, EndsAt(heap, R, hi, L, s, k, slot)
  PROVE  \E m : IsPlace(s, o, t, L, k, slot, m)
<1>1. Along(heap, R, s, o, t, lo, hi) /\ DOMAIN t = 1 .. Len(t) /\ Len(t) \in Nat
  BY DEF Resting, Along, Laid
<1>2. /\ slot < slotuse(heap, s[k]) \/ (k = Len(s) /\ slot = slotuse(heap, s[k]))
      /\ slot \in 0 .. slotuse(heap, s[k]) /\ o[k - 1] \in Nat /\ o[k - 1] + slot \in 0 .. Len(t)
  BY <1>1, PlaceOnPair
<1>m. PICK m \in 0 .. Len(t) : m = o[k - 1] + slot
  BY <1>2
<1>3. \A q \in 1 .. Len(t) : t[q].key \in L <=> q <= m
  BY <1>1, <1>m, PlaceIs
<1>4. KeysIn(t, L) = m
  BY <1>1, <1>3, CountOf DEF KeysIn
<1>5. k \in 1 .. Len(s)
  BY DEF EndsAt
<1>6. AtPair(s, o, t, s[k], slot, m)
  BY <1>2, <1>5, <1>m DEF AtPair
<1> QED
  BY <1>2, <1>3, <1>4, <1>6, <1>m DEF IsPlace

\* count counts the pairs with the key.
LEMMA CountIsExact ==
  ASSUME NEW R, NEW lo, NEW hi, NEW s, NEW o, NEW t, Resting(R, lo, hi, s, o, t), m_root # NULL,
         \A n \in Leaves(heap) : slotuse(heap, n) <= leafslotmax, NEW key \in Key
  PROVE  count(key) = UpTo(t, key) - Below(t, key)
<1>1. key \in Int /\ heap \in Heaps /\ Along(heap, R, s, o, t, lo, hi) /\ ItemsAlong(heap, s, o, t)
  BY KeysAreInts DEF Resting, OrderedTree
<1>2. Downward(Less(key)) /\ Downward(NotMore(key))
  BY <1>1, SetsDownward
<1>l. PICK l : l = SearchLeaf(find_lower, key)
  OBVIOUS
<1>s. PICK slot : slot = find_lower(heap, l, key)
  OBVIOUS
<1>k. PICK k \in 1 .. Len(s) : s[k] = l /\ EndsAt(heap, R, hi, Less(key), s, k, slot)
  BY <1>l, <1>s, LowerEnds
<1>B. PICK B \in 0 .. Len(t) : /\ B = o[k - 1] + slot
                               /\ \A p \in 1 .. Len(t) : t[p].key \in Less(key) <=> p <= B
                               /\ KeysIn(t, Less(key)) = B
                               /\ AtPair(s, o, t, l, slot, B)
                               /\ slot \in 0 .. slotuse(heap, l)
  <2>1. \E m : IsPlace(s, o, t, Less(key), k, slot, m)
    BY <1>2, <1>k, PlacesOf
  <2> QED
    BY <1>k, <2>1 DEF IsPlace
<1>U. PICK U \in 0 .. Len(t) : /\ \A p \in 1 .. Len(t) : t[p].key \in NotMore(key) <=> p <= U
                               /\ KeysIn(t, NotMore(key)) = U
  <2>l. PICK h : h = SearchLeaf(find_upper, key)
    OBVIOUS
  <2>s. PICK place : place = find_upper(heap, h, key)
    OBVIOUS
  <2>k. PICK q \in 1 .. Len(s) : s[q] = h /\ EndsAt(heap, R, hi, NotMore(key), s, q, place)
    BY <2>l, <2>s, UpperEnds
  <2>1. \E m : IsPlace(s, o, t, NotMore(key), q, place, m)
    BY <1>2, <2>k, PlacesOf
  <2> QED
    BY <2>1 DEF IsPlace
<1>3. \A p \in 1 .. Len(t) : t[p].key \in Int
  BY <1>1, AlongInOrder
<1>4. \A p \in 1 .. Len(t) : /\ t[p].key < key <=> p <= B
                             /\ t[p].key <= key <=> p <= U
  BY <1>3, <1>B, <1>U DEF Less, NotMore
<1>N. PICK N \in Nat : N = Len(t) /\ m_stats.itemcount = N
  BY <1>1 DEF ItemsAlong, Laid
<1>5. B <= U
  <2> SUFFICES ASSUME B > U PROVE FALSE
    BY <1>N
  <2>1. B \in 1 .. Len(t)
    BY <1>N
  <2> QED
    BY <1>1, <1>3, <1>4, <1>N, <2>1
<1>6. U \in B .. Len(t)
  BY <1>5, <1>N
<1>7. \A p \in 1 .. Len(t) : t[p].key = key <=> B < p /\ p <= U
  BY <1>1, <1>3, <1>4, <1>N
<1>8. l \in Leaves(heap) /\ slotuse(heap, l) \in Nat /\ slotuse(heap, l) <= leafslotmax /\ leafslotmax \in Nat
  BY <1>1, <1>k, LeafNode, Sizes DEF ItemsAlong
<1>9. <<0, l, slot>> \in Counts
  <2>1. slot \in 0 .. leafslotmax /\ 0 \in 0 .. m_stats.itemcount
    BY <1>8, <1>B, <1>N
  <2> QED
    BY <1>8, <2>1 DEF Counts
<1>10. ASSUME NEW n \in Leaves(heap)
       PROVE  heap[n].next \in Leaves(heap) \cup {NULL} /\ slotuse(heap, n) \in 0 .. leafslotmax
  <2>1. PICK q \in 1 .. Len(s) : s[q] = n
    BY <1>1 DEF ItemsAlong
  <2>2. Nexts(heap)[s[q]] = IF q = Len(s) THEN NULL ELSE s[q + 1]
    BY <1>1 DEF ItemsAlong, LinkedList
  <2>3. q # Len(s) => q + 1 \in 1 .. Len(s)
    BY <1>1 DEF ItemsAlong
  <2>4. heap[n].next \in Leaves(heap) \cup {NULL}
    BY <1>1, <2>1, <2>2, <2>3 DEF Nexts, ItemsAlong
  <2>5. slotuse(heap, n) \in Nat /\ slotuse(heap, n) <= leafslotmax
    BY <1>1, LeafNode
  <2> QED
    BY <1>8, <2>4, <2>5
<1>11. PICK f : f = (CHOOSE g : CountIs(key, g)) /\ CountFrom(l, slot, key) = f[<<0, l, slot>>]
  BY CountFunction
<1>12. CountIs(key, f)
  BY <1>10, <1>11, <1>N, CountExists
<1>13. CountsRange(s, o, t, B, U, f)
  <2>1. KeyRange(t, key, B, U)
    BY <1>6, <1>7 DEF KeyRange
  <2> QED
    BY <1>12, <2>1, CountWalks
<1>14. f[<<0, l, slot>>] = U - B
  <2>1. B \in B .. U /\ B - B = 0
    BY <1>5, <1>N
  <2> QED
    BY <1>9, <1>13, <1>B, <2>1 DEF CountsRange
<1>15. count(key) = CountFrom(l, slot, key)
  BY <1>l, <1>s DEF count
<1>16. Below(t, key) = B /\ UpTo(t, key) = U
  BY <1>B, <1>U, KeysCounted
<1> QED
  BY <1>11, <1>14, <1>15, <1>16

LEMMA LeavesHold ==
  ASSUME EInv, Idle, m_root # NULL
  PROVE  \A n \in Leaves(heap) : slotuse(heap, n) <= leafslotmax
<1>1. PICK R : Shape(heap, m_root, {}, {}, R)
  BY ChainAtRest
<1>2. NodesHold(heap, {})
  BY <1>1 DEF Shape
<1>3. heap \in Heaps
  BY ChainAtRest
<1> SUFFICES ASSUME NEW n \in Leaves(heap) PROVE slotuse(heap, n) <= leafslotmax
  OBVIOUS
<1>4. n \in Allocated(heap) \ {} /\ isleafnode(heap, n)
  BY <1>3, LeafNode
<1> QED
  BY <1>2, <1>4 DEF NodesHold

\* Between two calls exists and count agree with the pairs, and lower_bound and
\* upper_bound are the positions of the first pair not below and above the key:
\* the searches down the tree miss no equal key, in whichever leaves they are.
THEOREM SearchesAreCorrect ==
  ASSUME MergedFits
  PROVE  Spec => []SearchesCorrect
<1>1. KInv => SearchesCorrect
  <2> SUFFICES ASSUME KInv, Idle, NEW key \in Key
               PROVE  /\ exists(key) <=> Has(Items, key)
                      /\ count(key) = UpTo(Items, key) - Below(Items, key)
                      /\ m_root # NULL =>
                           /\ Offset(lower_bound(key)) = Below(Items, key) /\ OnPair(lower_bound(key))
                           /\ Offset(upper_bound(key)) = UpTo(Items, key) /\ OnPair(upper_bound(key))
    BY DEF SearchesCorrect
  <2>1. CASE m_root = NULL
    <3>1. Items = <<>>
      BY <2>1, NoItems DEF KInv
    <3>t. PICK t : t = Items
      OBVIOUS
    <3>2. DOMAIN t = {}
      BY <3>1, <3>t
    <3>3. ~Has(t, key)
      BY <3>2 DEF Has
    <3>4. Below(t, key) = 0 /\ UpTo(t, key) = 0
      <4>1. {i \in DOMAIN t : t[i].key < key} = {} /\ {i \in DOMAIN t : t[i].key <= key} = {}
        BY <3>2
      <4> QED
        BY <4>1, FS_EmptySet DEF Below, UpTo
    <3>5. ~exists(key) /\ count(key) = 0
      BY <2>1 DEF exists, count
    <3>6. exists(key) <=> Has(t, key)
      BY <3>3, <3>5
    <3>7. count(key) = UpTo(t, key) - Below(t, key)
      BY <3>4, <3>5
    <3> QED
      BY <2>1, <3>6, <3>7, <3>t
  <2>2. CASE m_root # NULL
    <3>1. PICK R, lo, hi, s, o, t : Resting(R, lo, hi, s, o, t)
      BY <2>2, RestingIs
    <3>2. t = Items
      BY <3>1 DEF Resting
    <3>3. \A n \in Leaves(heap) : slotuse(heap, n) <= leafslotmax
      BY <2>2, LeavesHold DEF KInv
    <3>4. exists(key) <=> Has(t, key)
      BY <2>2, <3>1, ExistsIs
    <3>5. count(key) = UpTo(t, key) - Below(t, key)
      BY <2>2, <3>1, <3>3, CountIsExact
    <3>6. /\ Offset(lower_bound(key)) = Below(t, key) /\ OnPair(lower_bound(key))
          /\ Offset(upper_bound(key)) = UpTo(t, key) /\ OnPair(upper_bound(key))
      BY <2>2, <3>1, BoundsAre
    <3> QED
      BY <3>2, <3>4, <3>5, <3>6
  <2> QED
    BY <2>1, <2>2
<1> QED
  BY <1>1, KeysInductive, PTL

=============================================================================
