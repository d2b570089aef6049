---------------------------- MODULE BTreeLemmas ----------------------------
(***************************************************************************)
(* Lemmas about what the B+ tree is made of; none speaks of the variables of *)
(* BTree.  First those that know nothing of the program:                   *)
(*                                                                         *)
(* Induction over numbers, stated with sets: a set takes the place of the  *)
(* predicate that the theorems of NaturalsInduction have as a parameter.   *)
(*                                                                         *)
(* The shape of a tree, apart from what its nodes hold: the level of each  *)
(* node, its children, and the nodes right of it on the same level.  While *)
(* a tree is being changed it is a forest: some nodes have no parent.  The *)
(* small changes every operation of the tree is made of keep the shape: a  *)
(* node is added, gets a parent, loses it, is dropped, and neighbours      *)
(* exchange children.                                                      *)
(*                                                                         *)
(* Keys in order: the children of a node with the keys between them, each  *)
(* child with a least and a greatest bound, and runs of elements.          *)
(*                                                                         *)
(* Then the nodes of a heap, and what each change the program makes to them *)
(* does to the shape of the tree, to the chain of the leaves and to the    *)
(* number of pairs.                                                        *)
(***************************************************************************)
EXTENDS BTreeProperties, SequenceTheorems, FiniteSetTheorems, WellFoundedInduction, TLAPS

-----------------------------------------------------------------------------
(* Induction                                                               *)

\* A set of numbers that is not empty has a least element.
LEMMA LeastElement ==
  ASSUME NEW S \in SUBSET Nat, S # {}
  PROVE  \E n \in S : \A m \in S : n <= m
<1> DEFINE Smaller == {p \in Nat \X Nat : p[1] < p[2]}
<1>1. IsWellFoundedOn(Smaller, Nat)
  BY NatLessThanWellFounded DEF OpToRel
<1> HIDE DEF Smaller
<1>2. PICK n \in S : \A m \in S : <<m, n>> \notin Smaller
  BY <1>1, WFMin
<1>3. \A m \in S : ~(m < n)
  BY <1>2 DEF Smaller
<1> QED
  BY <1>3

\* What holds of 0, and of n + 1 when it holds of n, holds of every number.
LEMMA SetInduction ==
  ASSUME NEW S, 0 \in S, \A n \in Nat : n \in S => n + 1 \in S
  PROVE  \A n \in Nat : n \in S
<1> SUFFICES ASSUME Nat \ S # {} PROVE FALSE
  OBVIOUS
<1>1. PICK n \in Nat \ S : \A m \in Nat \ S : n <= m
  BY LeastElement
<1>2. n # 0 /\ n - 1 \in Nat /\ n - 1 \notin Nat \ S
  BY <1>1
<1> QED
  BY <1>2

\* The same over a bounded range.
LEMMA RangeInduction ==
  ASSUME NEW a \in Int, NEW b \in Int, NEW S, a \in S,
         \A n \in a .. b - 1 : n \in S => n + 1 \in S
  PROVE  \A n \in a .. b : n \in S
<1> DEFINE T == {k \in Nat : a + k <= b => a + k \in S}
<1>1. 0 \in T
  OBVIOUS
<1>2. ASSUME NEW k \in Nat, k \in T
      PROVE  k + 1 \in T
  BY <1>2
<1> HIDE DEF T
<1>3. \A k \in Nat : k \in T
  BY <1>1, <1>2, SetInduction
<1>4. ASSUME NEW n \in a .. b PROVE n \in S
  <2>1. n - a \in Nat /\ a + (n - a) = n
    OBVIOUS
  <2> QED
    BY <1>3, <2>1 DEF T
<1> QED
  BY <1>4

\* What holds of a number when it holds of all greater ones up to b.
LEMMA DownwardInduction ==
  ASSUME NEW a \in Int, NEW b \in Int, NEW S,
         \A i \in a .. b : (\A j \in i + 1 .. b : j \in S) => i \in S
  PROVE  \A i \in a .. b : i \in S
<1> DEFINE T == {k \in Nat : b - k \in (a .. b) \ S}
<1> SUFFICES ASSUME NEW i \in (a .. b) \ S PROVE FALSE
  OBVIOUS
<1>1. b - i \in T
  <2>1. b - i \in Nat /\ b - (b - i) = i
    OBVIOUS
  <2> QED
    BY <2>1
<1> HIDE DEF T
<1>2. T \in SUBSET Nat
  BY DEF T
<1>3. PICK k \in T : \A m \in T : k <= m
  BY <1>1, <1>2, LeastElement
<1>4. k \in Nat /\ b - k \in a .. b /\ b - k \notin S
  BY <1>3 DEF T
<1>5. ASSUME NEW j \in b - k + 1 .. b, j \notin S
      PROVE  FALSE
  <2>1. b - j \in Nat /\ b - (b - j) = j /\ j \in a .. b /\ b - j < k
    BY <1>4
  <2>2. b - j \in T
    BY <1>5, <2>1 DEF T
  <2> QED
    BY <1>3, <1>4, <2>1, <2>2
<1> QED
  BY <1>4, <1>5

-----------------------------------------------------------------------------
(* Ordered forests                                                         *)

\* The sequence k is c with x inserted at i; c is k with element i removed.
Inserted(c, k, i, x) ==
  /\ Len(k) = Len(c) + 1 /\ i \in 1 .. Len(k) /\ k[i] = x
  /\ \A j \in 1 .. i - 1 : k[j] = c[j]
  /\ \A j \in i .. Len(c) : k[j + 1] = c[j]

\* s is l and r, one after the other.
Joins(s, l, r) ==
  /\ Len(s) = Len(l) + Len(r)
  /\ \A j \in 1 .. Len(l) : s[j] = l[j]
  /\ \A j \in 1 .. Len(r) : s[j + Len(l)] = r[j]

\* The function f with value v at x, and f without x.
Put(f, x, v) == [y \in DOMAIN f \cup {x} |-> IF y = x THEN v ELSE f[y]]

Without(f, x) == [y \in DOMAIN f \ {x} |-> f[y]]

-----------------------------------------------------------------------------
(* Forests: the nodes A with their levels lv, the children K[n], the nodes *)
(* X without a parent, and the nodes R[n] right of n.                      *)

ForestKids(A, lv, K, X) ==
  /\ lv \in [A -> Nat] /\ K \in [A -> Seq(A)] /\ X \subseteq A
  /\ \A p \in A : \A i \in 1 .. Len(K[p]) : lv[K[p][i]] = lv[p] - 1 /\ K[p][i] \notin X

HasParent(A, K, X) ==
  \A n \in A \ X : \E p \in A : \E i \in 1 .. Len(K[p]) : K[p][i] = n

\* The nodes of a level are in a strict total order.
LevelOrder(A, lv, R) ==
  /\ R \in [A -> SUBSET A]
  /\ \A a, b \in A : b \in R[a] => lv[b] = lv[a] /\ a \notin R[b]
  /\ \A a, b, c \in A : b \in R[a] /\ c \in R[b] => c \in R[a]
  /\ \A a, b \in A : lv[a] = lv[b] => a = b \/ b \in R[a] \/ a \in R[b]

\* Children are in this order, and in the order of their parents.
KidsOrder(A, K, R) ==
  /\ \A p \in A : \A i, j \in 1 .. Len(K[p]) : i < j => K[p][j] \in R[K[p][i]]
  /\ \A p, q \in A : q \in R[p] =>
       \A i \in 1 .. Len(K[p]), j \in 1 .. Len(K[q]) : K[q][j] \in R[K[p][i]]

Forest(A, lv, K, X, R) ==
  /\ ForestKids(A, lv, K, X) /\ HasParent(A, K, X)
  /\ LevelOrder(A, lv, R) /\ KidsOrder(A, K, R)

\* b is the first node right of a.
IsNext(A, R, a, b) == b \in R[a] /\ \A x \in A : ~(x \in R[a] /\ b \in R[x])

-----------------------------------------------------------------------------
(* Sequences                                                               *)

\* The operators of the model, by their elements.
LEMMA SliceIs ==
  ASSUME NEW S, NEW s \in Seq(S), NEW a \in 1 .. Len(s) + 1, NEW b \in a - 1 .. Len(s)
  PROVE  /\ SubSeq(s, a, b) \in Seq(S)
         /\ Len(SubSeq(s, a, b)) = b - a + 1
         /\ \A j \in 1 .. b - a + 1 : SubSeq(s, a, b)[j] = s[a + j - 1]
<1>1. a \in 1 .. Len(s) + 1 /\ b \in a - 1 .. Len(s)
  OBVIOUS
<1> QED
  BY <1>1, SubSeqProperties

LEMMA ConcatIs ==
  ASSUME NEW S, NEW l \in Seq(S), NEW r \in Seq(S)
  PROVE  l \o r \in Seq(S) /\ Joins(l \o r, l, r)
<1>1. /\ l \o r \in Seq(S) /\ Len(l \o r) = Len(l) + Len(r)
      /\ \A j \in 1 .. Len(l) + Len(r) :
           (l \o r)[j] = IF j <= Len(l) THEN l[j] ELSE r[j - Len(l)]
  BY ConcatProperties
<1>2. Len(l) \in Nat /\ Len(r) \in Nat
  OBVIOUS
<1> QED
  BY <1>1, <1>2 DEF Joins

LEMMA CutIs ==
  ASSUME NEW S, NEW s \in Seq(S), NEW i \in 0 .. Len(s)
  PROVE  /\ SubSeq(s, 1, i) \in Seq(S) /\ SubSeq(s, i + 1, Len(s)) \in Seq(S)
         /\ Len(SubSeq(s, 1, i)) = i /\ Len(SubSeq(s, i + 1, Len(s))) = Len(s) - i
         /\ Joins(s, SubSeq(s, 1, i), SubSeq(s, i + 1, Len(s)))
<1> DEFINE l == SubSeq(s, 1, i)
           r == SubSeq(s, i + 1, Len(s))
<1>1. Len(s) \in Nat
  OBVIOUS
<1>2. l \in Seq(S) /\ Len(l) = i /\ \A j \in 1 .. i : l[j] = s[j]
  <2>1. 1 \in 1 .. Len(s) + 1 /\ i \in 1 - 1 .. Len(s)
    BY <1>1
  <2> QED
    BY <1>1, <2>1, SliceIs
<1>3. r \in Seq(S) /\ Len(r) = Len(s) - i /\ \A j \in 1 .. Len(s) - i : r[j] = s[j + i]
  <2>1. i + 1 \in 1 .. Len(s) + 1 /\ Len(s) \in (i + 1) - 1 .. Len(s)
    BY <1>1
  <2> HIDE DEF r
  <2>2. r = SubSeq(s, i + 1, Len(s))
    BY DEF r
  <2> QED
    BY <1>1, <2>1, <2>2, SliceIs
<1> HIDE DEF l, r
<1>4. Joins(s, l, r)
  <2>1. Len(s) = Len(l) + Len(r)
    BY <1>1, <1>2, <1>3
  <2>2. \A j \in 1 .. Len(l) : s[j] = l[j]
    BY <1>2
  <2>3. \A j \in 1 .. Len(r) : s[j + Len(l)] = r[j]
    BY <1>2, <1>3
  <2> QED
    BY <2>1, <2>2, <2>3 DEF Joins
<1> QED
  BY <1>2, <1>3, <1>4 DEF l, r

LEMMA InsertAtIs ==
  ASSUME NEW S, NEW s \in Seq(S), NEW x \in S, NEW i \in 1 .. Len(s) + 1
  PROVE  InsertAt(s, i, x) \in Seq(S) /\ Inserted(s, InsertAt(s, i, x), i, x)
<1> DEFINE l == SubSeq(s, 1, i - 1)
           r == SubSeq(s, i, Len(s))
<1>1. Len(s) \in Nat /\ i - 1 \in 0 .. Len(s) /\ (i - 1) + 1 = i
  OBVIOUS
<1>2. /\ l \in Seq(S) /\ r \in Seq(S) /\ Joins(s, l, r)
      /\ Len(l) = i - 1 /\ Len(r) = Len(s) - (i - 1)
  BY <1>1, CutIs
<1>3. InsertAt(s, i, x) = (l \o <<x>>) \o r
  BY DEF InsertAt
<1> HIDE DEF l, r
<1>4. <<x>> \in Seq(S) /\ Len(<<x>>) = 1 /\ <<x>>[1] = x
  OBVIOUS
<1>5. l \o <<x>> \in Seq(S) /\ Joins(l \o <<x>>, l, <<x>>)
  BY <1>2, <1>4, ConcatIs
<1> DEFINE lx == l \o <<x>>
<1> HIDE DEF lx
<1>6. Len(lx) = i /\ lx[i] = x /\ \A j \in 1 .. i - 1 : lx[j] = l[j]
  <2>1. Joins(lx, l, <<x>>)
    BY <1>5 DEF lx
  <2>2. lx[1 + Len(l)] = <<x>>[1]
    BY <1>4, <2>1 DEF Joins
  <2>3. 1 + Len(l) = i
    BY <1>2
  <2> QED
    BY <1>2, <1>4, <2>1, <2>2, <2>3 DEF Joins
<1>7. lx \o r \in Seq(S) /\ Joins(lx \o r, lx, r)
  BY <1>2, <1>5, ConcatIs DEF lx
<1> DEFINE k == lx \o r
<1> HIDE DEF k
<1>8. Inserted(s, k, i, x)
  <2>1. Len(k) = Len(s) + 1
    BY <1>1, <1>2, <1>6, <1>7 DEF Joins, k
  <2>2. k[i] = x /\ \A j \in 1 .. i - 1 : k[j] = s[j]
    BY <1>1, <1>2, <1>6, <1>7 DEF Joins, k
  <2>3. ASSUME NEW j \in i .. Len(s) PROVE k[j + 1] = s[j]
    <3>1. j + 1 - i \in 1 .. Len(r) /\ (j + 1 - i) + Len(lx) = j + 1
          /\ (j + 1 - i) + Len(l) = j
      BY <1>1, <1>2, <1>6
    <3>2. k[(j + 1 - i) + Len(lx)] = r[j + 1 - i]
      BY <1>7, <3>1 DEF Joins, k
    <3>3. s[(j + 1 - i) + Len(l)] = r[j + 1 - i]
      BY <1>2, <3>1 DEF Joins
    <3> QED
      BY <3>1, <3>2, <3>3
  <2> QED
    BY <1>1, <2>1, <2>2, <2>3 DEF Inserted
<1> QED
  BY <1>3, <1>7, <1>8 DEF k, lx

LEMMA RemoveAtIs ==
  ASSUME NEW S, NEW s \in Seq(S), NEW i \in 1 .. Len(s)
  PROVE  RemoveAt(s, i) \in Seq(S) /\ Inserted(RemoveAt(s, i), s, i, s[i])
<1> DEFINE l == SubSeq(s, 1, i - 1)
           r == SubSeq(s, i + 1, Len(s))
           c == l \o r
<1>1. Len(s) \in Nat /\ i - 1 \in 0 .. Len(s)
  OBVIOUS
<1>2. l \in Seq(S) /\ Len(l) = i - 1 /\ \A j \in 1 .. i - 1 : l[j] = s[j]
  BY <1>1, CutIs DEF Joins
<1>3. r \in Seq(S) /\ Len(r) = Len(s) - i /\ \A j \in 1 .. Len(r) : r[j] = s[j + i]
  <2>1. i \in 0 .. Len(s)
    BY <1>1
  <2> QED
    BY <2>1, CutIs DEF Joins
<1> HIDE DEF l, r
<1>4. c \in Seq(S) /\ Joins(c, l, r)
  BY <1>2, <1>3, ConcatIs
<1> HIDE DEF c
<1>5. Len(s) = Len(c) + 1
  BY <1>1, <1>2, <1>3, <1>4 DEF Joins
<1>6. \A j \in 1 .. i - 1 : s[j] = c[j]
  BY <1>2, <1>4 DEF Joins
<1>7. ASSUME NEW j \in i .. Len(c) PROVE s[j + 1] = c[j]
  <2>1. j + 1 - i \in 1 .. Len(r) /\ (j + 1 - i) + Len(l) = j /\ (j + 1 - i) + i = j + 1
    BY <1>1, <1>2, <1>3, <1>5
  <2> QED
    BY <1>3, <1>4, <2>1 DEF Joins
<1>8. Inserted(c, s, i, s[i])
  BY <1>5, <1>6, <1>7 DEF Inserted
<1> QED
  BY <1>4, <1>8 DEF RemoveAt, c, l, r

\* Two sequences with the same elements are equal; so an insertion and a join
\* are determined by what went in.
LEMMA SameElements ==
  ASSUME NEW S, NEW s \in Seq(S), NEW t \in Seq(S), Len(s) = Len(t),
         \A j \in 1 .. Len(s) : s[j] = t[j]
  PROVE  s = t
BY SeqEqual

LEMMA InsertedUnique ==
  ASSUME NEW S, NEW c \in Seq(S), NEW k \in Seq(S), NEW h \in Seq(S), NEW i, NEW x,
         Inserted(c, k, i, x), Inserted(c, h, i, x)
  PROVE  k = h
<1>1. Len(k) = Len(h) /\ i \in 1 .. Len(k)
  BY DEF Inserted
<1>2. ASSUME NEW j \in 1 .. Len(k) PROVE k[j] = h[j]
  <2>1. CASE j < i
    BY <1>1, <2>1 DEF Inserted
  <2>2. CASE j = i
    BY <2>2 DEF Inserted
  <2>3. CASE j > i
    <3>1. j - 1 \in i .. Len(c) /\ (j - 1) + 1 = j
      BY <1>1, <2>3 DEF Inserted
    <3> QED
      BY <3>1 DEF Inserted
  <2> QED
    BY <1>1, <2>1, <2>2, <2>3
<1> QED
  BY <1>1, <1>2, SameElements

LEMMA RemovedUnique ==
  ASSUME NEW S, NEW c \in Seq(S), NEW b \in Seq(S), NEW k \in Seq(S), NEW i, NEW x, NEW y,
         Inserted(c, k, i, x), Inserted(b, k, i, y)
  PROVE  c = b
<1>1. Len(c) = Len(b) /\ i \in 1 .. Len(k) /\ Len(k) = Len(c) + 1
  BY DEF Inserted
<1>2. ASSUME NEW j \in 1 .. Len(c) PROVE c[j] = b[j]
  <2>1. CASE j < i
    BY <1>1, <2>1 DEF Inserted
  <2>2. CASE j >= i
    BY <1>1, <2>2 DEF Inserted
  <2> QED
    BY <1>1, <2>1, <2>2
<1> QED
  BY <1>1, <1>2, SameElements

-----------------------------------------------------------------------------
(* What holds in a forest                                                  *)

LEMMA ForestTypes ==
  ASSUME NEW A, NEW lv, NEW K, NEW X, NEW R, Forest(A, lv, K, X, R)
  PROVE  /\ \A n \in A : lv[n] \in Nat /\ K[n] \in Seq(A) /\ Len(K[n]) \in Nat /\ R[n] \subseteq A
         /\ \A n \in A : \A i \in 1 .. Len(K[n]) : K[n][i] \in A
         /\ \A n \in A : DOMAIN K[n] = 1 .. Len(K[n])
         /\ DOMAIN lv = A /\ DOMAIN K = A /\ DOMAIN R = A
<1>1. \A s \in Seq(A) : Len(s) \in Nat /\ DOMAIN s = 1 .. Len(s) /\ \A i \in 1 .. Len(s) : s[i] \in A
  OBVIOUS
<1>2. lv \in [A -> Nat] /\ K \in [A -> Seq(A)] /\ R \in [A -> SUBSET A]
  BY DEF Forest, ForestKids, LevelOrder
<1> QED
  BY <1>1, <1>2

\* A node has one parent, and one place there.
LEMMA OneParent ==
  ASSUME NEW A, NEW lv, NEW K, NEW X, NEW R, Forest(A, lv, K, X, R),
         NEW p \in A, NEW q \in A, NEW i \in 1 .. Len(K[p]), NEW j \in 1 .. Len(K[q]),
         K[p][i] = K[q][j]
  PROVE  p = q /\ i = j
<1> DEFINE n == K[p][i]
<1>1. n \in A /\ n = K[q][j] /\ lv[p] \in Nat /\ lv[q] \in Nat /\ i \in Int /\ j \in Int
  BY ForestTypes
<1>2. lv[n] = lv[p] - 1 /\ lv[n] = lv[q] - 1
  BY DEF Forest, ForestKids
<1> HIDE DEF n
<1>3. n \notin R[n]
  BY <1>1 DEF Forest, LevelOrder
<1>4. p = q
  <2>1. p = q \/ q \in R[p] \/ p \in R[q]
    BY <1>1, <1>2 DEF Forest, LevelOrder
  <2>2. q \notin R[p]
    BY <1>1, <1>3 DEF Forest, KidsOrder, n
  <2>3. p \notin R[q]
    BY <1>1, <1>3 DEF Forest, KidsOrder, n
  <2> QED
    BY <2>1, <2>2, <2>3
<1>5. ~(i < j) /\ ~(j < i)
  BY <1>1, <1>3, <1>4 DEF Forest, KidsOrder, n
<1> QED
  BY <1>1, <1>4, <1>5

\* Only a node without a parent can be between two that follow each other
\* under one parent.
LEMMA NextSibling ==
  ASSUME NEW A, NEW lv, NEW K, NEW X, NEW R, Forest(A, lv, K, X, R),
         NEW p \in A, NEW i \in 1 .. Len(K[p]) - 1,
         \A x \in X : lv[x] # lv[p] - 1
  PROVE  IsNext(A, R, K[p][i], K[p][i + 1])
<1> DEFINE a == K[p][i]
           b == K[p][i + 1]
<1>1. /\ i \in 1 .. Len(K[p]) /\ i + 1 \in 1 .. Len(K[p]) /\ i < i + 1
      /\ a \in A /\ b \in A /\ lv[p] \in Nat
  BY ForestTypes
<1>2. b \in R[a] /\ lv[a] = lv[p] - 1
  BY <1>1 DEF Forest, KidsOrder, ForestKids
<1>3. ASSUME NEW x \in A, x \in R[a], b \in R[x] PROVE FALSE
  <2>1. lv[x] = lv[p] - 1 /\ x \notin X
    BY <1>1, <1>2, <1>3 DEF Forest, LevelOrder
  <2>2. PICK q \in A : \E j \in 1 .. Len(K[q]) : K[q][j] = x
    BY <2>1 DEF Forest, HasParent
  <2>3. PICK j \in 1 .. Len(K[q]) : K[q][j] = x
    BY <2>2
  <2>4. lv[q] \in Nat /\ lv[x] = lv[q] - 1
    BY <2>3, ForestTypes DEF Forest, ForestKids
  <2>5. \A y, z \in A : z \in R[y] => y \notin R[z]
    BY DEF Forest, LevelOrder
  <2>6. q = p \/ q \in R[p] \/ p \in R[q]
    BY <1>1, <2>1, <2>4 DEF Forest, LevelOrder
  <2>7. q \notin R[p]
    BY <1>1, <1>3, <2>3, <2>5 DEF Forest, KidsOrder
  <2>8. p \notin R[q]
    BY <1>1, <1>3, <2>3, <2>5 DEF Forest, KidsOrder
  <2>9. CASE q = p
    <3>0. x \notin R[x] /\ a # x /\ b # x
      BY <1>1, <1>3, <2>5
    <3>1. ~(j < i) /\ ~(i + 1 < j)
      BY <1>1, <1>3, <2>3, <2>5, <2>9 DEF Forest, KidsOrder
    <3>2. j # i /\ j # i + 1
      BY <2>3, <2>9, <3>0
    <3> QED
      BY <1>1, <2>3, <3>1, <3>2
  <2> QED
    BY <2>6, <2>7, <2>8, <2>9
<1> QED
  BY <1>2, <1>3 DEF IsNext

\* The same for the last child of a node and the first of the next one.
LEMMA NextCousin ==
  ASSUME NEW A, NEW lv, NEW K, NEW X, NEW R, Forest(A, lv, K, X, R),
         NEW p \in A, NEW q \in A, IsNext(A, R, p, q), K[p] # <<>>, K[q] # <<>>,
         \A x \in X : lv[x] # lv[p] - 1
  PROVE  IsNext(A, R, K[p][Len(K[p])], K[q][1])
<1> DEFINE k == Len(K[p])
           a == K[p][k]
           b == K[q][1]
<1>0. \A s \in Seq(A) : s # <<>> => Len(s) \in 1 .. Len(s) /\ 1 \in 1 .. Len(s)
  OBVIOUS
<1>1. /\ k \in 1 .. Len(K[p]) /\ 1 \in 1 .. Len(K[q])
      /\ a \in A /\ b \in A /\ lv[p] \in Nat /\ lv[q] \in Nat
  BY <1>0, ForestTypes
<1>2. b \in R[a] /\ lv[a] = lv[p] - 1
  BY <1>1 DEF Forest, KidsOrder, ForestKids, IsNext
<1>3. ASSUME NEW x \in A, x \in R[a], b \in R[x] PROVE FALSE
  <2>1. lv[x] = lv[p] - 1 /\ x \notin X
    BY <1>1, <1>2, <1>3 DEF Forest, LevelOrder
  <2>2. PICK r \in A : \E j \in 1 .. Len(K[r]) : K[r][j] = x
    BY <2>1 DEF Forest, HasParent
  <2>3. PICK j \in 1 .. Len(K[r]) : K[r][j] = x
    BY <2>2
  <2>4. lv[r] \in Nat /\ lv[x] = lv[r] - 1
    BY <2>3, ForestTypes DEF Forest, ForestKids
  <2>5. \A y, z \in A : z \in R[y] => y \notin R[z]
    BY DEF Forest, LevelOrder
  <2>6. lv[p] = lv[q] /\ q \in R[p] /\ ~(r \in R[p] /\ q \in R[r])
    BY DEF Forest, LevelOrder, IsNext
  <2>7. p \notin R[r]
    BY <1>1, <1>3, <2>3, <2>5 DEF Forest, KidsOrder
  <2>8. r \notin R[q]
    BY <1>1, <1>3, <2>3, <2>5 DEF Forest, KidsOrder
  <2>9. r = p \/ r = q
    BY <1>1, <2>1, <2>4, <2>6, <2>7, <2>8 DEF Forest, LevelOrder
  <2>10. CASE r = p
    <3>1. ~(j < k)
      BY <1>1, <1>3, <2>3, <2>5, <2>10 DEF Forest, KidsOrder
    <3>2. j = k
      BY <1>1, <2>3, <2>10, <3>1
    <3> QED
      BY <1>1, <1>3, <2>3, <2>5, <2>10, <3>2
  <2>11. CASE r = q
    <3>1. ~(1 < j)
      BY <1>1, <1>3, <2>3, <2>5, <2>11 DEF Forest, KidsOrder
    <3>2. j = 1
      BY <1>1, <2>3, <2>11, <3>1
    <3> QED
      BY <1>1, <1>3, <2>3, <2>5, <2>11, <3>2
  <2> QED
    BY <2>9, <2>10, <2>11
<1> QED
  BY <1>2, <1>3 DEF IsNext

-----------------------------------------------------------------------------
(* Small changes                                                           *)

\* The order with d added right after c.
OrderedAfter(R, c, d) ==
  [n \in DOMAIN R \cup {d} |-> IF n = d THEN R[c]
                               ELSE IF n = c \/ c \in R[n] THEN R[n] \cup {d} ELSE R[n]]

\* A node without children is added behind c.
LEMMA AddAfter ==
  ASSUME NEW A, NEW lv, NEW K, NEW X, NEW R, Forest(A, lv, K, X, R),
         NEW d, d \notin A, NEW c \in A
  PROVE  /\ Forest(A \cup {d}, Put(lv, d, lv[c]), Put(K, d, <<>>), X \cup {d},
                   OrderedAfter(R, c, d))
         /\ IsNext(A \cup {d}, OrderedAfter(R, c, d), c, d)
<1> DEFINE B == A \cup {d}
           lw == Put(lv, d, lv[c])
           L == Put(K, d, <<>>)
           Q == OrderedAfter(R, c, d)
<1>1. /\ DOMAIN lw = B /\ DOMAIN L = B /\ DOMAIN Q = B
      /\ lw[d] = lv[c] /\ L[d] = <<>> /\ Q[d] = R[c]
      /\ \A n \in A : n # d /\ lw[n] = lv[n] /\ L[n] = K[n]
      /\ \A n \in A : Q[n] = IF n = c \/ c \in R[n] THEN R[n] \cup {d} ELSE R[n]
  BY ForestTypes DEF Put, OrderedAfter
<1>2. /\ lw = [n \in B |-> lw[n]] /\ L = [n \in B |-> L[n]] /\ Q = [n \in B |-> Q[n]]
  BY <1>1 DEF Put, OrderedAfter
<1> HIDE DEF lw, L, Q
<1>3. /\ \A n \in A : lv[n] \in Nat /\ K[n] \in Seq(A) /\ R[n] \subseteq A
      /\ \A n \in A : \A i \in 1 .. Len(K[n]) : K[n][i] \in A
  BY ForestTypes
<1>4. Len(<<>>) = 0 /\ 1 .. 0 = {}
  OBVIOUS
<1>5. ForestKids(B, lw, L, X \cup {d})
  <2>1. lw \in [B -> Nat]
    BY <1>1, <1>2, <1>3
  <2>2. L \in [B -> Seq(B)]
    <3>1. <<>> \in Seq(B) /\ \A s \in Seq(A) : s \in Seq(B)
      OBVIOUS
    <3>2. \A n \in B : L[n] \in Seq(B)
      BY <1>1, <1>3, <3>1
    <3> QED
      BY <1>2, <3>2
  <2>3. ASSUME NEW p \in B, NEW i \in 1 .. Len(L[p])
        PROVE  lw[L[p][i]] = lw[p] - 1 /\ L[p][i] \notin X \cup {d}
    <3>1. p \in A /\ L[p] = K[p] /\ i \in 1 .. Len(K[p]) /\ K[p][i] \in A
      BY <1>1, <1>3, <1>4
    <3>2. lv[K[p][i]] = lv[p] - 1 /\ K[p][i] \notin X
      BY <3>1 DEF Forest, ForestKids
    <3> QED
      BY <1>1, <3>1, <3>2
  <2>4. X \subseteq A
    BY DEF Forest, ForestKids
  <2> QED
    BY <2>1, <2>2, <2>3, <2>4 DEF ForestKids
<1>6. HasParent(B, L, X \cup {d})
  <2> SUFFICES ASSUME NEW n \in B \ (X \cup {d})
               PROVE  \E p \in B : \E i \in 1 .. Len(L[p]) : L[p][i] = n
    BY DEF HasParent
  <2>1. PICK p \in A : \E i \in 1 .. Len(K[p]) : K[p][i] = n
    BY DEF Forest, HasParent
  <2> QED
    BY <1>1, <2>1
<1>7. LevelOrder(B, lw, Q)
  <2>0. /\ \A a, b \in A : b \in R[a] => lv[b] = lv[a] /\ a \notin R[b]
        /\ \A a, b, e \in A : b \in R[a] /\ e \in R[b] => e \in R[a]
        /\ \A a, b \in A : lv[a] = lv[b] => a = b \/ b \in R[a] \/ a \in R[b]
    BY DEF Forest, LevelOrder
  <2>1. Q \in [B -> SUBSET B]
    BY <1>1, <1>2, <1>3
  <2>2. ASSUME NEW a \in B, NEW b \in B, b \in Q[a] PROVE lw[b] = lw[a] /\ a \notin Q[b]
    BY <1>1, <1>3, <2>0, <2>2
  <2>3. ASSUME NEW a \in B, NEW b \in B, NEW e \in B, b \in Q[a], e \in Q[b]
        PROVE  e \in Q[a]
    <3>1. CASE a = d
      BY <1>1, <1>3, <2>0, <2>3, <3>1
    <3>2. CASE a # d /\ b = d
      BY <1>1, <1>3, <2>0, <2>3, <3>2
    <3>3. CASE a # d /\ b # d
      BY <1>1, <1>3, <2>0, <2>3, <3>3
    <3> QED
      BY <3>1, <3>2, <3>3
  <2>4. ASSUME NEW a \in B, NEW b \in B, lw[a] = lw[b] PROVE a = b \/ b \in Q[a] \/ a \in Q[b]
    BY <1>1, <1>3, <2>0, <2>4
  <2> QED
    BY <2>1, <2>2, <2>3, <2>4 DEF LevelOrder
<1>8. KidsOrder(B, L, Q)
  <2>1. ASSUME NEW p \in B, NEW i \in 1 .. Len(L[p]), NEW j \in 1 .. Len(L[p]), i < j
        PROVE  L[p][j] \in Q[L[p][i]]
    <3>1. p \in A /\ L[p] = K[p] /\ K[p][j] \in A /\ K[p][i] \in A
      BY <1>1, <1>3, <1>4
    <3>2. K[p][j] \in R[K[p][i]]
      BY <2>1, <3>1 DEF Forest, KidsOrder
    <3> QED
      BY <1>1, <3>1, <3>2
  <2>2. ASSUME NEW p \in B, NEW q \in B, q \in Q[p],
               NEW i \in 1 .. Len(L[p]), NEW j \in 1 .. Len(L[q])
        PROVE  L[q][j] \in Q[L[p][i]]
    <3>1. /\ p \in A /\ q \in A /\ L[p] = K[p] /\ L[q] = K[q]
          /\ K[q][j] \in A /\ K[p][i] \in A /\ q \in R[p]
      BY <1>1, <1>3, <1>4, <2>2
    <3>2. K[q][j] \in R[K[p][i]]
      BY <2>2, <3>1 DEF Forest, KidsOrder
    <3> QED
      BY <1>1, <3>1, <3>2
  <2> QED
    BY <2>1, <2>2 DEF KidsOrder
<1>9. IsNext(B, Q, c, d)
  <2>1. d \in Q[c]
    BY <1>1
  <2>2. ASSUME NEW x \in B, x \in Q[c], d \in Q[x] PROVE FALSE
    <3>1. c \in R[x] \/ x = c \/ x = d
      BY <1>1, <1>3, <2>2
    <3> QED
      BY <1>1, <1>3, <2>2, <3>1 DEF Forest, LevelOrder
  <2> QED
    BY <2>1, <2>2 DEF IsNext
<1>10. Forest(B, lw, L, X \cup {d}, Q)
  BY <1>5, <1>6, <1>7, <1>8 DEF Forest
<1> QED
  BY <1>9, <1>10 DEF lw, L, Q

\* A node is added on a level of its own.
LEMMA AddAlone ==
  ASSUME NEW A, NEW lv, NEW K, NEW X, NEW R, Forest(A, lv, K, X, R),
         NEW d, d \notin A, NEW l \in Nat, \A n \in A : lv[n] # l
  PROVE  Forest(A \cup {d}, Put(lv, d, l), Put(K, d, <<>>), X \cup {d}, Put(R, d, {}))
<1> DEFINE B == A \cup {d}
           lw == Put(lv, d, l)
           L == Put(K, d, <<>>)
           Q == Put(R, d, {})
<1>1. /\ DOMAIN lw = B /\ DOMAIN L = B /\ DOMAIN Q = B
      /\ lw[d] = l /\ L[d] = <<>> /\ Q[d] = {}
      /\ \A n \in A : n # d /\ lw[n] = lv[n] /\ L[n] = K[n] /\ Q[n] = R[n]
  BY ForestTypes DEF Put
<1>2. /\ lw = [n \in B |-> lw[n]] /\ L = [n \in B |-> L[n]] /\ Q = [n \in B |-> Q[n]]
  BY <1>1 DEF Put
<1> HIDE DEF lw, L, Q
<1>3. /\ \A n \in A : lv[n] \in Nat /\ K[n] \in Seq(A) /\ R[n] \subseteq A
      /\ \A n \in A : \A i \in 1 .. Len(K[n]) : K[n][i] \in A
  BY ForestTypes
<1>4. Len(<<>>) = 0 /\ 1 .. 0 = {}
  OBVIOUS
<1>5. ForestKids(B, lw, L, X \cup {d})
  <2>1. lw \in [B -> Nat]
    BY <1>1, <1>2, <1>3
  <2>2. L \in [B -> Seq(B)]
    <3>1. <<>> \in Seq(B) /\ \A s \in Seq(A) : s \in Seq(B)
      OBVIOUS
    <3>2. \A n \in B : L[n] \in Seq(B)
      BY <1>1, <1>3, <3>1
    <3> QED
      BY <1>2, <3>2
  <2>3. ASSUME NEW p \in B, NEW i \in 1 .. Len(L[p])
        PROVE  lw[L[p][i]] = lw[p] - 1 /\ L[p][i] \notin X \cup {d}
    <3>1. p \in A /\ L[p] = K[p] /\ i \in 1 .. Len(K[p]) /\ K[p][i] \in A
      BY <1>1, <1>3, <1>4
    <3>2. lv[K[p][i]] = lv[p] - 1 /\ K[p][i] \notin X
      BY <3>1 DEF Forest, ForestKids
    <3> QED
      BY <1>1, <3>1, <3>2
  <2>4. X \subseteq A
    BY DEF Forest, ForestKids
  <2> QED
    BY <2>1, <2>2, <2>3, <2>4 DEF ForestKids
<1>6. HasParent(B, L, X \cup {d})
  <2> SUFFICES ASSUME NEW n \in B \ (X \cup {d})
               PROVE  \E p \in B : \E i \in 1 .. Len(L[p]) : L[p][i] = n
    BY DEF HasParent
  <2>1. PICK p \in A : \E i \in 1 .. Len(K[p]) : K[p][i] = n
    BY DEF Forest, HasParent
  <2> QED
    BY <1>1, <2>1
<1>7. LevelOrder(B, lw, Q)
  <2>1. Q \in [B -> SUBSET B]
    BY <1>1, <1>2, <1>3
  <2>2. ASSUME NEW a \in B, NEW b \in B, b \in Q[a]
        PROVE  a \in A /\ b \in A /\ b \in R[a]
    BY <1>1, <1>3, <2>2
  <2> QED
    BY <1>1, <1>3, <2>1, <2>2 DEF Forest, LevelOrder
<1>8. KidsOrder(B, L, Q)
  <2>1. ASSUME NEW p \in B, NEW i \in 1 .. Len(L[p]) PROVE p \in A /\ L[p] = K[p]
    BY <1>1, <1>4
  <2>2. ASSUME NEW p \in B, NEW i \in 1 .. Len(L[p]), NEW j \in 1 .. Len(L[p]), i < j
        PROVE  L[p][j] \in Q[L[p][i]]
    BY <1>1, <1>3, <2>1, <2>2 DEF Forest, KidsOrder
  <2>3. ASSUME NEW p \in B, NEW q \in B, q \in Q[p],
               NEW i \in 1 .. Len(L[p]), NEW j \in 1 .. Len(L[q])
        PROVE  L[q][j] \in Q[L[p][i]]
    <3>1. p \in A /\ q \in A /\ q \in R[p] /\ L[p] = K[p] /\ L[q] = K[q]
      BY <1>1, <2>1, <2>3
    <3>2. K[q][j] \in R[K[p][i]] /\ K[p][i] \in A
      BY <1>3, <2>3, <3>1 DEF Forest, KidsOrder
    <3> QED
      BY <1>1, <3>1, <3>2
  <2> QED
    BY <2>2, <2>3 DEF KidsOrder
<1>9. Forest(B, lw, L, X \cup {d}, Q)
  BY <1>5, <1>6, <1>7, <1>8 DEF Forest
<1> QED
  BY <1>9 DEF lw, L, Q

\* x, a node without a parent, becomes child i of p; the order has it there.
LEMMA Adopt ==
  ASSUME NEW A, NEW lv, NEW K, NEW X, NEW R, Forest(A, lv, K, X, R),
         NEW p \in A, NEW x \in X, lv[p] = lv[x] + 1,
         NEW Kp \in Seq(A), NEW i, Inserted(K[p], Kp, i, x),
         \A j \in 1 .. i - 1 : x \in R[K[p][j]],
         \A j \in i .. Len(K[p]) : K[p][j] \in R[x],
         \A q \in A : p \in R[q] => \A j \in 1 .. Len(K[q]) : x \in R[K[q][j]],
         \A q \in A : q \in R[p] => \A j \in 1 .. Len(K[q]) : K[q][j] \in R[x]
  PROVE  Forest(A, lv, Put(K, p, Kp), X \ {x}, R)
<1> DEFINE L == Put(K, p, Kp)
           old(j) == IF j < i THEN j ELSE j - 1
<1>1. DOMAIN L = A /\ L[p] = Kp /\ \A n \in A \ {p} : L[n] = K[n]
  BY ForestTypes DEF Put
<1>2. L = [n \in A |-> L[n]]
  BY <1>1 DEF Put
<1> HIDE DEF L
<1>3. /\ \A n \in A : lv[n] \in Nat /\ K[n] \in Seq(A) /\ Len(K[n]) \in Nat /\ R[n] \subseteq A
      /\ \A n \in A : \A j \in 1 .. Len(K[n]) : K[n][j] \in A
      /\ X \subseteq A /\ x \in A
  <2>1. X \subseteq A
    BY DEF Forest, ForestKids
  <2> QED
    BY <2>1, ForestTypes
<1>4. /\ Len(Kp) = Len(K[p]) + 1 /\ i \in 1 .. Len(K[p]) + 1 /\ Kp[i] = x
      /\ \A j \in 1 .. i - 1 : Kp[j] = K[p][j]
      /\ \A j \in i + 1 .. Len(Kp) : Kp[j] = K[p][j - 1]
  <2>1. Len(Kp) = Len(K[p]) + 1 /\ i \in 1 .. Len(K[p]) + 1 /\ Kp[i] = x
        /\ \A j \in 1 .. i - 1 : Kp[j] = K[p][j]
    BY DEF Inserted
  <2>2. ASSUME NEW j \in i + 1 .. Len(Kp) PROVE Kp[j] = K[p][j - 1]
    <3>1. j - 1 \in i .. Len(K[p]) /\ (j - 1) + 1 = j
      BY <1>3, <2>1
    <3> QED
      BY <3>1 DEF Inserted
  <2> QED
    BY <2>1, <2>2
\* Where the other children of p were.
<1>5. ASSUME NEW j \in 1 .. Len(Kp), j # i
      PROVE  old(j) \in 1 .. Len(K[p]) /\ Kp[j] = K[p][old(j)] /\ Kp[j] \in A
  <2>1. CASE j < i
    <3>1. j \in 1 .. i - 1 /\ j \in 1 .. Len(K[p])
      BY <1>3, <1>4, <2>1
    <3> QED
      BY <1>3, <1>4, <2>1, <3>1
  <2>2. CASE j > i
    <3>1. j \in i + 1 .. Len(Kp) /\ j - 1 \in 1 .. Len(K[p]) /\ ~(j < i)
      BY <1>3, <1>4, <2>2
    <3> QED
      BY <1>3, <1>4, <3>1
  <2> QED
    BY <1>4, <1>5, <2>1, <2>2
<1>6. ForestKids(A, lv, L, X \ {x})
  <2>1. ASSUME NEW q \in A, NEW j \in 1 .. Len(L[q])
        PROVE  lv[L[q][j]] = lv[q] - 1 /\ L[q][j] \notin X \ {x}
    <3>1. CASE q # p
      BY <1>1, <2>1, <3>1 DEF Forest, ForestKids
    <3>2. CASE q = p /\ j = i
      BY <1>1, <1>3, <1>4, <3>2
    <3>3. CASE q = p /\ j # i
      <4>1. old(j) \in 1 .. Len(K[p]) /\ L[q][j] = K[p][old(j)]
        BY <1>1, <1>5, <3>3
      <4> HIDE DEF old
      <4> QED
        BY <3>3, <4>1 DEF Forest, ForestKids
    <3> QED
      BY <3>1, <3>2, <3>3
  <2>2. L \in [A -> Seq(A)]
    BY <1>1, <1>2, <1>3
  <2> QED
    BY <2>1, <2>2 DEF Forest, ForestKids
<1>7. HasParent(A, L, X \ {x})
  <2> SUFFICES ASSUME NEW n \in A \ (X \ {x})
               PROVE  \E q \in A : \E j \in 1 .. Len(L[q]) : L[q][j] = n
    BY DEF HasParent
  <2>1. CASE n = x
    <3>1. i \in 1 .. Len(L[p]) /\ L[p][i] = x
      BY <1>1, <1>4
    <3> QED
      BY <2>1, <3>1
  <2>2. CASE n # x
    <3>1. PICK q \in A : \E j \in 1 .. Len(K[q]) : K[q][j] = n
      BY <2>2 DEF Forest, HasParent
    <3>2. PICK j \in 1 .. Len(K[q]) : K[q][j] = n
      BY <3>1
    <3>3. CASE q # p
      BY <1>1, <3>2, <3>3
    <3>4. CASE q = p /\ j < i
      <4>1. j \in 1 .. Len(L[p]) /\ L[p][j] = n
        BY <1>1, <1>3, <1>4, <3>2, <3>4
      <4> QED
        BY <4>1
    <3>5. CASE q = p /\ j >= i
      <4>1. j + 1 \in 1 .. Len(L[p]) /\ j \in i .. Len(K[p])
        BY <1>1, <1>3, <1>4, <3>2, <3>5
      <4>2. L[p][j + 1] = n
        BY <1>1, <3>2, <3>5, <4>1 DEF Inserted
      <4> QED
        BY <4>1, <4>2
    <3> QED
      BY <1>4, <3>3, <3>4, <3>5
  <2> QED
    BY <2>1, <2>2
<1>8. KidsOrder(A, L, R)
  <2>1. ASSUME NEW j \in 1 .. Len(Kp), NEW k \in 1 .. Len(Kp), j < k
        PROVE  Kp[k] \in R[Kp[j]]
    <3>1. CASE j = i
      <4>1. k - 1 \in i .. Len(K[p]) /\ Kp[k] = K[p][k - 1]
        BY <1>3, <1>4, <2>1, <3>1
      <4> QED
        BY <1>4, <3>1, <4>1
    <3>2. CASE k = i
      <4>1. j \in 1 .. i - 1
        BY <1>4, <2>1, <3>2
      <4> QED
        BY <1>4, <3>2, <4>1
    <3>3. CASE j # i /\ k # i
      <4>1. old(j) < old(k)
        BY <1>4, <2>1, <3>3
      <4>2. /\ old(j) \in 1 .. Len(K[p]) /\ old(k) \in 1 .. Len(K[p])
            /\ Kp[j] = K[p][old(j)] /\ Kp[k] = K[p][old(k)]
        BY <1>5, <3>3
      <4> HIDE DEF old
      <4> QED
        BY <4>1, <4>2 DEF Forest, KidsOrder
    <3> QED
      BY <3>1, <3>2, <3>3
  <2>2. ASSUME NEW q \in A, NEW r \in A, r \in R[q],
               NEW j \in 1 .. Len(L[q]), NEW k \in 1 .. Len(L[r])
        PROVE  L[r][k] \in R[L[q][j]]
    <3>0. q # r
      BY <2>2 DEF Forest, LevelOrder
    <3>1. CASE q # p /\ r # p
      BY <1>1, <2>2, <3>1 DEF Forest, KidsOrder
    <3>2. CASE q = p /\ j = i
      BY <1>1, <1>4, <2>2, <3>0, <3>2, ZenonT(40)
    <3>3. CASE r = p /\ k = i
      BY <1>1, <1>4, <2>2, <3>0, <3>3
    <3>4. CASE q = p /\ j # i
      <4>1. old(j) \in 1 .. Len(K[p]) /\ L[q][j] = K[p][old(j)]
        BY <1>1, <1>5, <3>4
      <4>2. L[r] = K[r] /\ k \in 1 .. Len(K[r]) /\ r \in R[p]
        BY <1>1, <2>2, <3>0, <3>4
      <4> HIDE DEF old
      <4>3. K[r][k] \in R[K[p][old(j)]]
        BY <4>1, <4>2 DEF Forest, KidsOrder
      <4> QED
        BY <4>1, <4>2, <4>3
    <3>5. CASE r = p /\ k # i
      <4>1. old(k) \in 1 .. Len(K[p]) /\ L[r][k] = K[p][old(k)]
        BY <1>1, <1>5, <3>5
      <4> HIDE DEF old
      <4> QED
        BY <1>1, <2>2, <3>0, <3>5, <4>1 DEF Forest, KidsOrder
    <3> QED
      BY <3>1, <3>2, <3>3, <3>4, <3>5
  <2>3. ASSUME NEW q \in A, NEW j \in 1 .. Len(L[q]), NEW k \in 1 .. Len(L[q]), j < k
        PROVE  L[q][k] \in R[L[q][j]]
    <3>1. CASE q = p
      BY <1>1, <2>1, <2>3, <3>1
    <3>2. CASE q # p
      BY <1>1, <2>3, <3>2 DEF Forest, KidsOrder
    <3> QED
      BY <3>1, <3>2
  <2> QED
    BY <2>2, <2>3 DEF KidsOrder
<1>9. Forest(A, lv, L, X \ {x}, R)
  BY <1>6, <1>7, <1>8 DEF Forest
<1> QED
  BY <1>9 DEF L

\* In particular right behind the child it follows.
LEMMA AdoptNext ==
  ASSUME NEW A, NEW lv, NEW K, NEW X, NEW R, Forest(A, lv, K, X, R),
         NEW p \in A, NEW x \in X, NEW i \in 1 .. Len(K[p]), IsNext(A, R, K[p][i], x),
         NEW Kp \in Seq(A), Inserted(K[p], Kp, i + 1, x)
  PROVE  Forest(A, lv, Put(K, p, Kp), X \ {x}, R)
<1> DEFINE c == K[p][i]
<1>1. /\ \A n \in A : lv[n] \in Nat /\ Len(K[n]) \in Nat
      /\ \A n \in A : \A j \in 1 .. Len(K[n]) : K[n][j] \in A
      /\ x \in A /\ c \in A
  BY ForestTypes, SMTT(30) DEF Forest, ForestKids
<1>2. /\ \A a, b \in A : b \in R[a] => lv[b] = lv[a] /\ a \notin R[b]
      /\ \A a, b, e \in A : b \in R[a] /\ e \in R[b] => e \in R[a]
      /\ \A a, b \in A : lv[a] = lv[b] => a = b \/ b \in R[a] \/ a \in R[b]
  BY DEF Forest, LevelOrder
<1>3. lv[x] = lv[p] - 1 /\ lv[c] = lv[p] - 1 /\ x \in R[c]
  BY <1>1, <1>2 DEF Forest, ForestKids, IsNext
\* What is left of c is left of x, and the other nodes right of c are right of x.
<1>4. ASSUME NEW q \in A, NEW j \in 1 .. Len(K[q]), c \in R[K[q][j]] PROVE x \in R[K[q][j]]
  BY <1>1, <1>2, <1>3, <1>4
<1>5. ASSUME NEW q \in A, NEW j \in 1 .. Len(K[q]), K[q][j] \in R[c] PROVE K[q][j] \in R[x]
  <2>1. K[q][j] # x
    BY DEF Forest, ForestKids
  <2>2. x \notin R[K[q][j]]
    BY <1>1, <1>5 DEF IsNext
  <2> QED
    BY <1>1, <1>2, <1>3, <1>5, <2>1, <2>2
<1>6. ASSUME NEW j \in 1 .. (i + 1) - 1 PROVE x \in R[K[p][j]]
  <2>1. CASE j = i
    BY <1>3, <2>1
  <2>2. CASE j # i
    <3>1. j \in 1 .. Len(K[p]) /\ j < i
      BY <1>1, <2>2
    <3>2. c \in R[K[p][j]]
      BY <3>1 DEF Forest, KidsOrder
    <3> QED
      BY <1>4, <3>1, <3>2
  <2> QED
    BY <2>1, <2>2
<1>7. ASSUME NEW j \in i + 1 .. Len(K[p]) PROVE K[p][j] \in R[x]
  <2>1. j \in 1 .. Len(K[p]) /\ i < j
    BY <1>1
  <2>2. K[p][j] \in R[c]
    BY <2>1 DEF Forest, KidsOrder
  <2> QED
    BY <1>5, <2>1, <2>2
<1>8. ASSUME NEW q \in A, p \in R[q], NEW j \in 1 .. Len(K[q]) PROVE x \in R[K[q][j]]
  <2>1. c \in R[K[q][j]]
    BY <1>8 DEF Forest, KidsOrder
  <2> QED
    BY <1>4, <2>1
<1>9. ASSUME NEW q \in A, q \in R[p], NEW j \in 1 .. Len(K[q]) PROVE K[q][j] \in R[x]
  <2>1. K[q][j] \in R[c]
    BY <1>9 DEF Forest, KidsOrder
  <2> QED
    BY <1>5, <2>1
<1>10. lv[p] = lv[x] + 1
  BY <1>1, <1>3
<1> QED
  BY <1>6, <1>7, <1>8, <1>9, <1>10, Adopt

\* Child i of p loses its parent.
LEMMA Disown ==
  ASSUME NEW A, NEW lv, NEW K, NEW X, NEW R, Forest(A, lv, K, X, R),
         NEW p \in A, NEW i \in 1 .. Len(K[p]),
         NEW Kp \in Seq(A), Inserted(Kp, K[p], i, K[p][i])
  PROVE  Forest(A, lv, Put(K, p, Kp), X \cup {K[p][i]}, R)
<1> DEFINE L == Put(K, p, Kp)
           x == K[p][i]
           old(q, j) == IF q = p /\ j >= i THEN j + 1 ELSE j
<1>1. DOMAIN L = A /\ L[p] = Kp /\ \A n \in A \ {p} : L[n] = K[n]
  BY ForestTypes DEF Put
<1>2. L = [n \in A |-> L[n]]
  BY <1>1 DEF Put
<1> HIDE DEF L
<1>3. /\ \A n \in A : lv[n] \in Nat /\ K[n] \in Seq(A) /\ Len(K[n]) \in Nat /\ R[n] \subseteq A
      /\ \A n \in A : \A j \in 1 .. Len(K[n]) : K[n][j] \in A
  BY ForestTypes
<1>4. /\ Len(Kp) + 1 = Len(K[p]) /\ Len(Kp) \in Nat
      /\ \A j \in 1 .. i - 1 : Kp[j] = K[p][j]
      /\ \A j \in i .. Len(Kp) : Kp[j] = K[p][j + 1]
  <2>1. Len(Kp) \in Nat
    OBVIOUS
  <2> QED
    BY <2>1 DEF Inserted
<1>5. ASSUME NEW q \in A, NEW j \in 1 .. Len(L[q])
      PROVE  /\ old(q, j) \in 1 .. Len(K[q]) /\ L[q][j] = K[q][old(q, j)]
             /\ ~(q = p /\ old(q, j) = i)
  <2>1. CASE q # p
    BY <1>1, <2>1
  <2>2. CASE q = p /\ j < i
    <3>1. j \in 1 .. i - 1 /\ j \in 1 .. Len(K[p]) /\ j # i /\ ~(j >= i)
      BY <1>1, <1>3, <1>4, <2>2
    <3> QED
      BY <1>1, <1>4, <2>2, <3>1
  <2>3. CASE q = p /\ j >= i
    <3>1. j \in i .. Len(Kp) /\ j + 1 \in 1 .. Len(K[p]) /\ j + 1 # i
      BY <1>1, <1>3, <1>4, <2>3
    <3> QED
      BY <1>1, <1>4, <2>3, <3>1
  <2> QED
    BY <2>1, <2>2, <2>3
<1>6. ASSUME NEW q \in A, NEW j \in 1 .. Len(L[q]), NEW k \in 1 .. Len(L[q]), j < k
      PROVE  old(q, j) < old(q, k)
  BY <1>3, <1>4, <1>6
<1> HIDE DEF old
<1>7. ForestKids(A, lv, L, X \cup {x})
  <2>1. ASSUME NEW q \in A, NEW j \in 1 .. Len(L[q])
        PROVE  lv[L[q][j]] = lv[q] - 1 /\ L[q][j] \notin X \cup {x}
    <3>1. K[q][old(q, j)] # x
      BY <1>5, OneParent
    <3>2. lv[K[q][old(q, j)]] = lv[q] - 1 /\ K[q][old(q, j)] \notin X
      BY <1>5 DEF Forest, ForestKids
    <3> QED
      BY <1>5, <3>1, <3>2
  <2>2. L \in [A -> Seq(A)]
    BY <1>1, <1>2, <1>3
  <2>3. x \in A
    BY <1>3
  <2> QED
    BY <2>1, <2>2, <2>3 DEF Forest, ForestKids
<1>8. HasParent(A, L, X \cup {x})
  <2> SUFFICES ASSUME NEW n \in A \ (X \cup {x})
               PROVE  \E q \in A : \E j \in 1 .. Len(L[q]) : L[q][j] = n
    BY DEF HasParent
  <2>1. PICK q \in A : \E j \in 1 .. Len(K[q]) : K[q][j] = n
    BY DEF Forest, HasParent
  <2>2. PICK j \in 1 .. Len(K[q]) : K[q][j] = n
    BY <2>1
  <2>3. CASE q # p
    BY <1>1, <2>2, <2>3
  <2>4. CASE q = p /\ j < i
    <3>1. j \in 1 .. Len(L[p]) /\ j \in 1 .. i - 1
      BY <1>1, <1>3, <1>4, <2>4
    <3> QED
      BY <1>1, <1>4, <2>2, <2>4, <3>1
  <2>5. CASE q = p /\ j > i
    <3>1. j - 1 \in 1 .. Len(L[p]) /\ j - 1 \in i .. Len(Kp) /\ (j - 1) + 1 = j
      BY <1>1, <1>3, <1>4, <2>2, <2>5
    <3>2. L[p][j - 1] = n
      BY <1>1, <1>4, <2>2, <2>5, <3>1
    <3> QED
      BY <3>1, <3>2
  <2> QED
    BY <2>2, <2>3, <2>4, <2>5
<1>9. KidsOrder(A, L, R)
  <2>1. ASSUME NEW q \in A, NEW j \in 1 .. Len(L[q]), NEW k \in 1 .. Len(L[q]), j < k
        PROVE  L[q][k] \in R[L[q][j]]
    <3>1. K[q][old(q, k)] \in R[K[q][old(q, j)]]
      BY <1>5, <1>6, <2>1 DEF Forest, KidsOrder
    <3> QED
      BY <1>5, <3>1
  <2>2. ASSUME NEW q \in A, NEW r \in A, r \in R[q],
               NEW j \in 1 .. Len(L[q]), NEW k \in 1 .. Len(L[r])
        PROVE  L[r][k] \in R[L[q][j]]
    <3>1. K[r][old(r, k)] \in R[K[q][old(q, j)]]
      BY <1>5, <2>2 DEF Forest, KidsOrder
    <3> QED
      BY <1>5, <3>1
  <2> QED
    BY <2>1, <2>2 DEF KidsOrder
<1>10. Forest(A, lv, L, X \cup {x}, R)
  BY <1>7, <1>8, <1>9 DEF Forest
<1> QED
  BY <1>10 DEF L

\* A node without a parent and without children is dropped.
OrderWithout(R, x) == [n \in DOMAIN R \ {x} |-> R[n] \ {x}]

LEMMA Drop ==
  ASSUME NEW A, NEW lv, NEW K, NEW X, NEW R, Forest(A, lv, K, X, R),
         NEW x \in X, K[x] = <<>>
  PROVE  Forest(A \ {x}, Without(lv, x), Without(K, x), X \ {x}, OrderWithout(R, x))
<1> DEFINE B == A \ {x}
           lw == Without(lv, x)
           L == Without(K, x)
           Q == OrderWithout(R, x)
<1>1. /\ DOMAIN lw = B /\ DOMAIN L = B /\ DOMAIN Q = B
      /\ \A n \in B : lw[n] = lv[n] /\ L[n] = K[n] /\ Q[n] = R[n] \ {x}
  BY ForestTypes DEF Without, OrderWithout
<1>2. lw = [n \in B |-> lw[n]] /\ L = [n \in B |-> L[n]] /\ Q = [n \in B |-> Q[n]]
  BY <1>1 DEF Without, OrderWithout
<1> HIDE DEF lw, L, Q
<1>3. /\ \A n \in A : lv[n] \in Nat /\ K[n] \in Seq(A) /\ R[n] \subseteq A
      /\ \A n \in A : \A i \in 1 .. Len(K[n]) : K[n][i] \in A
  BY ForestTypes
<1>4. X \subseteq A /\ \A n \in A : \A i \in 1 .. Len(K[n]) : K[n][i] \in B
  BY <1>3 DEF Forest, ForestKids
<1>5. ForestKids(B, lw, L, X \ {x})
  <2>1. \A n \in B : L[n] \in Seq(B)
    <3> SUFFICES ASSUME NEW n \in B PROVE L[n] \in Seq(B)
      OBVIOUS
    <3>1. K[n] \in Seq(A) /\ \A i \in 1 .. Len(K[n]) : K[n][i] \in B
      BY <1>3, <1>4
    <3>2. \A s \in Seq(A) : (\A i \in 1 .. Len(s) : s[i] \in B) => s \in Seq(B)
      BY SeqDef
    <3> QED
      BY <1>1, <3>1, <3>2
  <2>2. lw \in [B -> Nat] /\ L \in [B -> Seq(B)]
    BY <1>1, <1>2, <1>3, <2>1
  <2>3. ASSUME NEW p \in B, NEW i \in 1 .. Len(L[p])
        PROVE  lw[L[p][i]] = lw[p] - 1 /\ L[p][i] \notin X \ {x}
    BY <1>1, <1>4, <2>3 DEF Forest, ForestKids
  <2> QED
    BY <1>4, <2>2, <2>3 DEF ForestKids
<1>6. HasParent(B, L, X \ {x})
  <2> SUFFICES ASSUME NEW n \in B \ (X \ {x})
               PROVE  \E p \in B : \E i \in 1 .. Len(L[p]) : L[p][i] = n
    BY DEF HasParent
  <2>1. PICK p \in A : \E i \in 1 .. Len(K[p]) : K[p][i] = n
    BY DEF Forest, HasParent
  <2>2. p # x
    <3>1. Len(<<>>) = 0 /\ 1 .. 0 = {}
      OBVIOUS
    <3> QED
      BY <2>1, <3>1
  <2> QED
    BY <1>1, <2>1, <2>2
<1>7. LevelOrder(B, lw, Q)
  <2>1. Q \in [B -> SUBSET B]
    BY <1>1, <1>2, <1>3
  <2> QED
    BY <1>1, <2>1 DEF Forest, LevelOrder
<1>8. KidsOrder(B, L, Q)
  <2>1. ASSUME NEW p \in B, NEW i \in 1 .. Len(L[p]), NEW j \in 1 .. Len(L[p]), i < j
        PROVE  L[p][j] \in Q[L[p][i]]
    BY <1>1, <1>4, <2>1 DEF Forest, KidsOrder
  <2>2. ASSUME NEW p \in B, NEW q \in B, q \in Q[p],
               NEW i \in 1 .. Len(L[p]), NEW j \in 1 .. Len(L[q])
        PROVE  L[q][j] \in Q[L[p][i]]
    <3>1. q \in R[p] /\ L[p] = K[p] /\ L[q] = K[q]
      BY <1>1, <2>2
    <3>2. K[q][j] \in R[K[p][i]] /\ K[q][j] \in B /\ K[p][i] \in B
      BY <1>4, <2>2, <3>1 DEF Forest, KidsOrder
    <3> QED
      BY <1>1, <3>1, <3>2
  <2> QED
    BY <2>1, <2>2 DEF KidsOrder
<1>9. Forest(B, lw, L, X \ {x}, Q)
  BY <1>5, <1>6, <1>7, <1>8 DEF Forest
<1> QED
  BY <1>9 DEF lw, L, Q

\* Where the elements of a join are.
LEMMA JoinsElements ==
  ASSUME NEW S, NEW s \in Seq(S), NEW l \in Seq(S), NEW r \in Seq(S), Joins(s, l, r)
  PROVE  /\ \A j \in 1 .. Len(l) : j \in 1 .. Len(s) /\ s[j] = l[j]
         /\ \A j \in 1 .. Len(r) : j + Len(l) \in 1 .. Len(s) /\ s[j + Len(l)] = r[j]
         /\ \A j \in 1 .. Len(s) : j > Len(l) =>
              /\ j - Len(l) \in 1 .. Len(r) /\ (j - Len(l)) + Len(l) = j
              /\ s[j] = r[j - Len(l)]
<1>1. Len(l) \in Nat /\ Len(r) \in Nat /\ Len(s) = Len(l) + Len(r)
  BY DEF Joins
<1>2. /\ \A j \in 1 .. Len(l) : s[j] = l[j]
      /\ \A j \in 1 .. Len(r) : s[j + Len(l)] = r[j]
  BY DEF Joins
<1>3. ASSUME NEW j \in 1 .. Len(s), j > Len(l)
      PROVE  j - Len(l) \in 1 .. Len(r) /\ (j - Len(l)) + Len(l) = j
  BY <1>1, <1>3
<1>4. ASSUME NEW j \in 1 .. Len(l) PROVE j \in 1 .. Len(s)
  BY <1>1
<1>5. ASSUME NEW j \in 1 .. Len(r) PROVE j + Len(l) \in 1 .. Len(s)
  BY <1>1
<1>6. ASSUME NEW j \in 1 .. Len(s), j > Len(l) PROVE s[j] = r[j - Len(l)]
  BY <1>2, <1>3, <1>6
<1> QED
  BY <1>2, <1>3, <1>4, <1>5, <1>6

\* Two neighbours exchange children: taken together they keep them in order.
LEMMA Exchange ==
  ASSUME NEW A, NEW lv, NEW K, NEW X, NEW R, Forest(A, lv, K, X, R),
         NEW a \in A, NEW b \in A, IsNext(A, R, a, b), NEW s \in Seq(A),
         NEW ka \in Seq(A), NEW kb \in Seq(A), ka = K[a], kb = K[b], Joins(s, ka, kb),
         NEW Ka \in Seq(A), NEW Kb \in Seq(A), Joins(s, Ka, Kb)
  PROVE  Forest(A, lv, Put(Put(K, a, Ka), b, Kb), X, R)
<1> DEFINE L == Put(Put(K, a, Ka), b, Kb)
<1>1. /\ \A n \in A : lv[n] \in Nat /\ K[n] \in Seq(A) /\ Len(K[n]) \in Nat /\ R[n] \subseteq A
      /\ \A n \in A : \A j \in 1 .. Len(K[n]) : K[n][j] \in A
      /\ Len(Ka) \in Nat /\ Len(Kb) \in Nat /\ Len(s) \in Nat
  <2>1. Len(Ka) \in Nat /\ Len(Kb) \in Nat /\ Len(s) \in Nat
    OBVIOUS
  <2> QED
    BY <2>1, ForestTypes
<1>2. /\ \A y, z \in A : z \in R[y] => lv[z] = lv[y] /\ y \notin R[z]
      /\ \A y, z, e \in A : z \in R[y] /\ e \in R[z] => e \in R[y]
      /\ \A y, z \in A : lv[y] = lv[z] => y = z \/ z \in R[y] \/ y \in R[z]
  BY DEF Forest, LevelOrder
<1>3. b \in R[a] /\ a # b /\ lv[a] = lv[b] /\ \A x \in A : ~(x \in R[a] /\ b \in R[x])
  BY <1>2 DEF IsNext
<1>4. DOMAIN L = A /\ L[a] = Ka /\ L[b] = Kb /\ \A n \in A \ {a, b} : L[n] = K[n]
  BY <1>3, ForestTypes DEF Put
<1>5. L = [n \in A |-> L[n]]
  BY <1>4 DEF Put
<1> HIDE DEF L
\* The children of the two, before and after.
<1>6. /\ \A j \in 1 .. Len(ka) : j \in 1 .. Len(s) /\ s[j] = ka[j]
      /\ \A j \in 1 .. Len(kb) : j + Len(ka) \in 1 .. Len(s) /\ s[j + Len(ka)] = kb[j]
      /\ \A j \in 1 .. Len(s) : j > Len(ka) =>
           j - Len(ka) \in 1 .. Len(kb) /\ s[j] = kb[j - Len(ka)]
  <2>1. \A l, r \in Seq(A) : Joins(s, l, r) =>
          /\ \A j \in 1 .. Len(l) : j \in 1 .. Len(s) /\ s[j] = l[j]
          /\ \A j \in 1 .. Len(r) : j + Len(l) \in 1 .. Len(s) /\ s[j + Len(l)] = r[j]
          /\ \A j \in 1 .. Len(s) : j > Len(l) =>
               j - Len(l) \in 1 .. Len(r) /\ s[j] = r[j - Len(l)]
    BY JoinsElements
  <2> QED
    BY <2>1
<1>7. /\ \A j \in 1 .. Len(Ka) : j \in 1 .. Len(s) /\ s[j] = Ka[j]
      /\ \A j \in 1 .. Len(Kb) : j + Len(Ka) \in 1 .. Len(s) /\ s[j + Len(Ka)] = Kb[j]
      /\ \A j \in 1 .. Len(s) : j > Len(Ka) =>
           j - Len(Ka) \in 1 .. Len(Kb) /\ s[j] = Kb[j - Len(Ka)]
  BY JoinsElements
<1>8. Len(ka) \in Nat /\ Len(kb) \in Nat /\ Len(Ka) \in Nat /\ Len(Kb) \in Nat
  OBVIOUS
<1>9. ASSUME NEW j \in 1 .. Len(s)
      PROVE  \/ j \in 1 .. Len(ka) /\ s[j] = ka[j]
             \/ j - Len(ka) \in 1 .. Len(kb) /\ s[j] = kb[j - Len(ka)]
  <2>1. ~(j > Len(ka)) => j \in 1 .. Len(ka)
    BY <1>8
  <2> QED
    BY <1>6, <2>1
<1>10. ASSUME NEW j \in 1 .. Len(s)
      PROVE  s[j] \in A /\ lv[s[j]] = lv[a] - 1 /\ s[j] \notin X
  <2>1. \A y \in A : \A i \in 1 .. Len(K[y]) : lv[K[y][i]] = lv[y] - 1 /\ K[y][i] \notin X
    BY DEF Forest, ForestKids
  <2>2. s[j] \in A
    OBVIOUS
  <2>3. CASE j \in 1 .. Len(ka) /\ s[j] = ka[j]
    BY <2>1, <2>2, <2>3
  <2>4. CASE j - Len(ka) \in 1 .. Len(kb) /\ s[j] = kb[j - Len(ka)]
    BY <1>3, <2>1, <2>2, <2>4
  <2> QED
    BY <1>9, <2>3, <2>4
<1>11. ASSUME NEW j \in 1 .. Len(s), NEW k \in 1 .. Len(s), j < k
      PROVE  s[k] \in R[s[j]]
  <2>1. CASE k \in 1 .. Len(ka) /\ s[k] = ka[k]
    <3>1. j \in 1 .. Len(ka)
      BY <1>8, <1>11, <2>1
    <3>2. s[j] = ka[j]
      BY <1>6, <3>1
    <3> QED
      BY <1>11, <2>1, <3>1, <3>2 DEF Forest, KidsOrder
  <2>2. CASE k - Len(ka) \in 1 .. Len(kb) /\ s[k] = kb[k - Len(ka)]
    <3>1. CASE j \in 1 .. Len(ka) /\ s[j] = ka[j]
      BY <1>3, <2>2, <3>1 DEF Forest, KidsOrder
    <3>2. CASE j - Len(ka) \in 1 .. Len(kb) /\ s[j] = kb[j - Len(ka)]
      <4>1. j - Len(ka) < k - Len(ka)
        BY <1>1, <1>11
      <4> QED
        BY <2>2, <3>2, <4>1 DEF Forest, KidsOrder
    <3> QED
      BY <1>9, <3>1, <3>2
  <2> QED
    BY <1>9, <2>1, <2>2
\* The other nodes are on the same side of both.
<1>12. ASSUME NEW q \in A \ {a, b}
       PROVE  /\ q \in R[a] <=> q \in R[b]
              /\ a \in R[q] <=> b \in R[q]
  BY <1>2, <1>3
<1>13. ASSUME NEW q \in A \ {a, b}, NEW k \in 1 .. Len(K[q]), NEW j \in 1 .. Len(s)
       PROVE  /\ q \in R[a] => K[q][k] \in R[s[j]]
              /\ a \in R[q] => s[j] \in R[K[q][k]]
  <2>1. CASE j \in 1 .. Len(ka) /\ s[j] = ka[j]
    BY <2>1 DEF Forest, KidsOrder
  <2>2. CASE j - Len(ka) \in 1 .. Len(kb) /\ s[j] = kb[j - Len(ka)]
    BY <1>12, <2>2 DEF Forest, KidsOrder
  <2> QED
    BY <1>9, <2>1, <2>2
<1>14. /\ \A j \in 1 .. Len(Ka) : j \in 1 .. Len(s) /\ L[a][j] = s[j]
       /\ \A j \in 1 .. Len(Kb) : j + Len(Ka) \in 1 .. Len(s) /\ L[b][j] = s[j + Len(Ka)]
  BY <1>4, <1>7
<1>15. ForestKids(A, lv, L, X)
  <2>1. ASSUME NEW q \in A, NEW j \in 1 .. Len(L[q])
        PROVE  lv[L[q][j]] = lv[q] - 1 /\ L[q][j] \notin X
    <3>1. CASE q = a
      BY <1>4, <1>10, <1>14, <3>1
    <3>2. CASE q = b
      BY <1>3, <1>4, <1>10, <1>14, <3>2
    <3>3. CASE q \notin {a, b}
      BY <1>4, <2>1, <3>3 DEF Forest, ForestKids
    <3> QED
      BY <3>1, <3>2, <3>3
  <2>2. L \in [A -> Seq(A)]
    BY <1>1, <1>4, <1>5
  <2> QED
    BY <2>1, <2>2 DEF Forest, ForestKids
<1>16. HasParent(A, L, X)
  <2> SUFFICES ASSUME NEW n \in A \ X
               PROVE  \E q \in A : \E j \in 1 .. Len(L[q]) : L[q][j] = n
    BY DEF HasParent
  <2>1. PICK q \in A : \E j \in 1 .. Len(K[q]) : K[q][j] = n
    BY DEF Forest, HasParent
  <2>2. PICK j \in 1 .. Len(K[q]) : K[q][j] = n
    BY <2>1
  <2>3. CASE q \notin {a, b}
    BY <1>4, <2>2, <2>3
  <2>4. CASE q \in {a, b}
    <3>1. \E m \in 1 .. Len(s) : s[m] = n
      <4>1. CASE q = a
        BY <1>6, <2>2, <4>1
      <4>2. CASE q = b
        BY <1>6, <2>2, <4>2
      <4> QED
        BY <2>4, <4>1, <4>2
    <3>2. PICK m \in 1 .. Len(s) : s[m] = n
      BY <3>1
    <3>3. CASE m <= Len(Ka)
      <4>1. m \in 1 .. Len(L[a]) /\ L[a][m] = n
        BY <1>1, <1>4, <1>14, <3>2, <3>3
      <4> QED
        BY <4>1
    <3>4. CASE m > Len(Ka)
      BY <1>4, <1>7, <3>2, <3>4
    <3> QED
      BY <1>1, <3>3, <3>4
  <2> QED
    BY <2>3, <2>4
<1>17. KidsOrder(A, L, R)
  <2>1. ASSUME NEW p \in A, NEW i \in 1 .. Len(L[p]), NEW j \in 1 .. Len(L[p]), i < j
        PROVE  L[p][j] \in R[L[p][i]]
    <3>1. CASE p = a
      BY <1>4, <1>11, <1>14, <2>1, <3>1
    <3>2. CASE p = b
      <4>1. i + Len(Ka) < j + Len(Ka) /\ L[p] = Kb
        BY <1>1, <1>4, <2>1, <3>2
      <4> QED
        BY <1>11, <1>14, <3>2, <4>1
    <3>3. CASE p \notin {a, b}
      BY <1>4, <2>1, <3>3 DEF Forest, KidsOrder
    <3> QED
      BY <3>1, <3>2, <3>3
  <2>2. ASSUME NEW p \in A, NEW q \in A, q \in R[p],
               NEW i \in 1 .. Len(L[p]), NEW j \in 1 .. Len(L[q])
        PROVE  L[q][j] \in R[L[p][i]]
    <3>0. p # q /\ ~(p = b /\ q = a)
      BY <1>2, <1>3, <2>2
    <3>1. CASE p \in {a, b} /\ q \in {a, b}
      <4>1. p = a /\ q = b /\ i \in 1 .. Len(Ka) /\ j \in 1 .. Len(Kb)
        BY <1>4, <3>0, <3>1
      <4>2. i < j + Len(Ka)
        BY <1>1, <4>1
      <4> QED
        BY <1>11, <1>14, <4>1, <4>2
    <3>2. CASE p \in {a, b} /\ q \notin {a, b}
      <4>1. q \in R[a] /\ L[q] = K[q]
        BY <1>4, <1>12, <2>2, <3>2
      <4>2. \E m \in 1 .. Len(s) : L[p][i] = s[m]
        BY <1>4, <1>14, <3>2
      <4> QED
        BY <1>13, <3>2, <4>1, <4>2
    <3>3. CASE p \notin {a, b} /\ q \in {a, b}
      <4>1. a \in R[p] /\ L[p] = K[p]
        BY <1>4, <1>12, <2>2, <3>3
      <4>2. \E m \in 1 .. Len(s) : L[q][j] = s[m]
        BY <1>4, <1>14, <3>3
      <4> QED
        BY <1>13, <3>3, <4>1, <4>2
    <3>4. CASE p \notin {a, b} /\ q \notin {a, b}
      BY <1>4, <2>2, <3>4 DEF Forest, KidsOrder
    <3> QED
      BY <3>1, <3>2, <3>3, <3>4
  <2> QED
    BY <2>1, <2>2 DEF KidsOrder
<1>18. Forest(A, lv, L, X, R)
  BY <1>15, <1>16, <1>17 DEF Forest
<1> QED
  BY <1>18 DEF L

-----------------------------------------------------------------------------
(* Chains: a line of nodes, each linked with the next one.                 *)

LineOrder(L, R) ==
  /\ \A a, b \in L : b \in R[a] => a \notin R[b]
  /\ \A a, b, c \in L : b \in R[a] /\ c \in R[b] => c \in R[a]
  /\ \A a, b \in L : a = b \/ b \in R[a] \/ a \in R[b]

\* nx is the next node of each node of L and pv the one before; z is none.
Chained(L, R, nx, pv, z) ==
  \A n \in L :
    /\ IF nx[n] = z THEN \A m \in L : m \notin R[n] ELSE nx[n] \in L /\ IsNext(L, R, n, nx[n])
    /\ IF pv[n] = z THEN \A m \in L : n \notin R[m] ELSE pv[n] \in L /\ nx[pv[n]] = n

\* A node has one next node, and is that of one node.
LEMMA NextUnique ==
  ASSUME NEW L, NEW R, LineOrder(L, R), NEW a \in L, NEW b \in L, NEW c \in L
  PROVE  /\ IsNext(L, R, a, b) /\ IsNext(L, R, a, c) => b = c
         /\ IsNext(L, R, a, c) /\ IsNext(L, R, b, c) => a = b
         /\ IsNext(L, R, a, b) => a # b
BY DEF LineOrder, IsNext

LEMMA LinksUnique ==
  ASSUME NEW L, NEW R, LineOrder(L, R), NEW nx, NEW pv, NEW z, Chained(L, R, nx, pv, z),
         NEW a \in L, NEW b \in L, IsNext(L, R, a, b), z \notin L
  PROVE  nx[a] = b /\ pv[b] = a /\ a # b
<1>1. nx[a] # z
  BY DEF Chained, IsNext
<1>2. PICK c \in L : c = nx[a] /\ IsNext(L, R, a, c)
  BY <1>1 DEF Chained
<1>3. c = b /\ a # b
  BY <1>2, NextUnique
<1>4. pv[b] # z
  BY DEF Chained, IsNext
<1>5. PICK p \in L : p = pv[b] /\ nx[p] = b
  BY <1>4 DEF Chained
<1>6. IsNext(L, R, p, b)
  BY <1>5 DEF Chained
<1>7. p = a
  BY <1>6, NextUnique
<1> QED
  BY <1>2, <1>3, <1>5, <1>7

\* d comes right behind a in the order Q, and is linked in behind it.
OrderIn(L, R, Q, a, d) ==
  /\ \A m, n \in L : n \in Q[m] <=> n \in R[m]
  /\ \A m \in L : d \in Q[m] <=> m = a \/ a \in R[m]
  /\ \A n \in L : n \in Q[d] <=> n \in R[a]
  /\ d \notin Q[d]

LinkedIn(L, nx, pv, ny, pw, a, d) ==
  /\ ny[a] = d /\ ny[d] = nx[a] /\ \A n \in L \ {a} : ny[n] = nx[n]
  /\ pw[d] = a /\ \A n \in L : pw[n] = IF n = nx[a] THEN d ELSE pv[n]

LEMMA LinkIn ==
  ASSUME NEW L, NEW R, LineOrder(L, R), NEW nx, NEW pv, NEW z, z \notin L, Chained(L, R, nx, pv, z),
         NEW a \in L, NEW d, d \notin L, d # z, NEW Q, NEW ny, NEW pw,
         OrderIn(L, R, Q, a, d), LinkedIn(L, nx, pv, ny, pw, a, d)
  PROVE  Chained(L \cup {d}, Q, ny, pw, z)
<1> DEFINE M == L \cup {d}
<1> USE DEF OrderIn, LinkedIn
<1>1. ASSUME NEW n \in M
      PROVE  IF ny[n] = z THEN \A m \in M : m \notin Q[n] ELSE ny[n] \in M /\ IsNext(M, Q, n, ny[n])
  <2>1. CASE n = a
    <3>1. d \in Q[a] /\ \A x \in L : ~(x \in Q[a] /\ d \in Q[x])
      BY DEF LineOrder
    <3> QED
      BY <2>1, <3>1 DEF IsNext
  <2>2. CASE n = d
    <3>1. CASE nx[a] = z
      BY <2>2, <3>1 DEF Chained
    <3>2. CASE nx[a] # z
      <4>1. PICK c \in L : c = nx[a] /\ IsNext(L, R, a, c)
        BY <3>2 DEF Chained
      <4>2. IsNext(M, Q, d, c)
        BY <4>1 DEF IsNext
      <4> QED
        BY <2>2, <4>1, <4>2
    <3> QED
      BY <3>1, <3>2
  <2>3. CASE n \in L \ {a}
    <3>1. CASE nx[n] = z
      <4>1. \A m \in L : m \notin R[n]
        BY <2>3, <3>1 DEF Chained
      <4> QED
        BY <2>3, <3>1, <4>1
    <3>2. CASE nx[n] # z
      <4>1. PICK c \in L : c = nx[n] /\ IsNext(L, R, n, c)
        BY <2>3, <3>2 DEF Chained
      <4>2. ~(d \in Q[n] /\ c \in Q[d])
        BY <2>3, <4>1 DEF IsNext
      <4>3. IsNext(M, Q, n, c)
        BY <2>3, <4>1, <4>2 DEF IsNext
      <4> QED
        BY <2>3, <3>2, <4>1, <4>3
    <3> QED
      BY <3>1, <3>2
  <2> QED
    BY <2>1, <2>2, <2>3
<1>2. ASSUME NEW n \in M
      PROVE  IF pw[n] = z THEN \A m \in M : n \notin Q[m] ELSE pw[n] \in M /\ ny[pw[n]] = n
  <2>1. CASE n = d
    BY <2>1
  <2>2. CASE n \in L /\ n = nx[a]
    BY <2>2
  <2>3. CASE n \in L /\ n # nx[a]
    <3>1. pw[n] = pv[n]
      BY <2>3
    <3>2. CASE pv[n] = z
      <4>1. \A m \in L : n \notin R[m]
        BY <2>3, <3>2 DEF Chained
      <4> QED
        BY <2>3, <3>1, <3>2, <4>1
    <3>3. CASE pv[n] # z
      <4>1. PICK p \in L : p = pv[n] /\ nx[p] = n
        BY <2>3, <3>3 DEF Chained
      <4>2. p # a /\ ny[p] = nx[p]
        BY <2>3, <4>1
      <4> QED
        BY <3>1, <3>3, <4>1, <4>2
    <3> QED
      BY <3>2, <3>3
  <2> QED
    BY <2>1, <2>2, <2>3
<1> QED
  BY <1>1, <1>2 DEF Chained

\* b, the node behind a, leaves the chain.
LinkedOut(L, nx, pv, ny, pw, a, b) ==
  /\ ny[a] = nx[b] /\ \A n \in L \ {a, b} : ny[n] = nx[n]
  /\ \A n \in L \ {b} : pw[n] = IF n = nx[b] THEN a ELSE pv[n]

LEMMA LinkOut ==
  ASSUME NEW L, NEW R, LineOrder(L, R), NEW nx, NEW pv, NEW z, z \notin L, Chained(L, R, nx, pv, z),
         NEW a \in L, NEW b \in L, IsNext(L, R, a, b), NEW ny, NEW pw,
         LinkedOut(L, nx, pv, ny, pw, a, b)
  PROVE  Chained(L \ {b}, R, ny, pw, z)
<1> DEFINE M == L \ {b}
<1> USE DEF LinkedOut
<1>1. nx[a] = b /\ pv[b] = a /\ a # b
  BY LinksUnique
<1>2. ASSUME NEW n \in M
      PROVE  IF ny[n] = z THEN \A m \in M : m \notin R[n] ELSE ny[n] \in M /\ IsNext(M, R, n, ny[n])
  <2>1. CASE n = a
    <3>1. CASE nx[b] = z
      <4>1. \A m \in L : m \notin R[b]
        BY <3>1 DEF Chained
      <4>2. \A m \in M : m \notin R[a]
        BY <4>1 DEF IsNext, LineOrder
      <4> QED
        BY <2>1, <3>1, <4>2
    <3>2. CASE nx[b] # z
      <4>1. PICK c \in L : c = nx[b] /\ IsNext(L, R, b, c)
        BY <3>2 DEF Chained
      <4>2. c # b
        BY <4>1, NextUnique
      <4>3. IsNext(M, R, a, c)
        BY <1>1, <4>1, <4>2 DEF IsNext, LineOrder
      <4> QED
        BY <2>1, <3>2, <4>1, <4>2, <4>3
    <3> QED
      BY <3>1, <3>2
  <2>2. CASE n # a
    <3>1. ny[n] = nx[n]
      BY <2>2
    <3>2. CASE nx[n] = z
      BY <3>1, <3>2 DEF Chained
    <3>3. CASE nx[n] # z
      <4>1. PICK c \in L : c = nx[n] /\ IsNext(L, R, n, c)
        BY <3>3 DEF Chained
      <4>2. c # b
        BY <2>2, <4>1, NextUnique
      <4>3. IsNext(M, R, n, c)
        BY <4>1, <4>2 DEF IsNext
      <4> QED
        BY <3>1, <3>3, <4>1, <4>2, <4>3
    <3> QED
      BY <3>2, <3>3
  <2> QED
    BY <2>1, <2>2
<1>3. ASSUME NEW n \in M
      PROVE  IF pw[n] = z THEN \A m \in M : n \notin R[m] ELSE pw[n] \in M /\ ny[pw[n]] = n
  <2>1. CASE n = nx[b]
    BY <1>1, <2>1
  <2>2. CASE n # nx[b]
    <3>1. pw[n] = pv[n]
      BY <2>2
    <3>2. CASE pv[n] = z
      BY <3>1, <3>2 DEF Chained
    <3>3. CASE pv[n] # z
      <4>1. PICK p \in L : p = pv[n] /\ nx[p] = n
        BY <3>3 DEF Chained
      <4>2. p # b /\ p # a
        BY <1>1, <2>2, <4>1
      <4> QED
        BY <3>1, <3>3, <4>1, <4>2
    <3> QED
      BY <3>2, <3>3
  <2> QED
    BY <2>1, <2>2
<1> QED
  BY <1>2, <1>3 DEF Chained

\* The same chain in an order that agrees on its nodes.
AgreeOn(L, R, Q, nx, pv, ny, pw) ==
  /\ \A m, n \in L : n \in Q[m] <=> n \in R[m]
  /\ \A n \in L : ny[n] = nx[n] /\ pw[n] = pv[n]

LEMMA LinksSame ==
  ASSUME NEW L, NEW R, NEW nx, NEW pv, NEW z, Chained(L, R, nx, pv, z), NEW Q, NEW ny, NEW pw,
         AgreeOn(L, R, Q, nx, pv, ny, pw)
  PROVE  Chained(L, Q, ny, pw, z)
<1> USE DEF AgreeOn
<1>1. \A m, n \in L : IsNext(L, R, m, n) => IsNext(L, Q, m, n)
  BY DEF IsNext
<1>2. ASSUME NEW n \in L
      PROVE  IF ny[n] = z THEN \A m \in L : m \notin Q[n] ELSE ny[n] \in L /\ IsNext(L, Q, n, ny[n])
  <2>1. CASE nx[n] = z
    BY <2>1 DEF Chained
  <2>2. CASE nx[n] # z
    <3>1. PICK c \in L : c = nx[n] /\ IsNext(L, R, n, c)
      BY <2>2 DEF Chained
    <3> QED
      BY <1>1, <2>2, <3>1
  <2> QED
    BY <2>1, <2>2
<1>3. ASSUME NEW n \in L
      PROVE  IF pw[n] = z THEN \A m \in L : n \notin Q[m] ELSE pw[n] \in L /\ ny[pw[n]] = n
  <2>1. CASE pv[n] = z
    BY <2>1 DEF Chained
  <2>2. CASE pv[n] # z
    <3>1. PICK p \in L : p = pv[n] /\ nx[p] = n
      BY <2>2 DEF Chained
    <3> QED
      BY <2>2, <3>1
  <2> QED
    BY <2>1, <2>2
<1> QED
  BY <1>2, <1>3 DEF Chained

-----------------------------------------------------------------------------
(* Lines: the nodes of a chain one after the other.                        *)

\* s are the nodes of L in the order R.
Lists(s, L, R) ==
  /\ s \in Seq(L)
  /\ \A n \in L : \E i \in 1 .. Len(s) : s[i] = n
  /\ \A i, j \in 1 .. Len(s) : i < j => s[j] \in R[s[i]]

\* Each node of a list is linked with the next one.
LinkedList(s, nx, pv, z) ==
  \A i \in 1 .. Len(s) :
    /\ nx[s[i]] = IF i = Len(s) THEN z ELSE s[i + 1]
    /\ pv[s[i]] = IF i = 1 THEN z ELSE s[i - 1]

LEMMA ListIs ==
  ASSUME NEW s, NEW L, NEW R, Lists(s, L, R)
  PROVE  /\ s \in Seq(L) /\ Len(s) \in Nat /\ DOMAIN s = 1 .. Len(s)
         /\ \A i \in 1 .. Len(s) : s[i] \in L
         /\ \A n \in L : \E i \in 1 .. Len(s) : s[i] = n
         /\ \A i, j \in 1 .. Len(s) : i < j => s[j] \in R[s[i]]
BY DEF Lists

\* A node is in the list once, and a later one is right of it.
LEMMA ListOrder ==
  ASSUME NEW s, NEW L, NEW R, Lists(s, L, R), LineOrder(L, R),
         NEW i \in 1 .. Len(s), NEW j \in 1 .. Len(s)
  PROVE  s[j] \in R[s[i]] <=> i < j
<1>1. s[i] \in L /\ s[j] \in L /\ Len(s) \in Nat
  BY ListIs
<1>2. i < j => s[j] \in R[s[i]]
  BY ListIs
<1>3. j < i => s[i] \in R[s[j]]
  BY ListIs
<1>4. CASE i < j
  BY <1>2, <1>4
<1>5. CASE j < i
  BY <1>1, <1>3, <1>5 DEF LineOrder
<1>6. CASE i = j
  BY <1>1, <1>6 DEF LineOrder
<1> QED
  BY <1>1, <1>4, <1>5, <1>6

LEMMA ListOnce ==
  ASSUME NEW s, NEW L, NEW R, Lists(s, L, R), LineOrder(L, R),
         NEW i \in 1 .. Len(s), NEW j \in 1 .. Len(s), s[i] = s[j]
  PROVE  i = j
<1>1. Len(s) \in Nat
  BY ListIs
<1>2. ~(i < j)
  BY ListOrder
<1>3. ~(j < i)
  BY ListOrder
<1> QED
  BY <1>1, <1>2, <1>3

LEMMA ListNext ==
  ASSUME NEW s, NEW L, NEW R, Lists(s, L, R), LineOrder(L, R), NEW i \in 1 .. Len(s) - 1
  PROVE  IsNext(L, R, s[i], s[i + 1])
<1>1. Len(s) \in Nat /\ i \in 1 .. Len(s) /\ i + 1 \in 1 .. Len(s)
  BY ListIs
<1>2. s[i] \in L /\ s[i + 1] \in L
  BY <1>1, ListIs
<1>3. s[i + 1] \in R[s[i]]
  BY <1>1, ListIs
<1>4. ASSUME NEW x \in L, x \in R[s[i]], s[i + 1] \in R[x] PROVE FALSE
  <2>1. PICK k \in 1 .. Len(s) : s[k] = x
    BY ListIs
  <2>2. i < k
    BY <1>1, <1>4, <2>1, ListOrder
  <2>3. k < i + 1
    BY <1>1, <1>4, <2>1, ListOrder
  <2> QED
    BY <1>1, <2>2, <2>3
<1> QED
  BY <1>2, <1>3, <1>4 DEF IsNext

\* The links of a chain are those of the list of its nodes.
LEMMA ListLinks ==
  ASSUME NEW s, NEW L, NEW R, Lists(s, L, R), LineOrder(L, R),
         NEW nx, NEW pv, NEW z, z \notin L, Chained(L, R, nx, pv, z)
  PROVE  LinkedList(s, nx, pv, z)
<1>1. Len(s) \in Nat /\ \A i \in 1 .. Len(s) : s[i] \in L
  BY ListIs
<1>2. ASSUME NEW i \in 1 .. Len(s) - 1 PROVE nx[s[i]] = s[i + 1] /\ pv[s[i + 1]] = s[i]
  <2>1. i \in 1 .. Len(s) /\ i + 1 \in 1 .. Len(s)
    BY <1>1
  <2>2. s[i] \in L /\ s[i + 1] \in L
    BY <1>1, <2>1
  <2>3. IsNext(L, R, s[i], s[i + 1])
    BY ListNext
  <2> QED
    BY <2>2, <2>3, LinksUnique
<1>3. ASSUME Len(s) # 0 PROVE nx[s[Len(s)]] = z
  <2>1. Len(s) \in 1 .. Len(s) /\ s[Len(s)] \in L
    BY <1>1, <1>3
  <2>2. nx[s[Len(s)]] # z => nx[s[Len(s)]] \in L /\ nx[s[Len(s)]] \in R[s[Len(s)]]
    BY <2>1 DEF Chained, IsNext
  <2>3. ASSUME nx[s[Len(s)]] # z PROVE FALSE
    <3>1. PICK k \in 1 .. Len(s) : s[k] = nx[s[Len(s)]]
      BY <2>2, <2>3, ListIs
    <3>2. Len(s) < k
      BY <2>1, <2>2, <2>3, <3>1, ListOrder
    <3> QED
      BY <1>1, <3>2
  <2> QED
    BY <2>3
<1>4. ASSUME Len(s) # 0 PROVE pv[s[1]] = z
  <2>1. 1 \in 1 .. Len(s) /\ s[1] \in L
    BY <1>1, <1>4
  <2>2. pv[s[1]] # z => pv[s[1]] \in L /\ nx[pv[s[1]]] = s[1]
    BY <2>1 DEF Chained
  <2>3. ASSUME pv[s[1]] # z PROVE FALSE
    <3>1. PICK k \in 1 .. Len(s) : s[k] = pv[s[1]]
      BY <2>2, <2>3, ListIs
    <3>2. nx[s[k]] = s[1] /\ s[k] \in L
      BY <2>2, <2>3, <3>1
    <3>3. s[1] \in R[s[k]]
      BY <2>1, <3>2 DEF Chained, IsNext
    <3>4. k < 1
      BY <2>1, <3>3, ListOrder
    <3> QED
      BY <1>1, <3>4
  <2> QED
    BY <2>3
<1>5. ASSUME NEW i \in 1 .. Len(s)
      PROVE  /\ nx[s[i]] = IF i = Len(s) THEN z ELSE s[i + 1]
             /\ pv[s[i]] = IF i = 1 THEN z ELSE s[i - 1]
  <2>1. i # Len(s) => i \in 1 .. Len(s) - 1
    BY <1>1
  <2>2. i # 1 => i - 1 \in 1 .. Len(s) - 1 /\ (i - 1) + 1 = i
    BY <1>1
  <2>3. Len(s) # 0
    BY <1>1
  <2>4. nx[s[i]] = IF i = Len(s) THEN z ELSE s[i + 1]
    BY <1>2, <1>3, <2>1, <2>3
  <2>5. pv[s[i]] = IF i = 1 THEN z ELSE s[i - 1]
    BY <1>2, <1>4, <2>2, <2>3
  <2> QED
    BY <2>4, <2>5
<1> QED
  BY <1>5 DEF LinkedList

-----------------------------------------------------------------------------
(* Keys between the nodes of a row                                         *)

Lesser(a, b) == IF a <= b THEN a ELSE b
Greater(a, b) == IF a <= b THEN b ELSE a

\* Each of the keys ks is what up says of the node of cs before it, and no more
\* than what lo says of the node behind it; b and m bound the row.
Row(ks, cs, lo, up, b, m) ==
  /\ Len(cs) = Len(ks) + 1
  /\ b <= lo[cs[1]] /\ m = up[cs[Len(cs)]]
  /\ \A i \in 1 .. Len(ks) : ks[i] = up[cs[i]] /\ ks[i] <= lo[cs[i + 1]]

Bounds(N, lo, up) == lo \in [N -> Int] /\ up \in [N -> Int]
Spanned(cs, lo, up) == \A i \in 1 .. Len(cs) : lo[cs[i]] <= up[cs[i]]

\* From left to right the bounds grow.
LEMMA RowGrows ==
  ASSUME NEW N, NEW K, NEW ks \in Seq(K), NEW cs \in Seq(N), NEW lo, NEW up, Bounds(N, lo, up),
         Spanned(cs, lo, up), NEW b \in Int, NEW m, Row(ks, cs, lo, up, b, m)
  PROVE  /\ \A i, j \in 1 .. Len(cs) : i < j => up[cs[i]] <= lo[cs[j]]
         /\ \A i \in 1 .. Len(cs) : b <= lo[cs[i]] /\ up[cs[i]] <= m
         /\ b <= m /\ m \in Int
<1>1. Len(ks) \in Nat /\ Len(cs) = Len(ks) + 1 /\ \A i \in 1 .. Len(cs) : cs[i] \in N
  BY DEF Row
<1>2. \A i \in 1 .. Len(cs) : lo[cs[i]] \in Int /\ up[cs[i]] \in Int /\ lo[cs[i]] <= up[cs[i]]
  BY <1>1 DEF Bounds, Spanned
<1>3. \A i \in 1 .. Len(ks) : up[cs[i]] <= lo[cs[i + 1]]
  BY <1>1, <1>2 DEF Row
<1>4. ASSUME NEW i \in 1 .. Len(cs)
      PROVE  \A j \in 1 .. Len(cs) : i < j => up[cs[i]] <= lo[cs[j]]
  <2> DEFINE S == {j \in Nat : i < j => up[cs[i]] <= lo[cs[j]]}
  <2>1. 1 \in S
    OBVIOUS
  <2>2. ASSUME NEW j \in 1 .. Len(cs) - 1, j \in S
        PROVE  j + 1 \in S
    <3>1. j \in 1 .. Len(ks) /\ j + 1 \in 1 .. Len(cs) /\ j \in 1 .. Len(cs)
      BY <1>1
    <3>2. up[cs[j]] <= lo[cs[j + 1]] /\ lo[cs[j]] <= up[cs[j]]
      BY <3>1, <1>2, <1>3
    <3>3. i < j + 1 => i = j \/ i < j
      BY <3>1
    <3>4. lo[cs[j]] \in Int /\ up[cs[j]] \in Int /\ lo[cs[j + 1]] \in Int /\ up[cs[i]] \in Int
      BY <1>2, <3>1
    <3> QED
      BY <2>2, <3>1, <3>2, <3>3, <3>4
  <2> HIDE DEF S
  <2>3. \A j \in 1 .. Len(cs) : j \in S
    BY <1>1, <2>1, <2>2, RangeInduction, 1 \in Int, Len(cs) \in Int
  <2> QED
    BY <2>3 DEF S
<1>5. ASSUME NEW i \in 1 .. Len(cs)
      PROVE  b <= lo[cs[i]] /\ up[cs[i]] <= m
  <2>1. 1 \in 1 .. Len(cs) /\ Len(cs) \in 1 .. Len(cs)
    BY <1>1
  <2>2. b <= lo[cs[1]] /\ m = up[cs[Len(cs)]]
    BY DEF Row
  <2>3. /\ 1 < i => up[cs[1]] <= lo[cs[i]]
        /\ i < Len(cs) => up[cs[i]] <= lo[cs[Len(cs)]]
    BY <1>4, <2>1
  <2>4. /\ lo[cs[1]] <= up[cs[1]] /\ lo[cs[1]] \in Int /\ up[cs[1]] \in Int
        /\ lo[cs[i]] \in Int /\ up[cs[i]] \in Int
        /\ lo[cs[Len(cs)]] <= up[cs[Len(cs)]] /\ lo[cs[Len(cs)]] \in Int /\ up[cs[Len(cs)]] \in Int
    BY <1>2, <2>1
  <2>5. (i = 1 \/ 1 < i) /\ (i = Len(cs) \/ i < Len(cs))
    BY <1>1
  <2>6. b <= lo[cs[i]]
    BY <2>2, <2>3, <2>4, <2>5
  <2>7. up[cs[i]] <= m
    BY <2>2, <2>3, <2>4, <2>5
  <2> QED
    BY <2>6, <2>7
<1>6. b <= m /\ m \in Int
  <2>1. 1 \in 1 .. Len(cs) /\ Len(cs) \in 1 .. Len(cs)
    BY <1>1
  <2>2. b <= lo[cs[1]] /\ up[cs[1]] <= m /\ lo[cs[1]] <= up[cs[1]]
        /\ lo[cs[1]] \in Int /\ up[cs[1]] \in Int
    BY <2>1, <1>2, <1>5
  <2>3. m \in Int
    BY <2>1, <1>2 DEF Row
  <2> QED
    BY <2>2, <2>3
<1> QED
  BY <1>4, <1>5, <1>6

\* A row is cut at a key, and two rows are joined with the key between them.
LEMMA RowCut ==
  ASSUME NEW N, NEW K, NEW ks \in Seq(K), NEW cs \in Seq(N), NEW lo, NEW up, NEW b, NEW m,
         Row(ks, cs, lo, up, b, m),
         NEW lk \in Seq(K), NEW rk \in Seq(K), NEW u \in K, NEW lc \in Seq(N), NEW rc \in Seq(N),
         Joins(cs, lc, rc), Joins(ks, Append(lk, u), rk),
         Len(lc) = Len(lk) + 1, Len(rc) = Len(rk) + 1
  PROVE  Row(lk, lc, lo, up, b, u) /\ Row(rk, rc, lo, up, u, m)
<1>1. Len(lk) \in Nat /\ Len(rk) \in Nat /\ Len(Append(lk, u)) = Len(lk) + 1
      /\ Append(lk, u)[Len(lk) + 1] = u /\ \A i \in 1 .. Len(lk) : Append(lk, u)[i] = lk[i]
  OBVIOUS
<1>2. PICK h \in Seq(K) : h = Append(lk, u)
  BY AppendProperties
<1>3. /\ Len(h) = Len(lk) + 1 /\ h[Len(lk) + 1] = u /\ \A i \in 1 .. Len(lk) : h[i] = lk[i]
      /\ Joins(ks, h, rk)
  BY <1>1, <1>2
<1>4. /\ \A i \in 1 .. Len(lk) : ks[i] = lk[i]
      /\ ks[Len(lk) + 1] = u
      /\ \A i \in 1 .. Len(rk) : ks[i + (Len(lk) + 1)] = rk[i]
      /\ Len(ks) = (Len(lk) + 1) + Len(rk)
  BY <1>1, <1>3 DEF Joins
<1>5. /\ \A i \in 1 .. Len(lc) : cs[i] = lc[i]
      /\ \A i \in 1 .. Len(rc) : cs[i + (Len(lk) + 1)] = rc[i]
      /\ Len(cs) = Len(lc) + Len(rc)
  BY DEF Joins
<1>6. Row(lk, lc, lo, up, b, u)
  <2>1. Len(lk) + 1 \in 1 .. Len(ks) /\ Len(lk) + 1 \in 1 .. Len(lc) /\ 1 \in 1 .. Len(lc)
    BY <1>1, <1>4
  <2>2. b <= lo[lc[1]]
    BY <2>1, <1>5 DEF Row
  <2>3. u = up[lc[Len(lc)]]
    BY <2>1, <1>4, <1>5 DEF Row
  <2>4. ASSUME NEW i \in 1 .. Len(lk)
        PROVE  lk[i] = up[lc[i]] /\ lk[i] <= lo[lc[i + 1]]
    <3>1. i \in 1 .. Len(ks) /\ i \in 1 .. Len(lc) /\ i + 1 \in 1 .. Len(lc)
      BY <1>1, <1>4
    <3> QED
      BY <3>1, <1>4, <1>5 DEF Row
  <2> QED
    BY <2>2, <2>3, <2>4 DEF Row
<1>7. Row(rk, rc, lo, up, u, m)
  <2>1. Len(lk) + 1 \in 1 .. Len(ks) /\ Len(rc) \in 1 .. Len(rc) /\ 1 \in 1 .. Len(rc)
        /\ Len(rc) + (Len(lk) + 1) = Len(cs) /\ (Len(lk) + 1) + 1 = 1 + (Len(lk) + 1)
    BY <1>1, <1>4, <1>5
  <2>2. u <= lo[rc[1]]
    <3>1. cs[1 + (Len(lk) + 1)] = rc[1]
      BY <2>1, <1>5
    <3>2. ks[Len(lk) + 1] <= lo[cs[(Len(lk) + 1) + 1]]
      BY <2>1 DEF Row
    <3> QED
      BY <3>1, <3>2, <2>1, <1>4
  <2>3. m = up[rc[Len(rc)]]
    BY <2>1, <1>5 DEF Row
  <2>4. ASSUME NEW i \in 1 .. Len(rk)
        PROVE  rk[i] = up[rc[i]] /\ rk[i] <= lo[rc[i + 1]]
    <3>1. PICK k : k = i + (Len(lk) + 1)
      OBVIOUS
    <3>2. k \in 1 .. Len(ks) /\ i \in 1 .. Len(rc) /\ i + 1 \in 1 .. Len(rc)
          /\ (i + 1) + (Len(lk) + 1) = k + 1
      BY <1>1, <1>4, <3>1
    <3>3. ks[k] = rk[i] /\ cs[k] = rc[i] /\ cs[k + 1] = rc[i + 1]
      BY <1>4, <1>5, <3>1, <3>2
    <3> QED
      BY <3>2, <3>3 DEF Row
  <2> QED
    BY <2>2, <2>3, <2>4 DEF Row
<1> QED
  BY <1>6, <1>7

LEMMA RowJoin ==
  ASSUME NEW N, NEW K, NEW ks \in Seq(K), NEW cs \in Seq(N), NEW lo, NEW up, Bounds(N, lo, up),
         NEW lk \in Seq(K), NEW rk \in Seq(K), NEW u \in K, NEW lc \in Seq(N), NEW rc \in Seq(N),
         NEW b, NEW m, NEW v \in Int,
         Row(lk, lc, lo, up, b, u), Row(rk, rc, lo, up, v, m), u <= v,
         Joins(cs, lc, rc), Joins(ks, Append(lk, u), rk)
  PROVE  Row(ks, cs, lo, up, b, m)
<1>1. /\ Len(lk) \in Nat /\ Len(rk) \in Nat /\ Len(Append(lk, u)) = Len(lk) + 1
      /\ Append(lk, u)[Len(lk) + 1] = u /\ \A i \in 1 .. Len(lk) : Append(lk, u)[i] = lk[i]
      /\ Len(lc) = Len(lk) + 1 /\ Len(rc) = Len(rk) + 1
  BY DEF Row
<1>2. PICK h \in Seq(K) : h = Append(lk, u)
  BY AppendProperties
<1>3. /\ Len(h) = Len(lk) + 1 /\ h[Len(lk) + 1] = u /\ \A i \in 1 .. Len(lk) : h[i] = lk[i]
      /\ Joins(ks, h, rk)
  BY <1>1, <1>2
<1>4. /\ \A i \in 1 .. Len(lk) : ks[i] = lk[i]
      /\ ks[Len(lk) + 1] = u
      /\ \A i \in 1 .. Len(rk) : ks[i + (Len(lk) + 1)] = rk[i]
      /\ Len(ks) = (Len(lk) + 1) + Len(rk)
  BY <1>1, <1>3 DEF Joins
<1>11. /\ \A i \in 1 .. Len(lc) : cs[i] = lc[i]
       /\ \A i \in 1 .. Len(rc) : cs[i + Len(lc)] = rc[i]
       /\ Len(cs) = Len(lc) + Len(rc)
  BY DEF Joins
<1>12. Len(lc) = Len(lk) + 1
  BY <1>1
<1>5. /\ \A i \in 1 .. Len(lc) : cs[i] = lc[i]
      /\ \A i \in 1 .. Len(rc) : cs[i + (Len(lk) + 1)] = rc[i]
      /\ Len(cs) = Len(lc) + Len(rc)
  BY <1>11, <1>12
<1>9. PICK p, q \in Nat : p = Len(lk) /\ q = Len(rk)
  BY <1>1
<1>13. Len(lc) = p + 1 /\ Len(rc) = q + 1 /\ Len(ks) = (p + 1) + q
  BY <1>1, <1>4, <1>9
<1>10. /\ Len(lc) = p + 1 /\ Len(rc) = q + 1 /\ Len(ks) = (p + 1) + q /\ Len(cs) = (p + 1) + (q + 1)
       /\ Len(cs) = Len(ks) + 1
  BY <1>13, <1>11
<1>6. b <= lo[cs[1]]
  <2>1. 1 \in 1 .. Len(lc)
    BY <1>10
  <2> QED
    BY <2>1, <1>5 DEF Row
<1>7. m = up[cs[Len(cs)]]
  <2>1. Len(rc) \in 1 .. Len(rc) /\ Len(rc) + (Len(lk) + 1) = Len(cs)
    BY <1>9, <1>10
  <2> QED
    BY <2>1, <1>5 DEF Row
<1>8. ASSUME NEW i \in 1 .. Len(ks)
      PROVE  ks[i] = up[cs[i]] /\ ks[i] <= lo[cs[i + 1]]
  <2>1. CASE i <= Len(lk)
    <3>1. i \in 1 .. Len(lk) /\ i \in 1 .. Len(lc) /\ i + 1 \in 1 .. Len(lc)
      BY <2>1, <1>1
    <3> QED
      BY <3>1, <1>4, <1>5 DEF Row
  <2>2. CASE i = Len(lk) + 1
    <3>1. Len(lc) \in 1 .. Len(lc) /\ i = Len(lc) /\ 1 \in 1 .. Len(rc) /\ i + 1 = 1 + (Len(lk) + 1)
      BY <2>2, <1>9, <1>10
    <3>2. ks[i] = u /\ cs[i] = lc[Len(lc)] /\ cs[i + 1] = rc[1]
      BY <3>1, <2>2, <1>4, <1>5
    <3>3. u = up[lc[Len(lc)]] /\ v <= lo[rc[1]]
      BY DEF Row
    <3>4. u \in Int /\ lo[rc[1]] \in Int
      <4>1. lc[Len(lc)] \in N /\ rc[1] \in N
        BY <3>1
      <4> QED
        BY <4>1, <3>3 DEF Bounds
    <3>5. u <= lo[rc[1]]
      BY <3>3, <3>4
    <3> QED
      BY <3>2, <3>3, <3>5
  <2>3. CASE i > Len(lk) + 1
    <3>1. PICK k : k = i - (Len(lk) + 1)
      OBVIOUS
    <3>2. k \in 1 .. Len(rk) /\ k \in 1 .. Len(rc) /\ k + 1 \in 1 .. Len(rc)
          /\ k + (Len(lk) + 1) = i /\ (k + 1) + (Len(lk) + 1) = i + 1
      BY <2>3, <3>1, <1>9, <1>10
    <3>3. ks[i] = rk[k] /\ cs[i] = rc[k] /\ cs[i + 1] = rc[k + 1]
      BY <1>4, <1>5, <3>2
    <3> QED
      BY <3>2, <3>3 DEF Row
  <2>4. i <= Len(lk) \/ i = Len(lk) + 1 \/ i > Len(lk) + 1
    BY <1>1
  <2> QED
    BY <2>1, <2>2, <2>3, <2>4
<1> QED
  BY <1>10, <1>6, <1>7, <1>8 DEF Row

PutBounds(cs, s, x, key, lo, up, lp, uq) ==
  /\ \A i \in 1 .. Len(cs) : lp[cs[i]] = lo[cs[i]]
  /\ \A i \in 1 .. Len(cs) : i # s => uq[cs[i]] = up[cs[i]]
  /\ uq[cs[s]] = key /\ key <= lp[x] /\ uq[x] = up[cs[s]]

\* A node x comes behind node s, which keeps what is below key.
LEMMA RowPut ==
  ASSUME NEW N, NEW K, NEW ks \in Seq(K), NEW cs \in Seq(N), NEW lo, NEW up, NEW b, NEW m,
         Row(ks, cs, lo, up, b, m), NEW s \in 1 .. Len(cs), NEW x, NEW key,
         NEW kt \in Seq(K), Inserted(ks, kt, s, key), NEW ct \in Seq(N), Inserted(cs, ct, s + 1, x),
         NEW lp, NEW uq, PutBounds(cs, s, x, key, lo, up, lp, uq)
  PROVE  Row(kt, ct, lp, uq, b, m)
<1>a. /\ \A i \in 1 .. Len(cs) : lp[cs[i]] = lo[cs[i]]
      /\ \A i \in 1 .. Len(cs) : i # s => uq[cs[i]] = up[cs[i]]
      /\ uq[cs[s]] = key /\ key <= lp[x] /\ uq[x] = up[cs[s]]
  BY DEF PutBounds
<1>1. PICK n \in Nat : n = Len(ks)
  OBVIOUS
<1>2. Len(cs) = n + 1 /\ Len(kt) = n + 1 /\ Len(ct) = n + 2 /\ s \in 1 .. n + 1
  BY <1>1 DEF Row, Inserted
<1>3. /\ \A i \in 1 .. s - 1 : kt[i] = ks[i]
      /\ kt[s] = key
      /\ \A i \in s .. n : kt[i + 1] = ks[i]
  BY <1>1, <1>2 DEF Inserted
<1>4. /\ \A i \in 1 .. s : ct[i] = cs[i]
      /\ ct[s + 1] = x
      /\ \A i \in s + 1 .. n + 1 : ct[i + 1] = cs[i]
  BY <1>2 DEF Inserted
<1>5. \A i \in 1 .. n : ks[i] = up[cs[i]] /\ ks[i] <= lo[cs[i + 1]]
  BY <1>1 DEF Row
<1>6. b <= lo[cs[1]] /\ m = up[cs[n + 1]]
  BY <1>2 DEF Row
<1>7. b <= lp[ct[1]]
  BY <1>a, <1>2, <1>4, <1>6
<1>8. m = uq[ct[n + 2]]
  <2>1. CASE s = n + 1
    BY <1>a, <2>1, <1>4, <1>6
  <2>2. CASE s # n + 1
    <3>1. n + 1 \in s + 1 .. n + 1 /\ n + 1 \in 1 .. Len(cs) /\ (n + 1) + 1 = n + 2
      BY <2>2, <1>2
    <3> QED
      BY <1>a, <3>1, <2>2, <1>4, <1>6
  <2> QED
    BY <2>1, <2>2
<1>9. ASSUME NEW i \in 1 .. n + 1
      PROVE  kt[i] = uq[ct[i]] /\ kt[i] <= lp[ct[i + 1]]
  <2>1. CASE i < s
    <3>1. i \in 1 .. s - 1 /\ i \in 1 .. s /\ i + 1 \in 1 .. s /\ i \in 1 .. n /\ i # s
          /\ i \in 1 .. Len(cs) /\ i + 1 \in 1 .. Len(cs)
      BY <2>1, <1>2
    <3> QED
      BY <1>a, <3>1, <1>3, <1>4, <1>5
  <2>2. CASE i = s
    <3>1. s \in 1 .. s
      BY <1>2
    <3> QED
      BY <1>a, <3>1, <2>2, <1>3, <1>4
  <2>3. CASE i = s + 1
    <3>1. s \in s .. n /\ s \in 1 .. n /\ s + 1 \in s + 1 .. n + 1 /\ s + 1 \in 1 .. Len(cs)
      BY <2>3, <1>2
    <3>2. kt[i] = ks[s] /\ ct[i] = x /\ ct[i + 1] = cs[s + 1]
      BY <3>1, <2>3, <1>3, <1>4
    <3> QED
      BY <1>a, <3>1, <3>2, <1>5
  <2>4. CASE i > s + 1
    <3>1. PICK k : k = i - 1
      OBVIOUS
    <3>2. k \in s .. n /\ k \in s + 1 .. n + 1 /\ k + 1 \in s + 1 .. n + 1 /\ k \in 1 .. n
          /\ k \in 1 .. Len(cs) /\ k + 1 \in 1 .. Len(cs) /\ k # s /\ k + 1 = i
      BY <2>4, <3>1, <1>2
    <3>3. kt[i] = ks[k] /\ ct[i] = cs[k] /\ ct[i + 1] = cs[k + 1]
      BY <3>2, <1>3, <1>4
    <3> QED
      BY <1>a, <3>2, <3>3, <1>5
  <2>5. i < s \/ i = s \/ i = s + 1 \/ i > s + 1
    BY <1>2
  <2> QED
    BY <2>1, <2>2, <2>3, <2>4, <2>5
<1>10. Len(ct) = Len(kt) + 1 /\ Len(kt) = n + 1 /\ Len(ct) = n + 2
  BY <1>2
<1> QED
  BY <1>7, <1>8, <1>9, <1>10 DEF Row

\* The node behind node s goes; node s is taken for it.
PruneBounds(cs, s, x, up, uq) ==
  /\ \A i \in 1 .. Len(cs) : i # s => uq[cs[i]] = up[cs[i]]
  /\ uq[cs[s]] = up[x]

LEMMA RowPrune ==
  ASSUME NEW N, NEW K, NEW ks \in Seq(K), NEW cs \in Seq(N), NEW lo, NEW up, NEW b, NEW m,
         Row(ks, cs, lo, up, b, m), NEW s \in 1 .. Len(ks), NEW x, NEW k,
         NEW kt \in Seq(K), Inserted(kt, ks, s, k), NEW ct \in Seq(N), Inserted(ct, cs, s + 1, x),
         NEW uq, PruneBounds(cs, s, x, up, uq)
  PROVE  Row(kt, ct, lo, uq, b, m)
<1>0. /\ \A i \in 1 .. Len(cs) : i # s => uq[cs[i]] = up[cs[i]]
      /\ uq[cs[s]] = up[x]
  BY DEF PruneBounds
<1>1. PICK n \in Nat : n = Len(kt)
  OBVIOUS
<1>2. Len(ks) = n + 1 /\ Len(cs) = n + 2 /\ Len(ct) = n + 1 /\ s \in 1 .. n + 1
  <2>1. Len(ct) \in Nat
    OBVIOUS
  <2> QED
    BY <1>1, <2>1 DEF Row, Inserted
<1>3. /\ \A i \in 1 .. s - 1 : ks[i] = kt[i]
      /\ \A i \in s .. n : ks[i + 1] = kt[i]
  BY <1>1, <1>2 DEF Inserted
<1>4. /\ \A i \in 1 .. s : cs[i] = ct[i]
      /\ cs[s + 1] = x
      /\ \A i \in s + 1 .. n + 1 : cs[i + 1] = ct[i]
  BY <1>2 DEF Inserted
<1>5. \A i \in 1 .. n + 1 : ks[i] = up[cs[i]] /\ ks[i] <= lo[cs[i + 1]]
  BY <1>2 DEF Row
<1>6. b <= lo[cs[1]] /\ m = up[cs[n + 2]]
  BY <1>2 DEF Row
<1>7. b <= lo[ct[1]]
  BY <1>2, <1>4, <1>6
<1>8. m = uq[ct[n + 1]]
  <2>1. CASE s = n + 1
    BY <1>0, <2>1, <1>2, <1>4, <1>6
  <2>2. CASE s # n + 1
    <3>1. n + 1 \in s + 1 .. n + 1 /\ n + 2 \in 1 .. Len(cs) /\ (n + 1) + 1 = n + 2 /\ n + 2 # s
      BY <2>2, <1>2
    <3> QED
      BY <1>0, <3>1, <1>4, <1>6
  <2> QED
    BY <2>1, <2>2
<1>9. ASSUME NEW i \in 1 .. n
      PROVE  kt[i] = uq[ct[i]] /\ kt[i] <= lo[ct[i + 1]]
  <2>1. CASE i < s
    <3>1. i \in 1 .. s - 1 /\ i \in 1 .. s /\ i + 1 \in 1 .. s /\ i \in 1 .. n + 1 /\ i # s
          /\ i \in 1 .. Len(cs)
      BY <2>1, <1>2
    <3> QED
      BY <1>0, <3>1, <1>3, <1>4, <1>5
  <2>2. CASE i = s
    <3>1. s \in s .. n /\ s \in 1 .. s /\ s + 1 \in s + 1 .. n + 1 /\ s + 1 \in 1 .. n + 1
      BY <2>2, <1>2
    <3>2. kt[s] = ks[s + 1] /\ ct[s] = cs[s] /\ ct[s + 1] = cs[(s + 1) + 1]
      BY <3>1, <1>3, <1>4
    <3>3. ks[s + 1] = up[cs[s + 1]] /\ ks[s + 1] <= lo[cs[(s + 1) + 1]]
      BY <3>1, <1>5
    <3> QED
      BY <1>0, <2>2, <3>2, <3>3, <1>4
  <2>3. CASE i > s
    <3>1. i \in s .. n /\ i \in s + 1 .. n + 1 /\ i + 1 \in s + 1 .. n + 1 /\ i + 1 \in 1 .. n + 1
          /\ i + 1 \in 1 .. Len(cs) /\ i + 1 # s
      BY <2>3, <1>2
    <3>2. kt[i] = ks[i + 1] /\ ct[i] = cs[i + 1] /\ ct[i + 1] = cs[(i + 1) + 1]
      BY <3>1, <1>3, <1>4
    <3> QED
      BY <1>0, <3>1, <3>2, <1>5
  <2>4. i < s \/ i = s \/ i > s
    BY <1>2
  <2> QED
    BY <2>1, <2>2, <2>3, <2>4
<1>10. Len(ct) = Len(kt) + 1 /\ Len(kt) = n /\ Len(ct) = n + 1
  BY <1>1, <1>2
<1> QED
  BY <1>7, <1>8, <1>9, <1>10 DEF Row

\* The bound between nodes s and s + 1 becomes u.
SetBounds(ks, kt, cs, s, u, lo, up, lp, uq) ==
  /\ Len(kt) = Len(ks) /\ kt[s] = u
  /\ \A i \in 1 .. Len(ks) : i # s => kt[i] = ks[i]
  /\ \A i \in 1 .. Len(cs) : i # s + 1 => lp[cs[i]] = lo[cs[i]]
  /\ \A i \in 1 .. Len(cs) : i # s => uq[cs[i]] = up[cs[i]]
  /\ uq[cs[s]] = u /\ u <= lp[cs[s + 1]]

LEMMA RowSet ==
  ASSUME NEW N, NEW K, NEW ks \in Seq(K), NEW cs \in Seq(N), NEW lo, NEW up, NEW b, NEW m,
         Row(ks, cs, lo, up, b, m), NEW s \in 1 .. Len(ks), NEW u, NEW kt,
         NEW lp, NEW uq, SetBounds(ks, kt, cs, s, u, lo, up, lp, uq)
  PROVE  Row(kt, cs, lp, uq, b, m)
<1>0. /\ Len(kt) = Len(ks) /\ kt[s] = u
      /\ \A i \in 1 .. Len(ks) : i # s => kt[i] = ks[i]
      /\ \A i \in 1 .. Len(cs) : i # s + 1 => lp[cs[i]] = lo[cs[i]]
      /\ \A i \in 1 .. Len(cs) : i # s => uq[cs[i]] = up[cs[i]]
      /\ uq[cs[s]] = u /\ u <= lp[cs[s + 1]]
  BY DEF SetBounds
<1>1. PICK n \in Nat : n = Len(ks)
  OBVIOUS
<1>2. Len(cs) = n + 1 /\ s \in 1 .. n
  BY <1>1 DEF Row
<1>3. b <= lp[cs[1]] /\ m = uq[cs[n + 1]]
  <2>1. 1 \in 1 .. Len(cs) /\ n + 1 \in 1 .. Len(cs) /\ 1 # s + 1 /\ n + 1 # s
    BY <1>2
  <2> QED
    BY <1>0, <2>1, <1>2 DEF Row
<1>4. ASSUME NEW i \in 1 .. n
      PROVE  kt[i] = uq[cs[i]] /\ kt[i] <= lp[cs[i + 1]]
  <2>1. CASE i = s
    BY <1>0, <2>1
  <2>2. CASE i # s
    <3>1. i \in 1 .. Len(ks) /\ i \in 1 .. Len(cs) /\ i + 1 \in 1 .. Len(cs) /\ i + 1 # s + 1
      BY <2>2, <1>1, <1>2
    <3> QED
      BY <1>0, <3>1, <2>2 DEF Row
  <2> QED
    BY <2>1, <2>2
<1> QED
  BY <1>0, <1>1, <1>2, <1>3, <1>4 DEF Row

\* Bounds may change elsewhere, and that of the last node with that of the row.
EndBounds(cs, v, w, lo, up, lp, uq) ==
  /\ \A i \in 1 .. Len(cs) : i # 1 => lp[cs[i]] = lo[cs[i]]
  /\ \A i \in 1 .. Len(cs) : i # Len(cs) => uq[cs[i]] = up[cs[i]]
  /\ v <= lp[cs[1]] /\ w = uq[cs[Len(cs)]]

LEMMA RowSame ==
  ASSUME NEW ks, NEW cs, NEW lo, NEW up, NEW b, NEW m, Row(ks, cs, lo, up, b, m),
         Len(ks) \in Nat, NEW lp, NEW uq, NEW v, NEW w, EndBounds(cs, v, w, lo, up, lp, uq)
  PROVE  Row(ks, cs, lp, uq, v, w)
<1>0. /\ \A i \in 1 .. Len(cs) : i # 1 => lp[cs[i]] = lo[cs[i]]
      /\ \A i \in 1 .. Len(cs) : i # Len(cs) => uq[cs[i]] = up[cs[i]]
      /\ v <= lp[cs[1]] /\ w = uq[cs[Len(cs)]]
  BY DEF EndBounds
<1>1. PICK n \in Nat : n = Len(ks)
  OBVIOUS
<1>2. Len(cs) = n + 1
  BY <1>1 DEF Row
<1>3. ASSUME NEW i \in 1 .. n
      PROVE  ks[i] = uq[cs[i]] /\ ks[i] <= lp[cs[i + 1]]
  <2>1. i \in 1 .. Len(ks) /\ i \in 1 .. Len(cs) /\ i # Len(cs) /\ i + 1 \in 1 .. Len(cs) /\ i + 1 # 1
    BY <1>1, <1>2
  <2> QED
    BY <1>0, <2>1 DEF Row
<1> QED
  BY <1>0, <1>1, <1>2, <1>3 DEF Row

\* The same with what is known of the bounds in one word.
SameBounds(cs, lo, up, lp, uq) ==
  \A i \in 1 .. Len(cs) : lp[cs[i]] = lo[cs[i]] /\ uq[cs[i]] = up[cs[i]]

LEMMA RowKept ==
  ASSUME NEW ks, NEW cs, NEW lo, NEW up, NEW b, NEW m, Row(ks, cs, lo, up, b, m),
         Len(ks) \in Nat, NEW lp, NEW uq, SameBounds(cs, lo, up, lp, uq)
  PROVE  Row(ks, cs, lp, uq, b, m)
<1>1. Len(cs) = Len(ks) + 1 /\ b <= lo[cs[1]] /\ m = up[cs[Len(cs)]]
  BY DEF Row
<1>2. \A i \in 1 .. Len(ks) : ks[i] = up[cs[i]] /\ ks[i] <= lo[cs[i + 1]]
  BY DEF Row
<1>3. \A i \in 1 .. Len(cs) : lp[cs[i]] = lo[cs[i]] /\ uq[cs[i]] = up[cs[i]]
  BY DEF SameBounds
<1>4. 1 \in 1 .. Len(cs) /\ Len(cs) \in 1 .. Len(cs)
  BY <1>1
<1>5. \A i \in 1 .. Len(ks) : i \in 1 .. Len(cs) /\ i + 1 \in 1 .. Len(cs)
  BY <1>1
<1>6. b <= lp[cs[1]] /\ m = uq[cs[Len(cs)]]
  BY <1>1, <1>3, <1>4
<1>7. \A i \in 1 .. Len(ks) : ks[i] = uq[cs[i]] /\ ks[i] <= lp[cs[i + 1]]
  BY <1>2, <1>3, <1>5
<1> QED
  BY <1>1, <1>6, <1>7 DEF Row

-----------------------------------------------------------------------------
(* Runs: elements in the order of their keys                               *)

\* The keys of s grow, from b at least to m.
Run(s, b, m) ==
  /\ \A i, j \in 1 .. Len(s) : i < j => s[i].key <= s[j].key
  /\ s # <<>> => b <= s[1].key /\ m = s[Len(s)].key

HasKeys(P) == \A x \in P : x.key \in Int

LEMMA RunIs ==
  ASSUME NEW P, HasKeys(P), NEW s \in Seq(P), s # <<>>, NEW b \in Int, NEW m, Run(s, b, m)
  PROVE  /\ Len(s) \in Nat /\ Len(s) >= 1 /\ m \in Int /\ b <= m
         /\ \A i \in 1 .. Len(s) : s[i].key \in Int /\ b <= s[i].key /\ s[i].key <= m
<1>1. Len(s) \in Nat /\ Len(s) >= 1 /\ \A i \in 1 .. Len(s) : s[i] \in P
  BY EmptySeq
<1>2. \A i \in 1 .. Len(s) : s[i].key \in Int
  BY <1>1 DEF HasKeys
<1>3. 1 \in 1 .. Len(s) /\ Len(s) \in 1 .. Len(s)
  BY <1>1
<1>4. b <= s[1].key /\ m = s[Len(s)].key
  BY DEF Run
<1>5. ASSUME NEW i \in 1 .. Len(s)
      PROVE  b <= s[i].key /\ s[i].key <= m
  <2>1. (i = 1 \/ 1 < i) /\ (i = Len(s) \/ i < Len(s))
    BY <1>1
  <2>2. (1 < i => s[1].key <= s[i].key) /\ (i < Len(s) => s[i].key <= s[Len(s)].key)
    BY <1>3 DEF Run
  <2>3. s[i].key \in Int /\ s[1].key \in Int /\ s[Len(s)].key \in Int
    BY <1>2, <1>3
  <2> QED
    BY <2>1, <2>2, <2>3, <1>4
<1> QED
  BY <1>1, <1>2, <1>3, <1>4, <1>5

\* An element is put where its key belongs.
LEMMA RunPut ==
  ASSUME NEW P, HasKeys(P), NEW s \in Seq(P), NEW b \in Int, NEW m \in Int, Run(s, b, m),
         NEW x \in P, NEW t \in Seq(P), NEW i, Inserted(s, t, i, x),
         i > 1 => s[i - 1].key <= x.key, i <= Len(s) => x.key <= s[i].key, s = <<>> => m <= x.key
  PROVE  Run(t, Lesser(b, x.key), Greater(m, x.key))
<1>1. PICK n \in Nat : n = Len(s)
  OBVIOUS
<1>2. Len(t) = n + 1 /\ i \in 1 .. n + 1 /\ t[i] = x /\ x.key \in Int
  BY <1>1 DEF Inserted, HasKeys
<1>3. /\ \A j \in 1 .. i - 1 : t[j] = s[j]
      /\ \A j \in i + 1 .. n + 1 : t[j] = s[j - 1]
  <2>1. \A j \in 1 .. i - 1 : t[j] = s[j]
    BY DEF Inserted
  <2>2. ASSUME NEW j \in i + 1 .. n + 1
        PROVE  t[j] = s[j - 1]
    <3>1. PICK k : k = j - 1
      OBVIOUS
    <3>2. k \in i .. Len(s) /\ k + 1 = j
      BY <1>1, <1>2, <3>1
    <3> QED
      BY <3>1, <3>2 DEF Inserted
  <2> QED
    BY <2>1, <2>2
<1>4. \A j \in 1 .. n : s[j].key \in Int
  BY <1>1 DEF HasKeys
<1>5. \A j, k \in 1 .. n : j <= k => s[j].key <= s[k].key
  <2>1. TAKE j, k \in 1 .. n
  <2>2. HAVE j <= k
  <2>3. j = k \/ j < k
    BY <2>2
  <2> QED
    BY <2>3, <1>1, <1>4 DEF Run
<1>6. \A j \in 1 .. i - 1 : s[j].key <= x.key
  <2>1. TAKE j \in 1 .. i - 1
  <2>2. j \in 1 .. n /\ i - 1 \in 1 .. n /\ j <= i - 1 /\ i > 1
    BY <1>2
  <2>3. s[j].key <= s[i - 1].key /\ s[i - 1].key <= x.key
    BY <2>2, <1>5
  <2> QED
    BY <2>2, <2>3, <1>2, <1>4
<1>7. \A j \in i .. n : x.key <= s[j].key
  <2>1. TAKE j \in i .. n
  <2>2. j \in 1 .. n /\ i \in 1 .. n /\ i <= j /\ i <= Len(s)
    BY <1>1, <1>2
  <2>3. s[i].key <= s[j].key /\ x.key <= s[i].key
    BY <2>2, <1>5
  <2> QED
    BY <2>2, <2>3, <1>2, <1>4
<1>8. ASSUME NEW j \in 1 .. Len(t), NEW k \in 1 .. Len(t), j < k
      PROVE  t[j].key <= t[k].key
  <2>1. CASE j < i /\ k < i
    <3>1. j \in 1 .. i - 1 /\ k \in 1 .. i - 1 /\ j \in 1 .. n /\ k \in 1 .. n
      BY <2>1, <1>2
    <3> QED
      BY <3>1, <1>3, <1>5, <1>8
  <2>2. CASE j < i /\ k = i
    <3>1. j \in 1 .. i - 1
      BY <2>2, <1>2
    <3> QED
      BY <3>1, <2>2, <1>2, <1>3, <1>6
  <2>3. CASE j < i /\ k > i
    <3>1. j \in 1 .. i - 1 /\ k \in i + 1 .. n + 1 /\ j \in 1 .. n /\ k - 1 \in 1 .. n /\ j <= k - 1
      BY <2>3, <1>2
    <3> QED
      BY <3>1, <1>3, <1>5
  <2>4. CASE j = i /\ k > i
    <3>1. k \in i + 1 .. n + 1 /\ k - 1 \in i .. n
      BY <2>4, <1>2
    <3> QED
      BY <3>1, <2>4, <1>2, <1>3, <1>7
  <2>5. CASE j > i /\ k > i
    <3>1. j \in i + 1 .. n + 1 /\ k \in i + 1 .. n + 1 /\ j - 1 \in 1 .. n /\ k - 1 \in 1 .. n
          /\ j - 1 <= k - 1
      BY <2>5, <1>2, <1>8
    <3> QED
      BY <3>1, <1>3, <1>5
  <2>6. \/ j < i /\ k < i
        \/ j < i /\ k = i
        \/ j < i /\ k > i
        \/ j = i /\ k > i
        \/ j > i /\ k > i
    BY <1>2, <1>8
  <2> QED
    BY <2>1, <2>2, <2>3, <2>4, <2>5, <2>6
<1>9. n > 0 => s # <<>> /\ b <= s[1].key /\ m = s[n].key
  BY <1>1 DEF Run
<1>10. Lesser(b, x.key) <= t[1].key
  <2>1. CASE i = 1
    BY <2>1, <1>2 DEF Lesser
  <2>2. CASE i # 1
    <3>1. 1 \in 1 .. i - 1 /\ n > 0 /\ 1 \in 1 .. n
      BY <2>2, <1>2
    <3>2. t[1] = s[1] /\ b <= s[1].key /\ s[1].key \in Int
      BY <3>1, <1>3, <1>4, <1>9
    <3> QED
      BY <3>2, <1>2 DEF Lesser
  <2> QED
    BY <2>1, <2>2
<1>11. Greater(m, x.key) = t[n + 1].key
  <2>1. CASE i = n + 1
    <3>1. m <= x.key
      <4>1. CASE n = 0
        <5>1. s = <<>>
          BY <4>1, <1>1, EmptySeq
        <5> QED
          BY <5>1
      <4>2. CASE n # 0
        <5>1. n \in 1 .. i - 1 /\ n > 0
          BY <4>2, <2>1
        <5> QED
          BY <5>1, <1>6, <1>9
      <4> QED
        BY <4>1, <4>2
    <3>2. m = x.key \/ ~(m <= x.key) \/ (m <= x.key)
      OBVIOUS
    <3> QED
      BY <3>1, <2>1, <1>2 DEF Greater
  <2>2. CASE i # n + 1
    <3>1. n + 1 \in i + 1 .. n + 1 /\ n \in i .. n /\ n > 0 /\ (n + 1) - 1 = n
      BY <2>2, <1>2
    <3>2. t[n + 1] = s[n] /\ m = s[n].key /\ x.key <= m
      BY <3>1, <1>3, <1>7, <1>9
    <3> QED
      BY <3>2, <1>2 DEF Greater
  <2> QED
    BY <2>1, <2>2
<1> QED
  BY <1>2, <1>8, <1>10, <1>11 DEF Run

\* A run in two parts, and two runs as one.
LEMMA RunCut ==
  ASSUME NEW P, HasKeys(P), NEW t \in Seq(P), NEW b, NEW m, Run(t, b, m),
         NEW l \in Seq(P), NEW r \in Seq(P), l # <<>>, r # <<>>, Joins(t, l, r)
  PROVE  Run(l, b, l[Len(l)].key) /\ Run(r, l[Len(l)].key, m)
<1>1. PICK p, q \in Nat : p = Len(l) /\ q = Len(r)
  OBVIOUS
<1>2. p >= 1 /\ q >= 1 /\ Len(t) = p + q /\ t # <<>>
  BY <1>1, EmptySeq DEF Joins
<1>3. /\ \A j \in 1 .. p : t[j] = l[j]
      /\ \A j \in 1 .. q : t[j + p] = r[j]
  BY <1>1 DEF Joins
<1>4. \A i, j \in 1 .. p + q : i < j => t[i].key <= t[j].key
  BY <1>2 DEF Run
<1>5. b <= t[1].key /\ m = t[p + q].key
  BY <1>2 DEF Run
<1>6. Run(l, b, l[p].key)
  <2>1. \A i, j \in 1 .. p : i < j => l[i].key <= l[j].key
    <3>1. \A i \in 1 .. p : i \in 1 .. p + q
      BY <1>2
    <3> QED
      BY <3>1, <1>3, <1>4
  <2>2. b <= l[1].key
    BY <1>2, <1>3, <1>5
  <2> QED
    BY <2>1, <2>2, <1>1 DEF Run
<1>7. Run(r, l[p].key, m)
  <2>1. ASSUME NEW i \in 1 .. q, NEW j \in 1 .. q, i < j
        PROVE  r[i].key <= r[j].key
    <3>1. i + p \in 1 .. p + q /\ j + p \in 1 .. p + q /\ i + p < j + p
      BY <2>1
    <3> QED
      BY <3>1, <1>3, <1>4
  <2>2. l[p].key <= r[1].key
    <3>1. p \in 1 .. p + q /\ p + 1 \in 1 .. p + q /\ p < p + 1 /\ 1 \in 1 .. q /\ p \in 1 .. p /\ 1 + p = p + 1
      BY <1>2
    <3>2. t[p] = l[p] /\ t[1 + p] = r[1]
      BY <3>1, <1>3
    <3> QED
      BY <3>1, <3>2, <1>4
  <2>3. m = r[q].key
    <3>1. q \in 1 .. q /\ q + p = p + q
      BY <1>2
    <3> QED
      BY <3>1, <1>3, <1>5
  <2> QED
    BY <2>1, <2>2, <2>3, <1>1 DEF Run
<1> QED
  BY <1>1, <1>6, <1>7

LEMMA RunJoin ==
  ASSUME NEW P, HasKeys(P), NEW t \in Seq(P), NEW b \in Int, NEW m \in Int,
         NEW l \in Seq(P), NEW r \in Seq(P), l # <<>>, r # <<>>, Joins(t, l, r),
         NEW u \in Int, NEW v \in Int, u <= v, Run(l, b, u), Run(r, v, m)
  PROVE  Run(t, b, m)
<1>1. PICK p, q \in Nat : p = Len(l) /\ q = Len(r)
  OBVIOUS
<1>2. p >= 1 /\ q >= 1 /\ Len(t) = p + q
  BY <1>1, EmptySeq DEF Joins
<1>3. /\ \A j \in 1 .. p : t[j] = l[j]
      /\ \A j \in 1 .. q : t[j + p] = r[j]
  BY <1>1 DEF Joins
<1>4. /\ \A i \in 1 .. p : l[i].key \in Int /\ b <= l[i].key /\ l[i].key <= u
      /\ \A i \in 1 .. q : r[i].key \in Int /\ v <= r[i].key /\ r[i].key <= m
  BY <1>1, RunIs
<1>5. ASSUME NEW i \in 1 .. p + q, NEW j \in 1 .. p + q, i < j
      PROVE  t[i].key <= t[j].key
  <2>1. CASE i <= p /\ j <= p
    <3>1. i \in 1 .. p /\ j \in 1 .. p
      BY <2>1
    <3> QED
      BY <3>1, <1>1, <1>3, <1>5 DEF Run
  <2>2. CASE i <= p /\ j > p
    <3>1. i \in 1 .. p /\ j - p \in 1 .. q /\ (j - p) + p = j
      BY <2>2
    <3>2. t[i] = l[i] /\ t[j] = r[j - p]
      BY <3>1, <1>3
    <3>3. l[i].key <= u /\ v <= r[j - p].key /\ l[i].key \in Int /\ r[j - p].key \in Int
      BY <3>1, <1>4
    <3> QED
      BY <3>2, <3>3
  <2>3. CASE i > p /\ j > p
    <3>1. i - p \in 1 .. q /\ j - p \in 1 .. q /\ (j - p) + p = j /\ (i - p) + p = i /\ i - p < j - p
      BY <2>3, <1>5
    <3>2. t[i] = r[i - p] /\ t[j] = r[j - p]
      BY <3>1, <1>3
    <3> QED
      BY <3>1, <3>2, <1>1 DEF Run
  <2>4. (i <= p /\ j <= p) \/ (i <= p /\ j > p) \/ (i > p /\ j > p)
    BY <1>5, <1>1
  <2> QED
    BY <2>1, <2>2, <2>3, <2>4
<1>6. b <= t[1].key
  BY <1>2, <1>3, <1>4
<1>7. m = t[p + q].key
  <2>1. q \in 1 .. q /\ q + p = p + q
    BY <1>2
  <2>2. m = r[q].key
    BY <1>1 DEF Run
  <2> QED
    BY <2>1, <2>2, <1>3
<1> QED
  BY <1>2, <1>5, <1>6, <1>7 DEF Run

\* An element less; the last key becomes less only with the last element.
LEMMA RunLess ==
  ASSUME NEW P, HasKeys(P), NEW t \in Seq(P), NEW b \in Int, NEW m, Run(t, b, m),
         NEW s \in Seq(P), s # <<>>, NEW i, NEW x, Inserted(s, t, i, x),
         NEW u, u = s[Len(s)].key
  PROVE  Run(s, b, u) /\ u <= m /\ (i <= Len(s) => u = m) /\ m \in Int /\ u \in Int
<1>1. PICK n \in Nat : n = Len(s)
  OBVIOUS
<1>2. n >= 1 /\ Len(t) = n + 1 /\ i \in 1 .. n + 1 /\ t # <<>>
  BY <1>1, EmptySeq DEF Inserted
<1>3. /\ \A j \in 1 .. i - 1 : s[j] = t[j]
      /\ \A j \in i .. n : s[j] = t[j + 1]
  BY <1>1 DEF Inserted
<1>4. \A j \in 1 .. n + 1 : t[j].key \in Int /\ b <= t[j].key /\ t[j].key <= m
  BY <1>2, RunIs
<1>5. m \in Int /\ m = t[n + 1].key
  BY <1>2, RunIs DEF Run
<1>6. \A j, k \in 1 .. n + 1 : j < k => t[j].key <= t[k].key
  BY <1>2 DEF Run
<1>7. ASSUME NEW j \in 1 .. n, NEW k \in 1 .. n, j < k
      PROVE  s[j].key <= s[k].key
  <2>1. PICK g, h \in 1 .. n + 1 : s[j] = t[g] /\ s[k] = t[h] /\ g < h
    <3>1. CASE j < i /\ k < i
      <4>1. j \in 1 .. i - 1 /\ k \in 1 .. i - 1 /\ j \in 1 .. n + 1 /\ k \in 1 .. n + 1
        BY <3>1, <1>1, <1>2, <1>7
      <4> QED
        BY <4>1, <1>3, <1>7
    <3>2. CASE j < i /\ k >= i
      <4>1. j \in 1 .. i - 1 /\ k \in i .. n /\ j \in 1 .. n + 1 /\ k + 1 \in 1 .. n + 1 /\ j < k + 1
        BY <3>2, <1>7, <1>1, <1>2
      <4> QED
        BY <4>1, <1>3
    <3>3. CASE j >= i /\ k >= i
      <4>1. j \in i .. n /\ k \in i .. n /\ j + 1 \in 1 .. n + 1 /\ k + 1 \in 1 .. n + 1 /\ j + 1 < k + 1
        BY <3>3, <1>7
      <4> QED
        BY <4>1, <1>3
    <3>4. (j < i /\ k < i) \/ (j < i /\ k >= i) \/ (j >= i /\ k >= i)
      BY <1>2, <1>7, <1>1
    <3> QED
      BY <3>1, <3>2, <3>3, <3>4
  <2> QED
    BY <2>1, <1>6
<1>8. ASSUME NEW j \in 1 .. n
      PROVE  \E g \in 1 .. n + 1 : s[j] = t[g]
  <2>1. CASE j < i
    <3>1. j \in 1 .. i - 1 /\ j \in 1 .. n + 1
      BY <2>1, <1>1, <1>2
    <3> QED
      BY <3>1, <1>3
  <2>2. CASE j >= i
    <3>1. j \in i .. n /\ j + 1 \in 1 .. n + 1
      BY <2>2, <1>2
    <3> QED
      BY <3>1, <1>3
  <2> QED
    BY <2>1, <2>2, <1>2
<1>9. b <= s[1].key /\ u <= m /\ u \in Int
  <2>1. 1 \in 1 .. n /\ n \in 1 .. n
    BY <1>2
  <2>2. PICK g, h \in 1 .. n + 1 : s[1] = t[g] /\ s[n] = t[h]
    BY <2>1, <1>8
  <2> QED
    BY <2>2, <1>1, <1>4
<1>10. i <= n => u = m
  <2>1. i <= n => n \in i .. n
    BY <1>2
  <2> QED
    BY <2>1, <1>1, <1>3, <1>5
<1> QED
  BY <1>1, <1>5, <1>7, <1>9, <1>10 DEF Run

-----------------------------------------------------------------------------
(* More on rows                                                            *)

\* lp and uq are the bounds with those of the node at s widened by the key,
\* which belongs below that node.
Widened(ks, cs, lo, up, s, key, lp, uq) ==
  /\ s > 1 => ks[s - 1] <= key
  /\ s < Len(cs) => key <= ks[s]
  /\ \A i \in 1 .. Len(cs) : i # s => lp[cs[i]] = lo[cs[i]] /\ uq[cs[i]] = up[cs[i]]
  /\ lp[cs[s]] = Lesser(lo[cs[s]], key) /\ uq[cs[s]] = Greater(up[cs[s]], key)

\* With the bounds of one node those of the row are widened.
LEMMA RowWiden ==
  ASSUME NEW N, NEW K, K \subseteq Int, NEW ks \in Seq(K), NEW cs \in Seq(N), NEW lo, NEW up, Bounds(N, lo, up),
         Spanned(cs, lo, up), NEW b \in Int, NEW m \in Int, Row(ks, cs, lo, up, b, m), NEW s \in 1 .. Len(cs), NEW key \in Int,
         NEW lp, NEW uq, Widened(ks, cs, lo, up, s, key, lp, uq)
  PROVE  Row(ks, cs, lp, uq, Lesser(b, key), Greater(m, key))
<1> USE DEF Widened
<1>1. PICK n \in Nat : n = Len(ks)
  OBVIOUS
<1>2. Len(cs) = n + 1 /\ s \in 1 .. n + 1
  BY <1>1 DEF Row
<1>3. \A i \in 1 .. n + 1 : lo[cs[i]] \in Int /\ up[cs[i]] \in Int
  <2>1. \A i \in 1 .. n + 1 : cs[i] \in N
    BY <1>2
  <2> QED
    BY <2>1 DEF Bounds
<1>4. \A i \in 1 .. n : ks[i] = up[cs[i]] /\ ks[i] <= lo[cs[i + 1]] /\ ks[i] \in Int
  <2>2. \A i \in 1 .. n : ks[i] \in K
    BY <1>1
  <2>1. \A i \in 1 .. n : ks[i] \in Int
    BY <2>2
  <2> QED
    BY <2>1, <1>1 DEF Row
<1>5. b <= lo[cs[1]] /\ m = up[cs[n + 1]]
  BY <1>2 DEF Row
<1>6. Lesser(b, key) <= lp[cs[1]]
  <2>1. 1 \in 1 .. n + 1 /\ lo[cs[1]] \in Int
    BY <1>3
  <2>2. CASE s = 1
    BY <2>1, <2>2, <1>5 DEF Lesser
  <2>3. CASE s # 1
    <3>1. lp[cs[1]] = lo[cs[1]]
      BY <2>1, <2>3, <1>2
    <3> QED
      BY <3>1, <2>1, <1>5 DEF Lesser
  <2> QED
    BY <2>2, <2>3
<1>7. Greater(m, key) = uq[cs[n + 1]]
  <2>1. n + 1 \in 1 .. n + 1
    BY <1>2
  <2>2. CASE s = n + 1
    BY <2>2, <1>5
  <2>3. CASE s # n + 1
    <3>1. s < Len(cs) /\ s \in 1 .. n
      BY <2>3, <1>2
    <3>2. key <= up[cs[s]] /\ uq[cs[n + 1]] = up[cs[n + 1]]
      BY <3>1, <2>1, <2>3, <1>2, <1>4
    <3>3. up[cs[s]] <= m
      BY RowGrows
    <3>4. up[cs[s]] \in Int
      BY <1>2, <1>3
    <3>5. key <= m
      BY <3>2, <3>3, <3>4
    <3> QED
      BY <3>2, <3>5, <1>5 DEF Greater
  <2> QED
    BY <2>2, <2>3
<1>8. ASSUME NEW i \in 1 .. n
      PROVE  ks[i] = uq[cs[i]] /\ ks[i] <= lp[cs[i + 1]]
  <2>1. i \in 1 .. Len(cs) /\ i + 1 \in 1 .. Len(cs) /\ i \in 1 .. n + 1 /\ i + 1 \in 1 .. n + 1
    BY <1>2
  <2>2. ks[i] = up[cs[i]] /\ ks[i] <= lo[cs[i + 1]] /\ ks[i] \in Int /\ lo[cs[i + 1]] \in Int
    BY <2>1, <1>3, <1>4
  <2>3. ks[i] = uq[cs[i]]
    <3>1. CASE i = s
      <4>1. key <= ks[i]
        BY <3>1, <2>1, <1>2
      <4> QED
        BY <3>1, <4>1, <2>2 DEF Greater
    <3> QED
      BY <3>1, <2>1, <2>2
  <2>4. ks[i] <= lp[cs[i + 1]]
    <3>1. CASE i + 1 = s
      <4>1. ks[i] <= key
        BY <3>1, <1>2
      <4>2. lp[cs[i + 1]] = Lesser(lo[cs[i + 1]], key)
        BY <3>1
      <4> QED
        BY <4>1, <4>2, <2>2 DEF Lesser
    <3> QED
      BY <3>1, <2>1, <2>2
  <2> QED
    BY <2>3, <2>4
<1> QED
  BY <1>1, <1>2, <1>6, <1>7, <1>8 DEF Row

\* An element put at the end is inserted there; the last one of a cut.
LEMMA AppendIs ==
  ASSUME NEW S, NEW s \in Seq(S), NEW x \in S
  PROVE  Append(s, x) \in Seq(S) /\ Inserted(s, Append(s, x), Len(s) + 1, x)
<1>1. Append(s, x) \in Seq(S) /\ Len(Append(s, x)) = Len(s) + 1 /\ Len(s) \in Nat
      /\ Append(s, x)[Len(s) + 1] = x /\ \A j \in 1 .. Len(s) : Append(s, x)[j] = s[j]
  OBVIOUS
<1>2. \A j \in (Len(s) + 1) .. Len(s) : FALSE
  BY <1>1
<1>3. \A j \in 1 .. (Len(s) + 1) - 1 : Append(s, x)[j] = s[j]
  BY <1>1
<1> QED
  BY <1>1, <1>2, <1>3 DEF Inserted

LEMMA CutAppend ==
  ASSUME NEW S, NEW s \in Seq(S), NEW k \in 1 .. Len(s)
  PROVE  SubSeq(s, 1, k) = Append(SubSeq(s, 1, k - 1), s[k])
<1>1. PICK a, b : a = SubSeq(s, 1, k) /\ b = SubSeq(s, 1, k - 1)
  OBVIOUS
<1>2. /\ a \in Seq(S) /\ Len(a) = k /\ \A j \in 1 .. k : a[j] = s[j]
  <2>1. 1 \in 1 .. Len(s) + 1 /\ k \in 1 - 1 .. Len(s) /\ k - 1 + 1 = k
    OBVIOUS
  <2>2. /\ SubSeq(s, 1, k) \in Seq(S) /\ Len(SubSeq(s, 1, k)) = k - 1 + 1
        /\ \A j \in 1 .. k - 1 + 1 : SubSeq(s, 1, k)[j] = s[1 + j - 1]
    BY <2>1, SliceIs
  <2>3. \A j \in 1 .. k : 1 + j - 1 = j
    OBVIOUS
  <2> QED
    BY <1>1, <2>1, <2>2, <2>3
<1>3. /\ b \in Seq(S) /\ Len(b) = k - 1 /\ \A j \in 1 .. k - 1 : b[j] = s[j]
  <2>1. 1 \in 1 .. Len(s) + 1 /\ k - 1 \in 1 - 1 .. Len(s) /\ (k - 1) - 1 + 1 = k - 1
    OBVIOUS
  <2>2. PICK h : h = k - 1
    OBVIOUS
  <2>3. h \in 1 - 1 .. Len(s) /\ h - 1 + 1 = h
    BY <2>1, <2>2
  <2>4. /\ SubSeq(s, 1, h) \in Seq(S) /\ Len(SubSeq(s, 1, h)) = h - 1 + 1
        /\ \A j \in 1 .. h - 1 + 1 : SubSeq(s, 1, h)[j] = s[1 + j - 1]
    BY <2>1, <2>3, SliceIs
  <2>5. \A j \in 1 .. h : 1 + j - 1 = j
    BY <2>3
  <2> QED
    BY <1>1, <2>2, <2>3, <2>4, <2>5
<1>4. s[k] \in S
  OBVIOUS
<1>5. PICK c \in Seq(S) : c = Append(b, s[k])
  BY <1>3, <1>4, AppendProperties
<1>6. Len(c) = k /\ c[k] = s[k] /\ \A j \in 1 .. k - 1 : c[j] = b[j]
  <2>1. k - 1 + 1 = k
    OBVIOUS
  <2> QED
    BY <1>3, <1>4, <1>5, <2>1, AppendProperties
<1>7. \A j \in 1 .. k : a[j] = c[j]
  <2>1. TAKE j \in 1 .. k
  <2>2. j = k \/ j \in 1 .. k - 1
    OBVIOUS
  <2> QED
    BY <2>2, <1>2, <1>3, <1>6
<1>8. a = c
  BY <1>2, <1>5, <1>6, <1>7, SameElements
<1> QED
  BY <1>1, <1>5, <1>8

\* An element put before the end.
LEMMA InsertedAppend ==
  ASSUME NEW S, NEW s \in Seq(S), NEW t \in Seq(S), NEW i, NEW x, Inserted(s, t, i, x),
         NEW y \in S
  PROVE  Inserted(Append(s, y), Append(t, y), i, x)
<1>1. PICK n \in Nat : n = Len(s)
  OBVIOUS
<1>2. Len(t) = n + 1 /\ i \in 1 .. n + 1 /\ t[i] = x
  BY <1>1 DEF Inserted
<1>3. PICK a, b : a = Append(s, y) /\ b = Append(t, y)
  OBVIOUS
<1>4. Len(a) = n + 1 /\ Len(b) = n + 2 /\ a[n + 1] = y /\ b[n + 2] = y
      /\ (\A j \in 1 .. n : a[j] = s[j]) /\ (\A j \in 1 .. n + 1 : b[j] = t[j])
  <2>1. (n + 1) + 1 = n + 2
    BY <1>1
  <2> QED
    BY <1>1, <1>2, <1>3, <2>1, AppendProperties
<1>5. \A j \in 1 .. i - 1 : b[j] = a[j]
  <2>1. TAKE j \in 1 .. i - 1
  <2>2. j \in 1 .. n /\ j \in 1 .. n + 1
    BY <1>2
  <2> QED
    BY <2>2, <1>4 DEF Inserted
<1>6. \A j \in i .. n + 1 : b[j + 1] = a[j]
  <2>1. TAKE j \in i .. n + 1
  <2>2. CASE j = n + 1
    BY <2>2, <1>4
  <2>3. CASE j # n + 1
    <3>1. j \in i .. n /\ j \in 1 .. n /\ j + 1 \in 1 .. n + 1
      BY <2>3, <1>2
    <3> QED
      BY <3>1, <1>1, <1>4 DEF Inserted
  <2> QED
    BY <2>2, <2>3
<1>7. i \in 1 .. n + 2 /\ b[i] = x
  <2>1. i \in 1 .. n + 1
    BY <1>2
  <2> QED
    BY <2>1, <1>2, <1>4
<1>8. Inserted(a, b, i, x)
  BY <1>4, <1>5, <1>6, <1>7 DEF Inserted
<1> QED
  BY <1>3, <1>8

-----------------------------------------------------------------------------
(* Bounds in a tree                                                        *)

\* The bounds of the children are within those of their parent, and grow.
Nested(A, K, lo, hi) ==
  /\ \A n \in A : lo[n] \in Int /\ hi[n] \in Int
  /\ \A p \in A : \A i \in 1 .. Len(K[p]) : lo[p] <= lo[K[p][i]] /\ hi[K[p][i]] <= hi[p]
  /\ \A p \in A : \A i, j \in 1 .. Len(K[p]) : i < j => hi[K[p][i]] <= lo[K[p][j]]

\* The bounds grow along a level when they do on the level above.
LEMMA LevelGrows ==
  ASSUME NEW A, NEW lv, NEW K, NEW root \in A, NEW R, Forest(A, lv, K, {root}, R),
         \A n \in A : n = root \/ lv[n] < lv[root],
         NEW lo, NEW hi, Nested(A, K, lo, hi), NEW a \in A, NEW b \in A, b \in R[a],
         \A p, q \in A : lv[p] = lv[a] + 1 /\ q \in R[p] => hi[p] <= lo[q]
  PROVE  hi[a] <= lo[b]
<1>1. /\ \A x, y \in A : y \in R[x] => lv[y] = lv[x] /\ x \notin R[y]
      /\ \A x, y \in A : lv[x] = lv[y] => x = y \/ y \in R[x] \/ x \in R[y]
  BY DEF Forest, LevelOrder
<1>2. /\ \A p \in A : \A i, j \in 1 .. Len(K[p]) : i < j => K[p][j] \in R[K[p][i]]
      /\ \A p, q \in A : q \in R[p] =>
           \A i \in 1 .. Len(K[p]), j \in 1 .. Len(K[q]) : K[q][j] \in R[K[p][i]]
  BY DEF Forest, KidsOrder
<1>3. /\ lv \in [A -> Nat]
      /\ \A p \in A : \A i \in 1 .. Len(K[p]) : lv[K[p][i]] = lv[p] - 1
  BY DEF Forest, ForestKids
<1>4. lv[b] = lv[a] /\ a \notin R[b] /\ a # b
  BY <1>1
<1>5. a # root /\ b # root
  BY <1>3, <1>4
<1>6. PICK p \in A : \E i \in 1 .. Len(K[p]) : K[p][i] = a
  BY <1>5 DEF Forest, HasParent
<1>7. PICK i \in 1 .. Len(K[p]) : K[p][i] = a
  BY <1>6
<1>8. PICK q \in A : \E j \in 1 .. Len(K[q]) : K[q][j] = b
  BY <1>5 DEF Forest, HasParent
<1>9. PICK j \in 1 .. Len(K[q]) : K[q][j] = b
  BY <1>8
<1>10. lv[p] = lv[a] + 1 /\ lv[q] = lv[p]
  <2>1. lv[a] = lv[p] - 1 /\ lv[b] = lv[q] - 1
    BY <1>3, <1>7, <1>9
  <2>2. lv[p] \in Nat /\ lv[q] \in Nat /\ lv[a] \in Nat
    BY <1>3
  <2> QED
    BY <1>4, <2>1, <2>2
<1>11. p \notin R[q]
  BY <1>2, <1>4, <1>7, <1>9
<1>12. CASE p = q
  <2>1. Len(K[p]) \in Nat
    BY ForestTypes
  <2>2. i # j /\ ~(j < i)
    BY <1>2, <1>4, <1>7, <1>9, <1>12
  <2>3. i < j
    BY <1>12, <2>1, <2>2
  <2> QED
    BY <1>7, <1>9, <1>12, <2>3 DEF Nested
<1>13. CASE q \in R[p]
  <2>1. hi[p] <= lo[q]
    BY <1>10, <1>13
  <2>2. hi[a] <= hi[p] /\ lo[q] <= lo[b]
    BY <1>7, <1>9 DEF Nested
  <2>3. hi[a] \in Int /\ hi[p] \in Int /\ lo[q] \in Int /\ lo[b] \in Int
    BY DEF Nested
  <2> QED
    BY <2>1, <2>2, <2>3
<1> QED
  BY <1>1, <1>10, <1>11, <1>12, <1>13

LEMMA BoundsGrow ==
  ASSUME NEW A, NEW lv, NEW K, NEW root \in A, NEW R, Forest(A, lv, K, {root}, R),
         \A n \in A : n = root \/ lv[n] < lv[root],
         NEW lo, NEW hi, Nested(A, K, lo, hi)
  PROVE  \A a, b \in A : b \in R[a] => hi[a] <= lo[b]
<1>1. \A n \in A : lv[n] \in Nat
  BY ForestTypes
<1>2. PICK m \in Nat : m = lv[root]
  BY <1>1
<1>3. \A n \in A : lv[n] \in 0 .. m
  <2> SUFFICES ASSUME NEW n \in A PROVE lv[n] \in 0 .. m
    OBVIOUS
  <2>1. lv[n] \in Nat /\ lv[n] <= m
    BY <1>1, <1>2
  <2> QED
    BY <2>1
<1> DEFINE T == {k \in 0 .. m : \A a, b \in A : lv[a] = k /\ b \in R[a] => hi[a] <= lo[b]}
<1>4. ASSUME NEW k \in 0 .. m, \A j \in k + 1 .. m : j \in T PROVE k \in T
  <2> SUFFICES ASSUME NEW a \in A, NEW b \in A, lv[a] = k, b \in R[a] PROVE hi[a] <= lo[b]
    OBVIOUS
  <2>1. ASSUME NEW p \in A, NEW q \in A, lv[p] = lv[a] + 1, q \in R[p] PROVE hi[p] <= lo[q]
    <3>1. lv[p] \in k + 1 .. m
      BY <1>3, <2>1
    <3> QED
      BY <1>4, <2>1, <3>1
  <2> QED
    BY <2>1, LevelGrows
<1> HIDE DEF T
<1>5. \A k \in 0 .. m : k \in T
  <2>1. 0 \in Int /\ m \in Int
    OBVIOUS
  <2> QED
    BY <1>4, <2>1, DownwardInduction
<1> SUFFICES ASSUME NEW a \in A, NEW b \in A, b \in R[a] PROVE hi[a] <= lo[b]
  OBVIOUS
<1>6. lv[a] \in T
  BY <1>3, <1>5
<1> QED
  BY <1>6 DEF T

\* The bound of an inner node is that of its last child.
Topped(A, lv, K, hi) ==
  \A n \in A : lv[n] > 0 => K[n] # <<>> /\ hi[n] = hi[K[n][Len(K[n])]]

-----------------------------------------------------------------------------
(* Functions defined by recursion                                          *)

\* f is val on Q, and elsewhere what it is of the next element.
Recurs(A, Q, val, nx, f) == f = [x \in A |-> IF x \in Q THEN val[x] ELSE f[nx[x]]]

Descending(A, Q, nx, lv) ==
  /\ \A x \in A : lv[x] \in Nat
  /\ \A x \in A \ Q : nx[x] \in A /\ lv[nx[x]] < lv[x]

RecursUpto(A, Q, val, nx, lv, f, k) ==
  /\ f = [x \in A |-> f[x]]
  /\ \A x \in A : lv[x] <= k => f[x] = IF x \in Q THEN val[x] ELSE f[nx[x]]

LEMMA RecursStep ==
  ASSUME NEW A, NEW Q, NEW val, NEW nx, NEW lv, Descending(A, Q, nx, lv),
         NEW k \in Nat, NEW f, RecursUpto(A, Q, val, nx, lv, f, k)
  PROVE  \E g : RecursUpto(A, Q, val, nx, lv, g, k + 1)
<1>1. \A x \in A : lv[x] <= k => f[x] = IF x \in Q THEN val[x] ELSE f[nx[x]]
  BY DEF RecursUpto
<1>2. /\ \A x \in A : lv[x] \in Nat
      /\ \A x \in A \ Q : nx[x] \in A /\ lv[nx[x]] < lv[x]
  BY DEF Descending
<1>3. PICK g : g = [x \in A |-> IF x \in Q THEN val[x] ELSE f[nx[x]]]
  OBVIOUS
<1>4. \A x \in A : g[x] = IF x \in Q THEN val[x] ELSE f[nx[x]]
  BY <1>3
<1>5. \A x \in A : lv[x] <= k => g[x] = f[x]
  BY <1>1, <1>4
<1>6. ASSUME NEW x \in A, lv[x] <= k + 1 PROVE g[x] = IF x \in Q THEN val[x] ELSE g[nx[x]]
  <2>1. CASE x \in Q
    BY <1>4, <2>1
  <2>2. CASE x \notin Q
    <3>1. nx[x] \in A /\ lv[nx[x]] <= k
      BY <1>2, <1>6, <2>2
    <3>2. g[nx[x]] = f[nx[x]]
      BY <1>5, <3>1
    <3> QED
      BY <1>4, <2>2, <3>2
  <2> QED
    BY <2>1, <2>2
<1>7. g = [x \in A |-> g[x]]
  BY <1>3, <1>4
<1> QED
  BY <1>6, <1>7 DEF RecursUpto

LEMMA RecursExists ==
  ASSUME NEW A, NEW Q, NEW val, NEW nx, NEW lv, Descending(A, Q, nx, lv),
         NEW m \in Nat, \A x \in A : lv[x] <= m
  PROVE  \E f : Recurs(A, Q, val, nx, f)
<1> DEFINE T == {k \in Nat : \E f : RecursUpto(A, Q, val, nx, lv, f, k)}
<1>1. 0 \in T
  <2>1. PICK f : f = [x \in A |-> val[x]]
    OBVIOUS
  <2>2. f = [x \in A |-> f[x]] /\ \A x \in A : f[x] = val[x]
    BY <2>1
  <2>3. ASSUME NEW x \in A, lv[x] <= 0 PROVE x \in Q
    <3>1. lv[x] \in Nat /\ (x \notin Q => nx[x] \in A /\ lv[nx[x]] < lv[x] /\ lv[nx[x]] \in Nat)
      BY DEF Descending
    <3> QED
      BY <2>3, <3>1
  <2>4. RecursUpto(A, Q, val, nx, lv, f, 0)
    BY <2>2, <2>3 DEF RecursUpto
  <2> QED
    BY <2>4
<1>2. ASSUME NEW k \in Nat, k \in T PROVE k + 1 \in T
  <2>1. PICK f : RecursUpto(A, Q, val, nx, lv, f, k)
    BY <1>2
  <2>2. \E g : RecursUpto(A, Q, val, nx, lv, g, k + 1)
    BY <2>1, RecursStep
  <2> QED
    BY <2>2
<1> HIDE DEF T
<1>3. m \in T
  BY <1>1, <1>2, SetInduction
<1>4. PICK f : RecursUpto(A, Q, val, nx, lv, f, m)
  BY <1>3 DEF T
<1>5. f = [x \in A |-> f[x]] /\ \A x \in A : f[x] = IF x \in Q THEN val[x] ELSE f[nx[x]]
  BY <1>4 DEF RecursUpto
<1>6. [x \in A |-> f[x]] = [x \in A |-> IF x \in Q THEN val[x] ELSE f[nx[x]]]
  BY <1>5
<1> QED
  BY <1>5, <1>6 DEF Recurs

-----------------------------------------------------------------------------
(* Going down a tree to a leaf                                             *)

\* f[n] is the node on level 0 reached from n, going to child F[n] of each.
Turns(A, lv, K, F) == \A n \in A : lv[n] > 0 => F[n] \in 1 .. Len(K[n])

IsDescentTo(A, lv, K, F, f) == f = [n \in A |-> IF lv[n] = 0 THEN n ELSE f[K[n][F[n]]]]

LEMMA DescentExists ==
  ASSUME NEW A, NEW lv, NEW K, NEW X, NEW R, Forest(A, lv, K, X, R), NEW F, Turns(A, lv, K, F),
         NEW m \in Nat, \A n \in A : lv[n] <= m
  PROVE  \E f : IsDescentTo(A, lv, K, F, f)
<1>1. PICK Q, val, nx : Q = {n \in A : lv[n] = 0} /\ val = [n \in A |-> n] /\ nx = [n \in A |-> K[n][F[n]]]
  OBVIOUS
<1>2. \A n \in A : lv[n] \in Nat
  BY ForestTypes
<1>3. ASSUME NEW n \in A \ Q PROVE nx[n] \in A /\ lv[nx[n]] < lv[n]
  <2>1. lv[n] > 0 /\ nx[n] = K[n][F[n]] /\ lv[n] \in Nat
    BY <1>1, <1>2
  <2>2. F[n] \in 1 .. Len(K[n])
    BY <2>1 DEF Turns
  <2>3. K[n][F[n]] \in A
    BY <2>2, ForestTypes
  <2>4. lv[K[n][F[n]]] = lv[n] - 1
    BY <2>2 DEF Forest, ForestKids
  <2> QED
    BY <2>1, <2>3, <2>4
<1>4. Descending(A, Q, nx, lv)
  BY <1>2, <1>3 DEF Descending
<1>5. PICK f : Recurs(A, Q, val, nx, f)
  BY <1>4, RecursExists
<1>6. f = [x \in A |-> IF x \in Q THEN val[x] ELSE f[nx[x]]]
  BY <1>5 DEF Recurs
<1>7. [x \in A |-> IF x \in Q THEN val[x] ELSE f[nx[x]]] = [n \in A |-> IF lv[n] = 0 THEN n ELSE f[K[n][F[n]]]]
  BY <1>1
<1> QED
  BY <1>6, <1>7 DEF IsDescentTo

\* L is a set of keys with all that are less; what ends within L is left of n,
\* and n does not when there is a node right of it.
Downward(L) == L \subseteq Int /\ \A x \in Int : \A y \in L : x <= y => x \in L

SplitsAt(A, R, hi, L, n) ==
  /\ \A x \in A : n \in R[x] => hi[x] \in L
  /\ \A y \in A : y \in R[n] => hi[n] \notin L

\* The turns are where the children no longer end within L.
TurnsAt(A, lv, K, hi, L, F) ==
  \A n \in A : lv[n] > 0 =>
    /\ F[n] > 1 => hi[K[n][F[n] - 1]] \in L
    /\ F[n] < Len(K[n]) => hi[K[n][F[n]]] \notin L

\* Another node next to a child is a child of the same node or of one next to it.
Cousin(K, R, p, s, x, q, j) ==
  /\ K[q][j] = x
  /\ \/ q = p /\ (j = s \/ (j < s /\ K[p][s] \in R[x]) \/ (s < j /\ x \in R[K[p][s]]))
     \/ q \in R[p] /\ x \in R[K[p][s]]
     \/ p \in R[q] /\ K[p][s] \in R[x]

LEMMA CousinIs ==
  ASSUME NEW A, NEW lv, NEW K, NEW root \in A, NEW R, Forest(A, lv, K, {root}, R),
         \A n \in A : n = root \/ lv[n] < lv[root],
         NEW p \in A, NEW s \in 1 .. Len(K[p]), NEW x \in A, lv[x] = lv[K[p][s]]
  PROVE  \E q \in A : \E j \in 1 .. Len(K[q]) : Cousin(K, R, p, s, x, q, j)
<1>1. \A y, z \in A : lv[y] = lv[z] => y = z \/ z \in R[y] \/ y \in R[z]
  BY DEF Forest, LevelOrder
<1>2. /\ \A n \in A : \A i, j \in 1 .. Len(K[n]) : i < j => K[n][j] \in R[K[n][i]]
      /\ \A n, q \in A : q \in R[n] =>
           \A i \in 1 .. Len(K[n]), j \in 1 .. Len(K[q]) : K[q][j] \in R[K[n][i]]
  BY DEF Forest, KidsOrder
<1>3. /\ lv \in [A -> Nat]
      /\ \A n \in A : \A i \in 1 .. Len(K[n]) : lv[K[n][i]] = lv[n] - 1
  BY DEF Forest, ForestKids
<1>4. lv[x] = lv[p] - 1
  BY <1>3
<1>5. x # root
  <2>1. p = root \/ lv[p] < lv[root]
    OBVIOUS
  <2>2. lv[p] \in Nat /\ lv[root] \in Nat
    BY <1>3
  <2> QED
    BY <1>4, <2>1, <2>2
<1>6. PICK q \in A : \E j \in 1 .. Len(K[q]) : K[q][j] = x
  BY <1>5 DEF Forest, HasParent
<1>7. PICK j \in 1 .. Len(K[q]) : K[q][j] = x
  BY <1>6
<1>8. lv[q] = lv[p]
  <2>1. lv[x] = lv[q] - 1 /\ lv[p] \in Nat /\ lv[q] \in Nat
    BY <1>3, <1>7
  <2> QED
    BY <1>4, <2>1
<1>9. q = p \/ q \in R[p] \/ p \in R[q]
  BY <1>1, <1>8
<1>10. q = p => j = s \/ (j < s /\ K[p][s] \in R[x]) \/ (s < j /\ x \in R[K[p][s]])
  <2>1. Len(K[p]) \in Nat
    BY ForestTypes
  <2> SUFFICES ASSUME q = p PROVE j = s \/ (j < s /\ K[p][s] \in R[x]) \/ (s < j /\ x \in R[K[p][s]])
    OBVIOUS
  <2>2. j \in 1 .. Len(K[p])
    OBVIOUS
  <2>3. j = s \/ j < s \/ s < j
    BY <2>1, <2>2
  <2> QED
    BY <1>2, <1>7, <2>2, <2>3
<1>11. (q \in R[p] => x \in R[K[p][s]]) /\ (p \in R[q] => K[p][s] \in R[x])
  BY <1>2, <1>7
<1> QED
  BY <1>7, <1>9, <1>10, <1>11 DEF Cousin

\* The tree as a search finds it.
Searched(A, lv, K, root, R, lo, hi, L, F) ==
  /\ root \in A /\ Forest(A, lv, K, {root}, R) /\ \A n \in A : n = root \/ lv[n] < lv[root]
  /\ Nested(A, K, lo, hi) /\ Topped(A, lv, K, hi) /\ \A n \in A : lo[n] <= hi[n]
  /\ Downward(L) /\ Turns(A, lv, K, F) /\ TurnsAt(A, lv, K, hi, L, F)

LEMMA TurnKeeps ==
  ASSUME NEW A, NEW lv, NEW K, NEW root, NEW R, NEW lo, NEW hi, NEW L, NEW F,
         Searched(A, lv, K, root, R, lo, hi, L, F),
         NEW n \in A, lv[n] > 0, SplitsAt(A, R, hi, L, n), NEW c, c = K[n][F[n]]
  PROVE  c \in A /\ lv[c] = lv[n] - 1 /\ SplitsAt(A, R, hi, L, c)
<1>1. /\ root \in A /\ Forest(A, lv, K, {root}, R) /\ \A x \in A : x = root \/ lv[x] < lv[root]
      /\ Nested(A, K, lo, hi) /\ Topped(A, lv, K, hi) /\ \A x \in A : lo[x] <= hi[x]
      /\ Downward(L) /\ Turns(A, lv, K, F) /\ TurnsAt(A, lv, K, hi, L, F)
  BY DEF Searched
<1>2. PICK s : s = F[n]
  OBVIOUS
<1>3. s \in 1 .. Len(K[n]) /\ c = K[n][s] /\ Len(K[n]) \in Nat
  BY <1>1, <1>2, ForestTypes DEF Turns
<1>4. c \in A /\ lv[c] = lv[n] - 1
  <2>1. c \in A
    BY <1>1, <1>3, ForestTypes
  <2> QED
    BY <1>1, <1>3, <2>1 DEF Forest, ForestKids
<1>5. /\ \A x, y \in A : y \in R[x] => lv[y] = lv[x] /\ x \notin R[y]
  BY <1>1 DEF Forest, LevelOrder
<1>6. /\ \A x \in A : lo[x] \in Int /\ hi[x] \in Int
      /\ \A p \in A : \A i \in 1 .. Len(K[p]) : lo[p] <= lo[K[p][i]] /\ hi[K[p][i]] <= hi[p]
      /\ \A p \in A : \A i, j \in 1 .. Len(K[p]) : i < j => hi[K[p][i]] <= lo[K[p][j]]
  BY <1>1 DEF Nested
<1>7. \A x \in Int : \A y \in L : x <= y => x \in L
  BY <1>1 DEF Downward
<1>8. /\ s > 1 => hi[K[n][s - 1]] \in L
      /\ s < Len(K[n]) => hi[c] \notin L
  BY <1>1, <1>2, <1>3 DEF TurnsAt
<1>9. s = Len(K[n]) => hi[c] = hi[n]
  BY <1>1, <1>3 DEF Topped
<1>10. (\A x \in A : n \in R[x] => hi[x] \in L) /\ (\A y \in A : y \in R[n] => hi[n] \notin L)
  BY DEF SplitsAt
<1>11. ASSUME NEW x \in A, c \in R[x] PROVE hi[x] \in L
  <2>1. lv[x] = lv[K[n][s]] /\ x \notin R[c] /\ x # c
    BY <1>3, <1>4, <1>5, <1>11
  <2>2. PICK q \in A : \E j \in 1 .. Len(K[q]) : Cousin(K, R, n, s, x, q, j)
    BY <1>1, <1>3, <2>1, CousinIs
  <2>3. PICK j \in 1 .. Len(K[q]) :
           /\ K[q][j] = x
           /\ \/ q = n /\ (j = s \/ (j < s /\ K[n][s] \in R[x]) \/ (s < j /\ x \in R[K[n][s]]))
              \/ q \in R[n] /\ x \in R[K[n][s]]
              \/ n \in R[q] /\ K[n][s] \in R[x]
    BY <2>2 DEF Cousin
  <2>4. CASE q = n /\ j < s
    <3>1. s > 1 /\ s - 1 \in 1 .. Len(K[n]) /\ j \in 1 .. Len(K[n]) /\ j <= s - 1
      BY <1>3, <2>3, <2>4
    <3>2. PICK d : d = K[n][s - 1]
      OBVIOUS
    <3>3. hi[d] \in L /\ d \in A
      BY <1>1, <1>8, <3>1, <3>2, ForestTypes
    <3>4. hi[x] <= hi[d]
      <4>1. CASE j = s - 1
        BY <1>6, <2>3, <2>4, <3>2, <4>1
      <4>2. CASE j < s - 1
        <5>1. hi[x] <= lo[d] /\ lo[d] <= hi[d]
          BY <1>1, <1>6, <2>3, <2>4, <3>1, <3>2, <3>3, <4>2
        <5> QED
          BY <1>6, <3>3, <5>1
      <4>3. j \in Int /\ s \in Int
        BY <1>3, <3>1
      <4> QED
        BY <3>1, <4>1, <4>2, <4>3
    <3> QED
      BY <1>6, <1>7, <3>3, <3>4
  <2>5. CASE n \in R[q]
    <3>1. hi[x] <= hi[q] /\ hi[q] \in L
      BY <1>6, <1>10, <2>3, <2>5
    <3> QED
      BY <1>6, <1>7, <3>1
  <2> QED
    BY <1>3, <2>1, <2>3, <2>4, <2>5
<1>12. ASSUME NEW y \in A, y \in R[c] PROVE hi[c] \notin L
  <2>1. lv[y] = lv[K[n][s]] /\ c \notin R[y] /\ y # c
    BY <1>3, <1>4, <1>5, <1>12
  <2>2. PICK q \in A : \E j \in 1 .. Len(K[q]) : Cousin(K, R, n, s, y, q, j)
    BY <1>1, <1>3, <2>1, CousinIs
  <2>3. PICK j \in 1 .. Len(K[q]) :
           /\ K[q][j] = y
           /\ \/ q = n /\ (j = s \/ (j < s /\ K[n][s] \in R[y]) \/ (s < j /\ y \in R[K[n][s]]))
              \/ q \in R[n] /\ y \in R[K[n][s]]
              \/ n \in R[q] /\ K[n][s] \in R[y]
    BY <2>2 DEF Cousin
  <2>4. CASE q = n /\ s < j
    <3>1. s < Len(K[n])
      BY <1>3, <2>3, <2>4
    <3> QED
      BY <1>8, <3>1
  <2>5. CASE q \in R[n]
    <3>1. hi[n] \notin L
      BY <1>10, <2>5
    <3>2. s < Len(K[n]) \/ s = Len(K[n])
      BY <1>3
    <3> QED
      BY <1>8, <1>9, <3>1, <3>2
  <2> QED
    BY <1>3, <2>1, <2>3, <2>4, <2>5
<1> QED
  BY <1>4, <1>11, <1>12 DEF SplitsAt

LEMMA DescentEnds ==
  ASSUME NEW A, NEW lv, NEW K, NEW root, NEW R, NEW lo, NEW hi, NEW L, NEW F,
         Searched(A, lv, K, root, R, lo, hi, L, F), NEW f, IsDescentTo(A, lv, K, F, f)
  PROVE  f[root] \in A /\ lv[f[root]] = 0 /\ SplitsAt(A, R, hi, L, f[root])
<1> DEFINE T == {k \in Nat : \A n \in A : lv[n] = k /\ SplitsAt(A, R, hi, L, n) =>
                               f[n] \in A /\ lv[f[n]] = 0 /\ SplitsAt(A, R, hi, L, f[n])}
<1>1. root \in A /\ Forest(A, lv, K, {root}, R) /\ \A x \in A : x = root \/ lv[x] < lv[root]
  BY DEF Searched
<1>2. \A n \in A : lv[n] \in Nat
  BY <1>1, ForestTypes
<1>3. \A n \in A : f[n] = IF lv[n] = 0 THEN n ELSE f[K[n][F[n]]]
  BY DEF IsDescentTo
<1>4. 0 \in T
  <2>1. \A n \in A : lv[n] = 0 => f[n] = n
    BY <1>3
  <2> QED
    BY <2>1
<1>5. ASSUME NEW k \in Nat, k \in T PROVE k + 1 \in T
  <2> SUFFICES ASSUME NEW n \in A, lv[n] = k + 1, SplitsAt(A, R, hi, L, n)
               PROVE  f[n] \in A /\ lv[f[n]] = 0 /\ SplitsAt(A, R, hi, L, f[n])
    OBVIOUS
  <2>1. PICK c : c = K[n][F[n]]
    OBVIOUS
  <2>2. lv[n] > 0 /\ lv[n] # 0
    OBVIOUS
  <2>3. c \in A /\ lv[c] = lv[n] - 1 /\ SplitsAt(A, R, hi, L, c)
    BY <2>1, <2>2, TurnKeeps
  <2>4. f[n] = f[c]
    BY <1>3, <2>1, <2>2
  <2>5. lv[c] = k
    BY <2>3
  <2> QED
    BY <1>5, <2>3, <2>4, <2>5
<1> HIDE DEF T
<1>6. \A k \in Nat : k \in T
  BY <1>4, <1>5, SetInduction
<1>7. SplitsAt(A, R, hi, L, root)
  <2>1. \A x, y \in A : y \in R[x] => lv[y] = lv[x] /\ x \notin R[y]
    BY <1>1 DEF Forest, LevelOrder
  <2>2. \A x \in A : root \notin R[x] /\ x \notin R[root]
    <3> SUFFICES ASSUME NEW x \in A, root \in R[x] \/ x \in R[root] PROVE FALSE
      OBVIOUS
    <3>1. lv[x] = lv[root] /\ x # root
      BY <1>1, <2>1
    <3> QED
      BY <1>1, <1>2, <3>1
  <2> QED
    BY <2>2 DEF SplitsAt
<1>8. lv[root] \in T
  BY <1>1, <1>2, <1>6
<1> QED
  BY <1>1, <1>7, <1>8 DEF T

-----------------------------------------------------------------------------
(* The inductive invariant                                                 *)

\* Merged nodes fit: two leaves that are merged hold at most
\* mininnerslots - 1 and minleafslots pairs.  (They need not when inner nodes
\* are wider than leaves, since leaves are compared with mininnerslots.)
MergedFits == mininnerslots <= minleafslots

Heaps == [NodeId -> Leaf \cup Inner \cup {NULL}]
Kids(H, n) == IF isleafnode(H, n) THEN <<>> ELSE H[n].child
Leaves(H)     == {n \in Allocated(H) : isleafnode(H, n)}
InnerNodes(H) == {n \in Allocated(H) : ~isleafnode(H, n)}
LevelsOf(H) == [n \in Allocated(H) |-> H[n].level]
KidsOf(H)   == [n \in Allocated(H) |-> Kids(H, n)]

\* The nodes are a tree below root but for S, which hang on nothing yet; R[n]
\* are the nodes right of n on its level.
Tree(H, root, S, R) ==
  /\ Forest(Allocated(H), LevelsOf(H), KidsOf(H), ({root} \ {NULL}) \cup S, R)
  /\ root = NULL => Allocated(H) = {}
  /\ \A n \in Allocated(H) : n = root \/ n \in S \/ H[n].level < H[root].level

\* Nodes hold what fits, and one child more than keys; those of E are empty.
NodesHold(H, E) ==
  /\ \A n \in Allocated(H) \ E :
       IF isleafnode(H, n) THEN slotuse(H, n) <= leafslotmax
       ELSE slotuse(H, n) <= innerslotmax /\ Len(Kids(H, n)) = slotuse(H, n) + 1
  /\ \A n \in E : n \in Allocated(H) /\ slotuse(H, n) = 0 /\ Kids(H, n) = <<>>

\* Nodes but for E and the root are filled, and a root that is not a leaf has
\* two children.
Filled(H, E, root, least) ==
  \A n \in Allocated(H) \ E :
    slotuse(H, n) >= IF n # root THEN mininnerslots ELSE IF isleafnode(H, n) THEN least ELSE 1

\* Each leaf but for E is linked with the next one in the order.
Nexts(H) == [n \in Leaves(H) |-> H[n].next]

Prevs(H) == [n \in Leaves(H) |-> H[n].prev]
Linked(H, E, R) == Chained(Leaves(H) \ E, R, Nexts(H), Prevs(H), NULL)
Shape(H, root, S, E, R) == Tree(H, root, S, R) /\ NodesHold(H, E) /\ Linked(H, E, R)

\* A frame is on an inner node, at a child.
AtChild(H, f) == H[f.curr].level > 0 /\ f.slot \in 0 .. slotuse(H, f.curr)

\* The frames are on a path from the root.
Path(H, root, st) ==
  /\ st # <<>> => st[1].curr = root
  /\ \A i \in 1 .. Len(st) :
       st[i].curr \in Allocated(H) /\ H[st[i].curr].level = H[root].level - i + 1
  /\ \A i \in 1 .. Len(st) - 1 :
       AtChild(H, st[i]) /\ childid(H, st[i].curr, st[i].slot) = st[i + 1].curr

Paused(H, st) == st # <<>> => AtChild(H, Last(st))

\* What a frame f of an erase knows of its neighbours; p is the frame above.
Neighbours(H, R, f) ==
  /\ f.left # NULL => f.left \in Allocated(H) /\ H[f.left].level = H[f.curr].level
  /\ f.right # NULL => f.right \in Allocated(H) /\ IsNext(Allocated(H), R, f.curr, f.right)
  /\ f.left = NULL <=> f.leftparent = NULL
  /\ f.right = NULL <=> f.rightparent = NULL
  /\ \A q \in {f.leftparent, f.rightparent} :
       q # NULL => q \in Allocated(H) /\ H[q].level > H[f.curr].level

BelowFrame(H, p, f) ==
  /\ f.parent = p.curr /\ f.parentslot = p.slot
  /\ IF p.slot > 0 THEN f.leftparent = p.curr /\ f.left = childid(H, p.curr, p.slot - 1)
                   ELSE f.leftparent = p.leftparent
  /\ IF p.slot < slotuse(H, p.curr)
       THEN f.rightparent = p.curr /\ f.right = childid(H, p.curr, p.slot + 1)
       ELSE f.rightparent = p.rightparent

Surrounded(H, R, st) ==
  /\ \A i \in 1 .. Len(st) : Neighbours(H, R, st[i])
  /\ st # <<>> => st[1].parent = NULL /\ st[1].left = NULL /\ st[1].right = NULL
  /\ \A i \in 1 .. Len(st) - 1 : BelowFrame(H, st[i], st[i + 1])

\* m_stats, but for the pair of the call in progress.
Pairs(H) == {q \in Leaves(H) \X (1 .. leafslotmax) : q[2] <= slotuse(H, q[1])}

Counted(H, stats, owed) ==
  /\ stats.leaves = Cardinality(Leaves(H))
  /\ stats.innernodes = Cardinality(InnerNodes(H))
  /\ stats.itemcount = Cardinality(Pairs(H)) + owed

\* A merge has emptied a child of the node of the last frame.
Hollow(H, f) == {childid(H, f.curr, EmptySlot(H, f))}

-----------------------------------------------------------------------------
(* Nodes and their fields                                                  *)

LEMMA Sizes ==
  /\ leafslotmax \in Nat /\ innerslotmax \in Nat /\ minleafslots \in Nat /\ mininnerslots \in Nat
  /\ leafslotmax \in {2 * minleafslots, 2 * minleafslots + 1}
  /\ innerslotmax \in {2 * mininnerslots, 2 * mininnerslots + 1}
  /\ minleafslots >= 2 /\ mininnerslots >= 2
BY NodeSizeAssumption DEF minleafslots, mininnerslots

LEMMA NodeIs ==
  ASSUME NEW H \in Heaps, NEW n \in Allocated(H)
  PROVE  /\ n \in NodeId /\ n # NULL /\ H[n] # NULL
         /\ H[n].level \in Nat
         /\ isleafnode(H, n) <=> H[n].level = 0
         /\ isleafnode(H, n) =>
              /\ H[n] \in Leaf /\ H[n].slots \in Seq(Pair) /\ slotuse(H, n) = Len(H[n].slots)
              /\ H[n].prev \in NodeId \cup {NULL} /\ H[n].next \in NodeId \cup {NULL}
         /\ ~isleafnode(H, n) =>
              /\ H[n] \in Inner /\ H[n].level > 0 /\ slotuse(H, n) = Len(H[n].keys)
              /\ H[n].keys \in Seq(Key) /\ H[n].child \in Seq(NodeId)
         /\ slotuse(H, n) \in Nat
<1>1. n \in NodeId /\ H[n] # NULL /\ H[n] \in Leaf \cup Inner
  BY DEF Allocated, Heaps
<1>2. CASE H[n] \in Leaf
  <2>1. H[n].level = 0 /\ H[n].slots \in Seq(Pair)
        /\ H[n].prev \in NodeId \cup {NULL} /\ H[n].next \in NodeId \cup {NULL}
    BY <1>2 DEF Leaf
  <2>2. Len(H[n].slots) \in Nat
    BY <2>1
  <2> QED
    BY <1>1, <1>2, <2>1, <2>2, NodeAssumption DEF isleafnode, slotuse
<1>3. CASE H[n] \in Inner
  <2>1. H[n].level \in Nat \ {0} /\ H[n].keys \in Seq(Key) /\ H[n].child \in Seq(NodeId)
    BY <1>3 DEF Inner
  <2>2. Len(H[n].keys) \in Nat
    BY <2>1
  <2> QED
    BY <1>1, <1>3, <2>1, <2>2, NodeAssumption DEF isleafnode, slotuse
<1> QED
  BY <1>1, <1>2, <1>3

\* The keys of a node, by slot.
LEMMA SlotKey ==
  ASSUME NEW H \in Heaps, NEW n \in Allocated(H)
  PROVE  /\ SlotKeys(H, n) \in Seq(Key) /\ Len(SlotKeys(H, n)) = slotuse(H, n)
         /\ \A slot \in 0 .. slotuse(H, n) - 1 : slotkey(H, n, slot) \in Key
         /\ slotuse(H, n) >= 1 => LastKey(H, n) \in Key
<1>1. SlotKeys(H, n) \in Seq(Key) /\ Len(SlotKeys(H, n)) = slotuse(H, n)
  <2>1. CASE isleafnode(H, n)
    <3>1. H[n].slots \in Seq(Pair) /\ slotuse(H, n) = Len(H[n].slots)
      BY <2>1, NodeIs
    <3>2. \A s \in Seq(Pair) : [i \in DOMAIN s |-> s[i].key] \in Seq(Key)
                               /\ Len([i \in DOMAIN s |-> s[i].key]) = Len(s)
      <4> SUFFICES ASSUME NEW s \in Seq(Pair)
                   PROVE  [i \in DOMAIN s |-> s[i].key] \in Seq(Key)
                          /\ Len([i \in DOMAIN s |-> s[i].key]) = Len(s)
        OBVIOUS
      <4>1. DOMAIN s = 1 .. Len(s) /\ Len(s) \in Nat
        OBVIOUS
      <4>2. \A i \in 1 .. Len(s) : s[i].key \in Key
        <5>1. \A i \in 1 .. Len(s) : s[i] \in Pair
          OBVIOUS
        <5> QED
          BY <5>1 DEF Pair
      <4> DEFINE t == [i \in DOMAIN s |-> s[i].key]
      <4>3. t \in [1 .. Len(s) -> Key]
        BY <4>1, <4>2
      <4> HIDE DEF t
      <4>4. t \in Seq(Key) /\ Len(t) = Len(s)
        BY <4>1, <4>3
      <4> QED
        BY <4>4 DEF t
    <3> QED
      BY <2>1, <3>1, <3>2 DEF SlotKeys
  <2>2. CASE ~isleafnode(H, n)
    BY <2>2, NodeIs DEF SlotKeys
  <2> QED
    BY <2>1, <2>2
<1>2. slotuse(H, n) \in Nat
  BY NodeIs
<1>3. ASSUME NEW slot \in 0 .. slotuse(H, n) - 1 PROVE slotkey(H, n, slot) \in Key
  <2>1. slot + 1 \in 1 .. slotuse(H, n)
    BY <1>2
  <2> QED
    BY <1>1, <2>1 DEF slotkey
<1>4. slotuse(H, n) >= 1 => slotuse(H, n) - 1 \in 0 .. slotuse(H, n) - 1
  BY <1>2
<1> QED
  BY <1>1, <1>3, <1>4 DEF LastKey

\* The children of a node, by slot.
LEMMA KidsAre ==
  ASSUME NEW H \in Heaps, NEW R, NEW X,
         Forest(Allocated(H), LevelsOf(H), KidsOf(H), X, R), NEW n \in Allocated(H)
  PROVE  /\ LevelsOf(H)[n] = H[n].level /\ KidsOf(H)[n] = Kids(H, n)
         /\ Kids(H, n) \in Seq(Allocated(H)) /\ Len(Kids(H, n)) \in Nat
         /\ \A i \in 1 .. Len(Kids(H, n)) :
              /\ Kids(H, n)[i] \in Allocated(H) /\ H[Kids(H, n)[i]].level = H[n].level - 1
              /\ Kids(H, n)[i] \notin X
         /\ ~isleafnode(H, n) => Kids(H, n) = H[n].child
<1>1. LevelsOf(H)[n] = H[n].level /\ KidsOf(H)[n] = Kids(H, n)
  BY DEF LevelsOf, KidsOf
<1>2. Kids(H, n) \in Seq(Allocated(H)) /\ Len(Kids(H, n)) \in Nat
  BY <1>1, ForestTypes
<1>3. ASSUME NEW i \in 1 .. Len(Kids(H, n))
      PROVE  /\ Kids(H, n)[i] \in Allocated(H) /\ H[Kids(H, n)[i]].level = H[n].level - 1
             /\ Kids(H, n)[i] \notin X
  <2>1. Kids(H, n)[i] \in Allocated(H)
    BY <1>2
  <2>2. LevelsOf(H)[Kids(H, n)[i]] = H[Kids(H, n)[i]].level
    BY <2>1 DEF LevelsOf
  <2> QED
    BY <1>1, <2>1, <2>2 DEF Forest, ForestKids
<1> QED
  BY <1>1, <1>2, <1>3 DEF Kids

LEMMA ChildIs ==
  ASSUME NEW H \in Heaps, NEW R, NEW X,
         Forest(Allocated(H), LevelsOf(H), KidsOf(H), X, R), NEW n \in Allocated(H),
         H[n].level > 0, Len(H[n].child) = slotuse(H, n) + 1,
         NEW slot \in 0 .. slotuse(H, n)
  PROVE  /\ slot + 1 \in 1 .. Len(Kids(H, n)) /\ childid(H, n, slot) = Kids(H, n)[slot + 1]
         /\ childid(H, n, slot) \in Allocated(H)
         /\ H[childid(H, n, slot)].level = H[n].level - 1
         /\ childid(H, n, slot) \notin X
<1>1. ~isleafnode(H, n) /\ slotuse(H, n) \in Nat
  BY NodeIs DEF isleafnode
<1>2. Kids(H, n) = H[n].child
  BY <1>1 DEF Kids
<1>3. slot + 1 \in 1 .. Len(Kids(H, n))
  BY <1>1, <1>2
<1>4. childid(H, n, slot) = Kids(H, n)[slot + 1]
  BY <1>2 DEF childid
<1> QED
  BY <1>3, <1>4, KidsAre

\* new returns an address that is not in use.
LEMMA FreshIs ==
  ASSUME NEW H \in Heaps, CanAllocate(H)
  PROVE  FreshNode(H) \in NodeId \ Allocated(H) /\ FreshNode(H) # NULL
<1> DEFINE S == NodeId \ Allocated(H)
<1>1. S \in SUBSET Nat /\ S # {}
  BY NodeAssumption DEF CanAllocate
<1>2. \E n \in S : \A m \in S : n <= m
  BY <1>1, LeastElement
<1>3. Min(S) \in S
  BY <1>2 DEF Min
<1> QED
  BY <1>3, NodeAssumption DEF FreshNode

-----------------------------------------------------------------------------
(* The binary search                                                       *)

\* What BinarySearch recurses over: go left at the elements of L.
SearchStep(L, f, lo, hi) ==
  IF lo >= hi THEN lo
  ELSE IF (lo + hi) \div 2 + 1 \in L THEN f[<<lo, (lo + hi) \div 2>>] ELSE f[<<(lo + hi) \div 2 + 1, hi>>]

IsSearch(n, L, f) ==
  f = [r \in (0 .. n) \X (0 .. n) |-> SearchStep(L, f, r[1], r[2])]

LEMMA Halves ==
  ASSUME NEW lo \in Nat, NEW hi \in Nat, lo < hi
  PROVE  (lo + hi) \div 2 \in lo .. hi - 1
OBVIOUS

LEMMA SearchExists ==
  ASSUME NEW n \in Nat, NEW L
  PROVE  \E f : IsSearch(n, L, f)
<1> DEFINE D == 0 .. n
           Upto(f, k) == /\ f = [r \in D \X D |-> f[r]]
                         /\ \A lo, hi \in D : hi - lo <= k => f[<<lo, hi>>] = SearchStep(L, f, lo, hi)
           S == {k \in Nat : \E f : Upto(f, k)}
<1>1. 0 \in S
  <2> DEFINE f == [r \in D \X D |-> r[1]]
  <2>1. \A lo, hi \in D : hi - lo <= 0 => f[<<lo, hi>>] = SearchStep(L, f, lo, hi)
    BY DEF SearchStep
  <2>2. f = [r \in D \X D |-> f[r]]
    OBVIOUS
  <2> QED
    BY <2>1, <2>2
<1>2. ASSUME NEW k \in Nat, k \in S
      PROVE  k + 1 \in S
  <2>1. PICK f : Upto(f, k)
    BY <1>2
  <2> DEFINE g == [r \in D \X D |->
                     IF r[2] - r[1] <= k THEN f[r] ELSE SearchStep(L, f, r[1], r[2])]
  <2>2. ASSUME NEW lo \in D, NEW hi \in D
        PROVE  g[<<lo, hi>>] = IF hi - lo <= k THEN f[<<lo, hi>>] ELSE SearchStep(L, f, lo, hi)
    OBVIOUS
  <2>3. g = [r \in D \X D |-> g[r]]
    OBVIOUS
  <2> HIDE DEF g
  <2>4. ASSUME NEW lo \in D, NEW hi \in D, hi - lo <= k + 1
        PROVE  g[<<lo, hi>>] = SearchStep(L, g, lo, hi)
    <3>1. g[<<lo, hi>>] = SearchStep(L, f, lo, hi)
      BY <2>1, <2>2
    <3>2. CASE lo >= hi
      BY <3>1, <3>2 DEF SearchStep
    <3>3. CASE lo < hi
      <4> DEFINE mid == (lo + hi) \div 2
      <4>1. mid \in lo .. hi - 1
        BY <3>3, Halves
      <4> HIDE DEF mid
      <4>2. mid \in D /\ mid + 1 \in D /\ mid - lo <= k /\ hi - (mid + 1) <= k
        BY <2>4, <4>1
      <4>3. g[<<lo, mid>>] = f[<<lo, mid>>] /\ g[<<mid + 1, hi>>] = f[<<mid + 1, hi>>]
        BY <2>2, <4>2
      <4> QED
        BY <3>1, <4>3 DEF SearchStep, mid
    <3> QED
      BY <3>2, <3>3
  <2>5. Upto(g, k + 1)
    BY <2>3, <2>4
  <2> QED
    BY <2>5
<1> HIDE DEF S
<1>3. n \in S
  BY <1>1, <1>2, SetInduction
<1>4. PICK f : Upto(f, n)
  BY <1>3 DEF S
<1>5. \A lo, hi \in D : f[<<lo, hi>>] = SearchStep(L, f, lo, hi)
  <2> SUFFICES ASSUME NEW lo \in D, NEW hi \in D PROVE f[<<lo, hi>>] = SearchStep(L, f, lo, hi)
    OBVIOUS
  <2>1. hi - lo <= n
    OBVIOUS
  <2> QED
    BY <1>4, <2>1
<1>6. \A r \in D \X D : f[r] = SearchStep(L, f, r[1], r[2])
  <2> SUFFICES ASSUME NEW r \in D \X D PROVE f[r] = SearchStep(L, f, r[1], r[2])
    OBVIOUS
  <2>1. r = <<r[1], r[2]>> /\ r[1] \in D /\ r[2] \in D
    OBVIOUS
  <2> QED
    BY <1>5, <2>1
<1>7. f = [r \in D \X D |-> f[r]]
  BY <1>4
<1>8. IsSearch(n, L, f)
  BY <1>6, <1>7 DEF IsSearch
<1> QED
  BY <1>8

LEMMA SearchInRange ==
  ASSUME NEW n \in Nat, NEW L, NEW f, IsSearch(n, L, f)
  PROVE  f[<<0, n>>] \in 0 .. n
<1> DEFINE D == 0 .. n
           S == {k \in Nat : \A lo, hi \in D : hi - lo <= k => f[<<lo, hi>>] \in 0 .. n}
<1>1. \A lo, hi \in D : f[<<lo, hi>>] = SearchStep(L, f, lo, hi)
  BY DEF IsSearch
<1>2. 0 \in S
  <2> SUFFICES ASSUME NEW lo \in D, NEW hi \in D, hi - lo <= 0
               PROVE  f[<<lo, hi>>] \in 0 .. n
    OBVIOUS
  <2>1. lo >= hi
    OBVIOUS
  <2>2. f[<<lo, hi>>] = SearchStep(L, f, lo, hi)
    BY <1>1
  <2> QED
    BY <2>1, <2>2 DEF SearchStep
<1>3. ASSUME NEW k \in Nat, k \in S
      PROVE  k + 1 \in S
  <2> SUFFICES ASSUME NEW lo \in D, NEW hi \in D, hi - lo <= k + 1
               PROVE  f[<<lo, hi>>] \in 0 .. n
    OBVIOUS
  <2>1. CASE lo >= hi
    BY <1>1, <2>1 DEF SearchStep
  <2>2. CASE lo < hi
    <3> DEFINE mid == (lo + hi) \div 2
    <3>1. mid \in lo .. hi - 1
      BY <2>2, Halves
    <3> HIDE DEF mid
    <3>2. mid \in D /\ mid + 1 \in D /\ mid - lo <= k /\ hi - (mid + 1) <= k
      BY <3>1
    <3>3. f[<<lo, mid>>] \in 0 .. n /\ f[<<mid + 1, hi>>] \in 0 .. n
      BY <1>3, <3>2
    <3> QED
      BY <1>1, <2>2, <3>3 DEF SearchStep, mid
  <2> QED
    BY <2>1, <2>2
<1> HIDE DEF S
<1>4. n \in S
  BY <1>2, <1>3, SetInduction
<1> QED
  BY <1>4 DEF S

\* The search ends on a slot of the node or behind the last one.
LEMMA FindLowerIs ==
  ASSUME NEW H \in Heaps, NEW n \in Allocated(H), NEW key
  PROVE  find_lower(H, n, key) \in 0 .. slotuse(H, n)
<1> DEFINE keys == SlotKeys(H, n)
           N == Len(keys)
           L == {i \in 1 .. N : key <= keys[i]}
<1>1. N = slotuse(H, n) /\ N \in Nat
  BY SlotKey, NodeIs
<1>2. \E g : IsSearch(N, L, g)
  BY <1>1, SearchExists
<1> DEFINE body(g, r) == IF r[1] >= r[2] THEN r[1]
                         ELSE IF key <= keys[(r[1] + r[2]) \div 2 + 1]
                           THEN g[<<r[1], (r[1] + r[2]) \div 2>>]
                           ELSE g[<<(r[1] + r[2]) \div 2 + 1, r[2]>>]
<1>3. ASSUME NEW g, NEW r \in (0 .. N) \X (0 .. N)
      PROVE  body(g, r) = SearchStep(L, g, r[1], r[2])
  <2> DEFINE m == (r[1] + r[2]) \div 2
  <2>1. r[1] \in Nat /\ r[2] \in 0 .. N
    OBVIOUS
  <2>2. r[1] < r[2] => m \in r[1] .. r[2] - 1
    BY <2>1, Halves
  <2>3. r[1] < r[2] => m + 1 \in 1 .. N
    BY <1>1, <2>1, <2>2
  <2>4. ~(r[1] >= r[2]) => (m + 1 \in L <=> key <= keys[m + 1])
    BY <2>1, <2>3
  <2> HIDE DEF L, keys
  <2> QED
    BY <2>4 DEF SearchStep
<1> HIDE DEF body
<1>4. \A g : IsSearch(N, L, g) <=> g = [r \in (0 .. N) \X (0 .. N) |-> body(g, r)]
  BY <1>3 DEF IsSearch
<1> DEFINE f == CHOOSE g : g = [r \in (0 .. N) \X (0 .. N) |-> body(g, r)]
<1>5. find_lower(H, n, key) = f[<<0, N>>]
  BY DEF find_lower, BinarySearch, body
<1>6. IsSearch(N, L, f)
  BY <1>2, <1>4
<1> QED
  BY <1>1, <1>5, <1>6, SearchInRange

-----------------------------------------------------------------------------
(* Trees and their nodes                                                   *)

LEMMA TreeIs ==
  ASSUME NEW H, NEW root, NEW S, NEW R, Tree(H, root, S, R)
  PROVE  Forest(Allocated(H), LevelsOf(H), KidsOf(H), ({root} \ {NULL}) \cup S, R)
BY DEF Tree

LEMMA RootIs ==
  ASSUME NEW H \in Heaps, NEW root, NEW S, NEW R, Tree(H, root, S, R), root # NULL
  PROVE  /\ root \in Allocated(H) /\ H[root].level \in Nat /\ S \subseteq Allocated(H)
         /\ \A n \in Allocated(H) \ S : H[n].level <= H[root].level
<1>1. Forest(Allocated(H), LevelsOf(H), KidsOf(H), ({root} \ {NULL}) \cup S, R)
  BY DEF Tree
<1>2. ({root} \ {NULL}) \cup S \subseteq Allocated(H)
  BY <1>1 DEF Forest, ForestKids
<1>3. root \in Allocated(H) /\ S \subseteq Allocated(H)
  BY <1>2
<1>4. \A n \in Allocated(H) : H[n].level \in Nat
  BY NodeIs
<1>5. \A n \in Allocated(H) : n = root \/ n \in S \/ H[n].level < H[root].level
  BY DEF Tree
<1>6. ASSUME NEW n \in Allocated(H) \ S PROVE H[n].level <= H[root].level
  BY <1>3, <1>4, <1>5
<1> QED
  BY <1>3, <1>4, <1>6

\* A child of an inner node, by its slot.
LEMMA ChildOf ==
  ASSUME NEW H \in Heaps, NEW root, NEW S, NEW R, NEW E, Tree(H, root, S, R), NodesHold(H, E),
         NEW n \in Allocated(H) \ E, H[n].level > 0, NEW slot \in 0 .. slotuse(H, n)
  PROVE  /\ slot + 1 \in 1 .. Len(Kids(H, n)) /\ childid(H, n, slot) = Kids(H, n)[slot + 1]
         /\ childid(H, n, slot) \in Allocated(H)
         /\ H[childid(H, n, slot)].level = H[n].level - 1
         /\ childid(H, n, slot) \notin S /\ childid(H, n, slot) # root
<1>1. Forest(Allocated(H), LevelsOf(H), KidsOf(H), ({root} \ {NULL}) \cup S, R)
  BY TreeIs
<1>2. ~isleafnode(H, n)
  BY NodeIs DEF isleafnode
<1>3. Len(H[n].child) = slotuse(H, n) + 1
  BY <1>2 DEF NodesHold, Kids
<1>4. childid(H, n, slot) \notin ({root} \ {NULL}) \cup S /\ childid(H, n, slot) # NULL
  <2>1. childid(H, n, slot) \in Allocated(H)
    BY <1>1, <1>3, ChildIs
  <2> QED
    BY <1>1, <1>3, <2>1, ChildIs, NodeIs
<1> QED
  BY <1>1, <1>3, <1>4, ChildIs

\* Two heaps with the same nodes, the same tree, the same links of the leaves
\* and the same number of slots.
SameNodes(H, G) ==
  /\ Allocated(G) = Allocated(H)
  /\ \A n \in Allocated(H) : G[n].level = H[n].level /\ Kids(G, n) = Kids(H, n)

SameLinks(H, G) ==
  \A n \in Leaves(H) : G[n].next = H[n].next /\ G[n].prev = H[n].prev

SameSizes(H, G) == \A n \in Allocated(H) : slotuse(G, n) = slotuse(H, n)
Rekeyed(H, G) == SameNodes(H, G) /\ SameLinks(H, G) /\ SameSizes(H, G)

LEMMA SameKinds ==
  ASSUME NEW H, NEW G, SameNodes(H, G)
  PROVE  /\ \A n \in Allocated(H) : isleafnode(G, n) <=> isleafnode(H, n)
         /\ Leaves(G) = Leaves(H) /\ InnerNodes(G) = InnerNodes(H)
BY DEF SameNodes, isleafnode, Leaves, InnerNodes

LEMMA SameTree ==
  ASSUME NEW H, NEW G, NEW root, NEW S, NEW R, SameNodes(H, G), Tree(H, root, S, R),
         root = NULL \/ root \in Allocated(H)
  PROVE  Tree(G, root, S, R)
<1>1. LevelsOf(G) = LevelsOf(H) /\ KidsOf(G) = KidsOf(H)
  BY DEF SameNodes, LevelsOf, KidsOf
<1>2. Allocated(G) = Allocated(H) /\ \A n \in Allocated(H) : G[n].level = H[n].level
  BY DEF SameNodes
<1>3. root = NULL => Allocated(G) = {}
  BY <1>2 DEF Tree
<1>4. ASSUME NEW n \in Allocated(G)
      PROVE  n = root \/ n \in S \/ G[n].level < G[root].level
  <2>1. root \in Allocated(H)
    BY <1>2, <1>3, <1>4
  <2>2. n = root \/ n \in S \/ H[n].level < H[root].level
    BY <1>2 DEF Tree
  <2> QED
    BY <1>2, <2>1, <2>2
<1> QED
  BY <1>1, <1>2, <1>3, <1>4 DEF Tree

LEMMA SameChain ==
  ASSUME NEW H, NEW G, NEW E, NEW R, SameNodes(H, G), SameLinks(H, G), Linked(H, E, R)
  PROVE  Linked(G, E, R)
<1>1. Leaves(G) = Leaves(H)
  BY SameKinds
<1>2. Nexts(G) = Nexts(H) /\ Prevs(G) = Prevs(H)
  BY <1>1 DEF SameLinks, Nexts, Prevs
<1> QED
  BY <1>1, <1>2 DEF Linked

LEMMA RekeyedKeeps ==
  ASSUME NEW H, NEW G, Rekeyed(H, G)
  PROVE  /\ SameNodes(H, G) /\ SameLinks(H, G)
         /\ \A E : NodesHold(H, E) => NodesHold(G, E)
         /\ \A E, root, least : Filled(H, E, root, least) => Filled(G, E, root, least)
         /\ Pairs(G) = Pairs(H)
<1>1. /\ Allocated(G) = Allocated(H) /\ Leaves(G) = Leaves(H)
      /\ \A n \in Allocated(H) : isleafnode(G, n) <=> isleafnode(H, n)
      /\ \A n \in Allocated(H) : slotuse(G, n) = slotuse(H, n) /\ Kids(G, n) = Kids(H, n)
  BY SameKinds DEF Rekeyed, SameNodes, SameSizes
<1>2. ASSUME NEW E, NodesHold(H, E) PROVE NodesHold(G, E)
  BY <1>1, <1>2 DEF NodesHold
<1>3. ASSUME NEW E, NEW root, NEW least, Filled(H, E, root, least) PROVE Filled(G, E, root, least)
  BY <1>1, <1>3 DEF Filled
<1>4. Pairs(G) = Pairs(H)
  <2>1. \A n \in Leaves(H) : slotuse(G, n) = slotuse(H, n)
    BY <1>1 DEF Leaves
  <2> QED
    BY <1>1, <2>1 DEF Pairs
<1> QED
  BY <1>2, <1>3, <1>4 DEF Rekeyed

LEMMA RekeyedShape ==
  ASSUME NEW H, NEW G, NEW root, NEW S, NEW E, NEW R, Rekeyed(H, G), Shape(H, root, S, E, R),
         root = NULL \/ root \in Allocated(H)
  PROVE  Shape(G, root, S, E, R)
<1>1. SameNodes(H, G) /\ SameLinks(H, G) /\ NodesHold(G, E)
  BY RekeyedKeeps DEF Shape
<1> QED
  BY <1>1, SameTree, SameChain DEF Shape

LEMMA RekeyedTwice ==
  ASSUME NEW H, NEW G, NEW J, Rekeyed(H, G), Rekeyed(G, J)
  PROVE  Rekeyed(H, J)
<1>1. Leaves(G) = Leaves(H) /\ Leaves(J) = Leaves(H)
  BY SameKinds DEF Rekeyed
<1> QED
  BY <1>1 DEF Rekeyed, SameNodes, SameLinks, SameSizes

LEMMA RekeyedSelf ==
  ASSUME NEW H PROVE Rekeyed(H, H)
BY DEF Rekeyed, SameNodes, SameLinks, SameSizes

\* SetKey changes a key and nothing else.
LEMMA SetKeyIs ==
  ASSUME NEW H \in Heaps, NEW p \in Allocated(H), H[p].level > 0, NEW k \in Key, NEW slot
  PROVE  SetKey(H, p, slot, k) \in Heaps /\ Rekeyed(H, SetKey(H, p, slot, k))
<1> DEFINE G == [H EXCEPT ![p].keys[slot + 1] = k]
<1>1. CASE SetKey(H, p, slot, k) = H
  BY <1>1, RekeyedSelf
<1>2. CASE SetKey(H, p, slot, k) = G
  <2>1. p \in NodeId /\ H[p] \in Inner /\ ~isleafnode(H, p)
    BY NodeIs DEF isleafnode
  <2> DEFINE ks == [H[p].keys EXCEPT ![slot + 1] = k]
             node == [H[p] EXCEPT !.keys = ks]
  <2>2. H[p].keys \in Seq(Key) /\ H[p].level \in Nat \ {0} /\ H[p].child \in Seq(NodeId)
    BY <2>1 DEF Inner
  <2>3. ks \in Seq(Key) /\ Len(ks) = Len(H[p].keys)
    <3>1. H[p].keys \in [1 .. Len(H[p].keys) -> Key] /\ Len(H[p].keys) \in Nat
      BY <2>2
    <3>2. ks \in [1 .. Len(H[p].keys) -> Key]
      BY <3>1
    <3> HIDE DEF ks
    <3> QED
      BY <3>1, <3>2
  <2>4. G = [H EXCEPT ![p] = node]
    OBVIOUS
  <2> HIDE DEF ks
  <2>5. node \in Inner /\ node.keys = ks /\ node.level = H[p].level /\ node.child = H[p].child
    BY <2>1, <2>2, <2>3 DEF Inner
  <2> HIDE DEF node, G
  <2>6. G \in [NodeId -> Leaf \cup Inner \cup {NULL}] /\ G[p] = node
        /\ \A n \in NodeId \ {p} : G[n] = H[n]
    BY <2>1, <2>4, <2>5 DEF Heaps
  <2>7. node # NULL
    BY <2>5, NULLAssumption
  <2>8. Allocated(G) = Allocated(H)
    BY <2>6, <2>7, NodeIs DEF Allocated
  <2>9. ASSUME NEW n \in Allocated(H)
        PROVE  /\ G[n].level = H[n].level /\ Kids(G, n) = Kids(H, n) /\ slotuse(G, n) = slotuse(H, n)
               /\ isleafnode(H, n) => G[n].next = H[n].next /\ G[n].prev = H[n].prev
    <3>1. CASE n # p
      <4>1. n \in NodeId
        BY NodeIs
      <4>2. G[n] = H[n]
        BY <2>6, <3>1, <4>1
      <4> QED
        BY <4>2 DEF Kids, slotuse, isleafnode
    <3>2. CASE n = p
      BY <2>1, <2>3, <2>5, <2>6, <3>2 DEF Kids, slotuse, isleafnode
    <3> QED
      BY <3>1, <3>2
  <2>10. Rekeyed(H, G)
    BY <2>8, <2>9 DEF Rekeyed, SameNodes, SameLinks, SameSizes, Leaves
  <2> QED
    BY <1>2, <2>6, <2>10 DEF Heaps
<1> QED
  BY <1>1, <1>2 DEF SetKey

-----------------------------------------------------------------------------
(* Frames                                                                  *)

LEMMA FrontIs ==
  ASSUME NEW F, NEW st \in Seq(F), st # <<>>
  PROVE  /\ Front(st) \in Seq(F) /\ Len(st) \in Nat \ {0} /\ Len(Front(st)) = Len(st) - 1
         /\ \A i \in 1 .. Len(st) - 1 : Front(st)[i] = st[i]
         /\ Last(st) = st[Len(st)] /\ Last(st) \in F
         /\ \A i \in 1 .. Len(st) : st[i] \in F
         /\ Front(st) = <<>> <=> Len(st) = 1
<1>1. Len(st) \in Nat \ {0} /\ \A i \in 1 .. Len(st) : st[i] \in F
  OBVIOUS
<1>2. 1 \in 1 .. Len(st) + 1 /\ Len(st) - 1 \in 1 - 1 .. Len(st)
  BY <1>1
<1>3. /\ Front(st) \in Seq(F) /\ Len(Front(st)) = (Len(st) - 1) - 1 + 1
      /\ \A j \in 1 .. (Len(st) - 1) - 1 + 1 : Front(st)[j] = st[1 + j - 1]
  BY <1>2, SliceIs DEF Front
<1>4. Len(Front(st)) = Len(st) - 1 /\ \A i \in 1 .. Len(st) - 1 : Front(st)[i] = st[i]
  BY <1>1, <1>3
<1>5. Last(st) = st[Len(st)] /\ Last(st) \in F
  BY <1>1 DEF Last
<1>6. Front(st) = <<>> <=> Len(Front(st)) = 0
  BY <1>3
<1> QED
  BY <1>1, <1>3, <1>4, <1>5, <1>6

\* The stack with the last frame changed and one frame more.
LEMMA PushIs ==
  ASSUME NEW F, NEW st \in Seq(F), st # <<>>, NEW f \in F, NEW g \in F
  PROVE  /\ Append(Front(st), f) \o <<g>> \in Seq(F)
         /\ Len(Append(Front(st), f) \o <<g>>) = Len(st) + 1
         /\ \A i \in 1 .. Len(st) - 1 : (Append(Front(st), f) \o <<g>>)[i] = st[i]
         /\ (Append(Front(st), f) \o <<g>>)[Len(st)] = f
         /\ (Append(Front(st), f) \o <<g>>)[Len(st) + 1] = g
<1> DEFINE u == Front(st)
<1>1. u \in Seq(F) /\ Len(st) \in Nat \ {0} /\ Len(u) = Len(st) - 1
      /\ \A i \in 1 .. Len(st) - 1 : u[i] = st[i]
  BY FrontIs
<1> HIDE DEF u
<1>2. Append(u, f) \in Seq(F) /\ Len(Append(u, f)) = Len(u) + 1 /\ Append(u, f)[Len(u) + 1] = f
      /\ \A i \in 1 .. Len(u) : Append(u, f)[i] = u[i]
  BY <1>1
<1> DEFINE v == Append(u, f)
<1> HIDE DEF v
<1>3. v \in Seq(F) /\ Len(v) = Len(st) /\ v[Len(st)] = f /\ \A i \in 1 .. Len(st) - 1 : v[i] = st[i]
  BY <1>1, <1>2 DEF v
<1>4. <<g>> \in Seq(F) /\ Len(<<g>>) = 1 /\ <<g>>[1] = g
  OBVIOUS
<1>5. v \o <<g>> \in Seq(F) /\ Joins(v \o <<g>>, v, <<g>>)
  BY <1>3, <1>4, ConcatIs
<1>6. /\ Len(v \o <<g>>) = Len(st) + 1
      /\ \A i \in 1 .. Len(st) : (v \o <<g>>)[i] = v[i]
      /\ (v \o <<g>>)[1 + Len(st)] = g
  BY <1>3, <1>4, <1>5 DEF Joins
<1>7. 1 + Len(st) = Len(st) + 1 /\ Len(st) \in 1 .. Len(st)
      /\ \A i \in 1 .. Len(st) - 1 : i \in 1 .. Len(st)
  BY <1>1
<1>8. /\ v \o <<g>> \in Seq(F) /\ Len(v \o <<g>>) = Len(st) + 1
      /\ \A i \in 1 .. Len(st) - 1 : (v \o <<g>>)[i] = st[i]
      /\ (v \o <<g>>)[Len(st)] = f /\ (v \o <<g>>)[Len(st) + 1] = g
  BY <1>3, <1>5, <1>6, <1>7
<1> QED
  BY <1>8 DEF v, u

\* A change at level l and below: nodes of the level stay nodes, and above it
\* only keys change.
Kept(H, G, l) ==
  \A n \in Allocated(H) :
    /\ H[n].level >= l => n \in Allocated(G) /\ G[n].level = H[n].level
    /\ H[n].level > l => slotuse(G, n) = slotuse(H, n) /\ Kids(G, n) = Kids(H, n)

LEMMA KeptRekeyed ==
  ASSUME NEW H, NEW G, NEW l, Rekeyed(H, G)
  PROVE  Kept(H, G, l)
BY DEF Kept, Rekeyed, SameNodes, SameSizes

LEMMA KeptTwice ==
  ASSUME NEW H, NEW G, NEW J, NEW l, Kept(H, G, l), Kept(G, J, l), l \in Int,
         \A n \in Allocated(H) : H[n].level \in Int
  PROVE  Kept(H, J, l)
BY DEF Kept

LEMMA KeptChild ==
  ASSUME NEW H \in Heaps, NEW G, NEW l \in Nat, Kept(H, G, l), NEW n \in Allocated(H), H[n].level > l
  PROVE  /\ n \in Allocated(G) /\ G[n].level = H[n].level /\ slotuse(G, n) = slotuse(H, n)
         /\ \A s : childid(G, n, s) = childid(H, n, s)
<1>1. H[n].level \in Nat
  BY NodeIs
<1>2. n \in Allocated(G) /\ G[n].level = H[n].level /\ slotuse(G, n) = slotuse(H, n)
      /\ Kids(G, n) = Kids(H, n)
  BY <1>1 DEF Kept
<1>3. ~isleafnode(H, n) /\ ~isleafnode(G, n)
  BY <1>1, <1>2 DEF isleafnode
<1>4. G[n].child = H[n].child
  BY <1>2, <1>3 DEF Kids
<1> QED
  BY <1>2, <1>4 DEF childid

\* What a change below leaves of the frames above.
LEMMA PathKept ==
  ASSUME NEW H \in Heaps, NEW G, NEW F, NEW st \in Seq(F), st # <<>>,
         NEW root, Path(H, root, st), Kept(H, G, H[Last(st).curr].level)
  PROVE  /\ Path(G, root, Front(st)) /\ Paused(G, Front(st))
         /\ Front(st) = <<>> => Last(st).curr = root
         /\ Front(st) # <<>> => childid(G, Last(Front(st)).curr, Last(Front(st)).slot) = Last(st).curr
<1> DEFINE L == Len(st)
           u == Front(st)
           l == H[Last(st).curr].level
<1>1. /\ L \in Nat \ {0} /\ Len(u) = L - 1 /\ u \in Seq(F) /\ Last(st) = st[L]
      /\ \A i \in 1 .. L - 1 : u[i] = st[i]
      /\ u = <<>> <=> L = 1
  BY FrontIs
<1>2. /\ st[1].curr = root
      /\ \A i \in 1 .. L : st[i].curr \in Allocated(H) /\ H[st[i].curr].level = H[root].level - i + 1
      /\ \A i \in 1 .. L - 1 : AtChild(H, st[i]) /\ childid(H, st[i].curr, st[i].slot) = st[i + 1].curr
  BY DEF Path
<1>3. root \in Allocated(H) /\ H[root].level \in Nat /\ l = H[root].level - L + 1 /\ l \in Nat
  <2>1. L \in 1 .. L /\ 1 \in 1 .. L
    BY <1>1
  <2> QED
    BY <1>1, <1>2, <2>1, NodeIs
<1>4. Kept(H, G, l)
  OBVIOUS
<1> HIDE DEF L, u, l
<1>5. G[root].level = H[root].level
  BY <1>1, <1>3, <1>4 DEF Kept
<1>6. ASSUME NEW i \in 1 .. L - 1
      PROVE  /\ st[i].curr \in Allocated(G) /\ G[st[i].curr].level = G[root].level - i + 1
             /\ AtChild(G, st[i]) /\ childid(G, st[i].curr, st[i].slot) = st[i + 1].curr
  <2>1. i \in 1 .. L
    BY <1>1
  <2>2. st[i].curr \in Allocated(H) /\ H[st[i].curr].level = H[root].level - i + 1
        /\ AtChild(H, st[i]) /\ childid(H, st[i].curr, st[i].slot) = st[i + 1].curr
    BY <1>2, <2>1
  <2>3. H[st[i].curr].level > l
    BY <1>1, <1>3, <2>2
  <2>4. /\ st[i].curr \in Allocated(G) /\ G[st[i].curr].level = H[st[i].curr].level
        /\ slotuse(G, st[i].curr) = slotuse(H, st[i].curr)
        /\ childid(G, st[i].curr, st[i].slot) = childid(H, st[i].curr, st[i].slot)
    BY <1>3, <1>4, <2>2, <2>3, KeptChild
  <2> QED
    BY <1>5, <2>2, <2>4 DEF AtChild
<1>7. Path(G, root, u)
  <2>1. u # <<>> => u[1].curr = root
    <3>1. u # <<>> => 1 \in 1 .. L - 1
      BY <1>1
    <3> QED
      BY <1>1, <1>2, <3>1
  <2>2. \A i \in 1 .. Len(u) : u[i].curr \in Allocated(G) /\ G[u[i].curr].level = G[root].level - i + 1
    BY <1>1, <1>6
  <2>3. ASSUME NEW i \in 1 .. Len(u) - 1
        PROVE  AtChild(G, u[i]) /\ childid(G, u[i].curr, u[i].slot) = u[i + 1].curr
    <3>1. i \in 1 .. L - 1 /\ i + 1 \in 1 .. L - 1
      BY <1>1
    <3>2. u[i] = st[i] /\ u[i + 1] = st[i + 1]
      BY <1>1, <3>1
    <3> QED
      BY <1>6, <3>1, <3>2
  <2> QED
    BY <2>1, <2>2, <2>3 DEF Path
<1>8. u # <<>> => /\ AtChild(G, Last(u))
                  /\ childid(G, Last(u).curr, Last(u).slot) = Last(st).curr
  <2> SUFFICES ASSUME u # <<>>
               PROVE AtChild(G, Last(u)) /\ childid(G, Last(u).curr, Last(u).slot) = Last(st).curr
    OBVIOUS
  <2>1. L - 1 \in 1 .. L - 1 /\ (L - 1) + 1 = L
    BY <1>1
  <2>2. Last(u) = u[L - 1]
    BY <1>1 DEF Last
  <2>3. Last(u) = st[L - 1]
    BY <1>1, <2>1, <2>2
  <2> QED
    BY <1>1, <1>6, <2>1, <2>3
<1>9. u = <<>> => Last(st).curr = root
  BY <1>1, <1>2
<1> QED
  BY <1>7, <1>8, <1>9 DEF Paused, u

SameOrder(H, R, G, Q, l) ==
  \A a, b \in Allocated(H) :
    H[a].level > l /\ IsNext(Allocated(H), R, a, b) => IsNext(Allocated(G), Q, a, b)

LEMMA SurroundedKept ==
  ASSUME NEW H \in Heaps, NEW G, NEW F, NEW st \in Seq(F), st # <<>>,
         NEW root, Path(H, root, st), Kept(H, G, H[Last(st).curr].level), NEW R, NEW Q,
         Surrounded(H, R, st), SameOrder(H, R, G, Q, H[Last(st).curr].level),
         Forest(Allocated(H), LevelsOf(H), KidsOf(H), {root}, R)
  PROVE  Surrounded(G, Q, Front(st))
<1> DEFINE L == Len(st)
           u == Front(st)
           l == H[Last(st).curr].level
<1>1. /\ L \in Nat \ {0} /\ Len(u) = L - 1 /\ u \in Seq(F) /\ Last(st) = st[L]
      /\ \A i \in 1 .. L - 1 : u[i] = st[i]
      /\ u = <<>> <=> L = 1
  BY FrontIs
<1>2. /\ st[1].curr = root
      /\ \A i \in 1 .. L : st[i].curr \in Allocated(H) /\ H[st[i].curr].level = H[root].level - i + 1
  BY DEF Path
<1>3. root \in Allocated(H) /\ H[root].level \in Nat /\ l = H[root].level - L + 1 /\ l \in Nat
  <2>1. L \in 1 .. L /\ 1 \in 1 .. L
    BY <1>1
  <2> QED
    BY <1>1, <1>2, <2>1, NodeIs
<1>4. Kept(H, G, l) /\ SameOrder(H, R, G, Q, l)
  OBVIOUS
<1> HIDE DEF L, u, l
<1>5. \A n \in Allocated(H) : H[n].level \in Nat
  BY NodeIs
<1>6. ASSUME NEW i \in 1 .. L - 1
      PROVE  /\ st[i].curr \in Allocated(H) /\ H[st[i].curr].level > l
             /\ G[st[i].curr].level = H[st[i].curr].level /\ slotuse(G, st[i].curr) = slotuse(H, st[i].curr)
             /\ \A s : childid(G, st[i].curr, s) = childid(H, st[i].curr, s)
  <2>1. i \in 1 .. L
    BY <1>1
  <2>2. st[i].curr \in Allocated(H) /\ H[st[i].curr].level > l
    BY <1>1, <1>2, <1>3, <2>1
  <2> QED
    BY <1>3, <1>4, <2>2, KeptChild
<1>7. ASSUME NEW i \in 1 .. L - 1
      PROVE  Neighbours(G, Q, st[i])
  <2> DEFINE f == st[i]
  <2>1. i \in 1 .. L
    BY <1>1
  <2>2. Neighbours(H, R, f)
    BY <2>1 DEF Surrounded, L
  <2>3. f.curr \in Allocated(H) /\ H[f.curr].level > l /\ G[f.curr].level = H[f.curr].level
    BY <1>6
  <2> HIDE DEF f
  <2>4. \A n \in Allocated(H) : H[n].level >= H[f.curr].level => n \in Allocated(G) /\ G[n].level = H[n].level
    BY <1>3, <1>4, <1>5, <2>3 DEF Kept
  <2>5. f.left # NULL => f.left \in Allocated(G) /\ G[f.left].level = G[f.curr].level
    BY <1>5, <2>2, <2>3, <2>4 DEF Neighbours
  <2>6. f.right # NULL => f.right \in Allocated(G) /\ IsNext(Allocated(G), Q, f.curr, f.right)
    <3> SUFFICES ASSUME f.right # NULL
                 PROVE  f.right \in Allocated(G) /\ IsNext(Allocated(G), Q, f.curr, f.right)
      OBVIOUS
    <3>1. f.right \in Allocated(H) /\ IsNext(Allocated(H), R, f.curr, f.right)
      BY <2>2 DEF Neighbours
    <3>2. H[f.right].level = H[f.curr].level
      <4>1. f.right \in R[f.curr]
        BY <3>1 DEF IsNext
      <4>2. LevelsOf(H)[f.right] = LevelsOf(H)[f.curr]
        BY <2>3, <3>1, <4>1 DEF Forest, LevelOrder
      <4> QED
        BY <2>3, <3>1, <4>2 DEF LevelsOf
    <3>3. f.right \in Allocated(G)
      BY <1>5, <2>3, <2>4, <3>1, <3>2
    <3>4. IsNext(Allocated(G), Q, f.curr, f.right)
      BY <1>4, <2>3, <3>1 DEF SameOrder
    <3> QED
      BY <3>3, <3>4
  <2>7. \A q \in {f.leftparent, f.rightparent} :
          q # NULL => q \in Allocated(G) /\ G[q].level > G[f.curr].level
    <3>1. \A q \in {f.leftparent, f.rightparent} :
            q # NULL => q \in Allocated(H) /\ H[q].level > H[f.curr].level
      BY <2>2 DEF Neighbours
    <3> QED
      BY <1>5, <2>3, <2>4, <3>1
  <2>8. f.left = NULL <=> f.leftparent = NULL
    BY <2>2 DEF Neighbours
  <2>9. f.right = NULL <=> f.rightparent = NULL
    BY <2>2 DEF Neighbours
  <2>10. Neighbours(G, Q, f)
    BY <2>5, <2>6, <2>7, <2>8, <2>9 DEF Neighbours
  <2> QED
    BY <2>10 DEF f
<1>8. \A i \in 1 .. Len(u) : Neighbours(G, Q, u[i])
  BY <1>1, <1>7
<1>9. u # <<>> => u[1].parent = NULL /\ u[1].left = NULL /\ u[1].right = NULL
  <2>1. st[1].parent = NULL /\ st[1].left = NULL /\ st[1].right = NULL
    BY DEF Surrounded
  <2>2. u # <<>> => 1 \in 1 .. L - 1
    BY <1>1
  <2> QED
    BY <1>1, <2>1, <2>2
<1>10. ASSUME NEW i \in 1 .. Len(u) - 1
       PROVE  BelowFrame(G, u[i], u[i + 1])
  <2>1. i \in 1 .. L - 1 /\ i + 1 \in 1 .. L - 1
    BY <1>1
  <2>2. u[i] = st[i] /\ u[i + 1] = st[i + 1]
    BY <1>1, <2>1
  <2>3. BelowFrame(H, st[i], st[i + 1])
    BY <2>1 DEF Surrounded, L
  <2>4. /\ slotuse(G, st[i].curr) = slotuse(H, st[i].curr)
        /\ \A s : childid(G, st[i].curr, s) = childid(H, st[i].curr, s)
    BY <1>6, <2>1
  <2> QED
    BY <2>2, <2>3, <2>4 DEF BelowFrame
<1> QED
  BY <1>8, <1>9, <1>10 DEF Surrounded, u

-----------------------------------------------------------------------------
(* Counting                                                                *)

\* The slots of one node.
Column(n, k) == {n} \X (1 .. k)

LEMMA ColumnCount ==
  ASSUME NEW n, NEW k \in Nat
  PROVE  IsFiniteSet(Column(n, k)) /\ Cardinality(Column(n, k)) = k
<1> DEFINE f == [i \in 1 .. k |-> <<n, i>>]
           I == 1 .. k
           C == Column(n, k)
<1>1. IsFiniteSet(I) /\ Cardinality(I) = k
  <2>1. 1 \in Int /\ k \in Int /\ (IF 1 > k THEN 0 ELSE k - 1 + 1) = k
    OBVIOUS
  <2> QED
    BY <2>1, FS_Interval
<1>2. f \in [I -> C]
  BY DEF Column
<1>3. \A a, b \in I : f[a] = f[b] => a = b
  OBVIOUS
<1>4. \A t \in C : \E a \in I : f[a] = t
  BY DEF Column
<1> HIDE DEF f, I, C
<1>5. f \in Bijection(I, C)
  BY <1>2, <1>3, <1>4 DEF Bijection, Injection, Surjection, IsInjective
<1>6. ExistsBijection(I, C)
  BY <1>5 DEF ExistsBijection
<1>7. IsFiniteSet(C) /\ Cardinality(C) = k
  BY <1>1, <1>6, FS_Bijection
<1> QED
  BY <1>7 DEF C

\* The number of pairs a node holds.
Held(H, n) == IF n \in Leaves(H) THEN slotuse(H, n) ELSE 0

LEMMA AllocatedFinite ==
  ASSUME NEW H
  PROVE  /\ IsFiniteSet(Allocated(H)) /\ IsFiniteSet(Leaves(H)) /\ IsFiniteSet(InnerNodes(H))
         /\ Cardinality(Leaves(H)) \in Nat /\ Cardinality(InnerNodes(H)) \in Nat
<1>1. IsFiniteSet(Allocated(H))
  BY NodeAssumption, FS_Subset DEF Allocated
<1>2. IsFiniteSet(Leaves(H)) /\ IsFiniteSet(InnerNodes(H))
  BY <1>1, FS_Subset DEF Leaves, InnerNodes
<1> QED
  BY <1>1, <1>2, FS_CardinalityType

LEMMA PairsFinite ==
  ASSUME NEW H
  PROVE  IsFiniteSet(Pairs(H)) /\ Cardinality(Pairs(H)) \in Nat
<1>1. IsFiniteSet(Leaves(H) \X (1 .. leafslotmax))
  <2>1. IsFiniteSet(1 .. leafslotmax)
    BY Sizes, FS_Interval
  <2> QED
    BY <2>1, AllocatedFinite, FS_Product
<1> QED
  BY <1>1, FS_Subset, FS_CardinalityType DEF Pairs

LEMMA AddDisjoint ==
  ASSUME NEW S, IsFiniteSet(S), NEW T, IsFiniteSet(T), S \cap T = {}
  PROVE  IsFiniteSet(S \cup T) /\ Cardinality(S \cup T) = Cardinality(S) + Cardinality(T)
<1>1. /\ IsFiniteSet(S \cup T)
      /\ Cardinality(S \cup T) = Cardinality(S) + Cardinality(T) - Cardinality(S \cap T)
  BY FS_Union
<1>2. Cardinality(S \cap T) = 0
  BY FS_EmptySet
<1>3. Cardinality(S) \in Nat /\ Cardinality(T) \in Nat
  BY FS_CardinalityType
<1> QED
  BY <1>1, <1>2, <1>3

\* The pairs apart from those of two nodes.
LEMMA PairsApart ==
  ASSUME NEW H, NEW a, NEW b, a # b, Held(H, a) \in 0 .. leafslotmax, Held(H, b) \in 0 .. leafslotmax
  PROVE  /\ Cardinality({q \in Pairs(H) : q[1] \notin {a, b}}) \in Nat
         /\ Cardinality(Pairs(H)) =
              Cardinality({q \in Pairs(H) : q[1] \notin {a, b}}) + Held(H, a) + Held(H, b)
<1> DEFINE Rest == {q \in Pairs(H) : q[1] \notin {a, b}}
           A == Column(a, Held(H, a))
           B == Column(b, Held(H, b))
<1>1. leafslotmax \in Nat
  BY Sizes
<1>2. IsFiniteSet(Rest) /\ Cardinality(Rest) \in Nat
  BY PairsFinite, FS_Subset, FS_CardinalityType
<1>3. /\ IsFiniteSet(A) /\ Cardinality(A) = Held(H, a)
      /\ IsFiniteSet(B) /\ Cardinality(B) = Held(H, b)
  BY <1>1, ColumnCount
<1>4. ASSUME NEW n, Held(H, n) \in 0 .. leafslotmax
      PROVE  Column(n, Held(H, n)) = {q \in Pairs(H) : q[1] = n}
  <2>1. ASSUME NEW q \in Column(n, Held(H, n)) PROVE q \in Pairs(H) /\ q[1] = n
    <3>1. q = <<n, q[2]>> /\ q[2] \in 1 .. Held(H, n) /\ q[1] = n
      BY DEF Column
    <3>2. n \in Leaves(H) /\ Held(H, n) = slotuse(H, n)
      BY <1>1, <1>4, <3>1 DEF Held
    <3>3. q[2] \in 1 .. leafslotmax /\ q[2] <= slotuse(H, n)
      BY <1>1, <1>4, <3>1, <3>2
    <3> QED
      BY <3>1, <3>2, <3>3 DEF Pairs
  <2>2. ASSUME NEW q \in Pairs(H), q[1] = n PROVE q \in Column(n, Held(H, n))
    <3>1. q = <<n, q[2]>> /\ n \in Leaves(H) /\ q[2] \in 1 .. leafslotmax /\ q[2] <= slotuse(H, n)
      BY <2>2 DEF Pairs
    <3>2. q[2] \in 1 .. Held(H, n)
      BY <1>1, <1>4, <3>1 DEF Held
    <3> QED
      BY <3>1, <3>2 DEF Column
  <2> QED
    BY <2>1, <2>2
<1>5. A = {q \in Pairs(H) : q[1] = a} /\ B = {q \in Pairs(H) : q[1] = b}
  BY <1>4
<1>6. Pairs(H) = (Rest \cup A) \cup B /\ Rest \cap A = {} /\ (Rest \cup A) \cap B = {}
  BY <1>5
<1> HIDE DEF Rest, A, B
<1>7. IsFiniteSet(Rest \cup A) /\ Cardinality(Rest \cup A) = Cardinality(Rest) + Cardinality(A)
  BY <1>2, <1>3, <1>6, AddDisjoint
<1>8. Cardinality(Pairs(H)) = Cardinality(Rest \cup A) + Cardinality(B)
  BY <1>3, <1>6, <1>7, AddDisjoint
<1>9. Cardinality(Pairs(H)) = Cardinality(Rest) + Held(H, a) + Held(H, b)
  BY <1>3, <1>7, <1>8
<1> QED
  BY <1>2, <1>9 DEF Rest

\* Only a and b hold something else than before.
LEMMA PairsChange ==
  ASSUME NEW H, NEW G, NEW a, NEW b, a # b,
         Held(H, a) \in 0 .. leafslotmax, Held(H, b) \in 0 .. leafslotmax,
         Held(G, a) \in 0 .. leafslotmax, Held(G, b) \in 0 .. leafslotmax,
         \A n \in NodeId \ {a, b} :
           (n \in Leaves(G) <=> n \in Leaves(H)) /\ slotuse(G, n) = slotuse(H, n)
  PROVE  Cardinality(Pairs(G)) - Cardinality(Pairs(H))
           = (Held(G, a) + Held(G, b)) - (Held(H, a) + Held(H, b))
<1>1. {q \in Pairs(G) : q[1] \notin {a, b}} = {q \in Pairs(H) : q[1] \notin {a, b}}
  <2>1. Leaves(G) \subseteq NodeId /\ Leaves(H) \subseteq NodeId
    BY DEF Leaves, Allocated
  <2> QED
    BY <2>1 DEF Pairs
<1> DEFINE r == Cardinality({q \in Pairs(H) : q[1] \notin {a, b}})
<1>2. r \in Nat /\ Cardinality(Pairs(H)) = r + Held(H, a) + Held(H, b)
  BY PairsApart
<1>3. Cardinality(Pairs(G)) = r + Held(G, a) + Held(G, b)
  BY <1>1, PairsApart
<1> HIDE DEF r
<1> QED
  BY <1>2, <1>3, Sizes

-----------------------------------------------------------------------------
(* Pairs come and go                                                       *)

\* G is H with other pairs in the leaf a.
Refilled(H, G, a, s) == G = [H EXCEPT ![a].slots = s]

LEMMA LeafNode ==
  ASSUME NEW H \in Heaps, NEW a \in Leaves(H)
  PROVE  /\ a \in NodeId /\ a \in Allocated(H) /\ H[a] \in Leaf /\ H[a].level = 0 /\ isleafnode(H, a)
         /\ H[a].slots \in Seq(Pair) /\ slotuse(H, a) = Len(H[a].slots) /\ slotuse(H, a) \in Nat
         /\ H[a].next \in NodeId \cup {NULL} /\ H[a].prev \in NodeId \cup {NULL}
         /\ H[a] = [level |-> 0, slots |-> H[a].slots, prev |-> H[a].prev, next |-> H[a].next]
<1>1. a \in Allocated(H) /\ isleafnode(H, a)
  BY DEF Leaves
<1>2. a \in NodeId /\ H[a] \in Leaf /\ H[a].slots \in Seq(Pair) /\ slotuse(H, a) = Len(H[a].slots)
      /\ slotuse(H, a) \in Nat
  BY <1>1, NodeIs
<1> QED
  BY <1>1, <1>2 DEF Leaf

\* Other pairs in one leaf.
LEMMA RefillOne ==
  ASSUME NEW H \in Heaps, NEW G, NEW a \in Leaves(H), NEW s \in Seq(Pair), Refilled(H, G, a, s)
  PROVE  /\ G \in Heaps /\ SameNodes(H, G) /\ SameLinks(H, G) /\ Kept(H, G, 0)
         /\ G[a].slots = s /\ slotuse(G, a) = Len(s)
         /\ \A n \in NodeId \ {a} : G[n] = H[n] /\ slotuse(G, n) = slotuse(H, n)
         /\ Leaves(G) = Leaves(H) /\ InnerNodes(G) = InnerNodes(H)
<1>1. a \in NodeId /\ DOMAIN H = NodeId /\ H[a] \in Leaf /\ H[a].level = 0
      /\ a \in Allocated(H) /\ H[a] # NULL
  BY LeafNode, NodeIs DEF Heaps
<1>2. G[a] = [H[a] EXCEPT !.slots = s] /\ \A n \in NodeId \ {a} : G[n] = H[n]
  BY <1>1 DEF Refilled
<1>3. G = [n \in NodeId |-> G[n]]
  BY <1>1 DEF Refilled
<1>4. /\ G[a] \in Leaf /\ G[a].level = 0 /\ G[a].slots = s
      /\ G[a].next = H[a].next /\ G[a].prev = H[a].prev
  BY <1>1, <1>2 DEF Leaf
<1>5. G[a] # NULL
  BY <1>4, NULLAssumption
<1>6. \A n \in NodeId \ {a} : G[n] = H[n] /\ slotuse(G, n) = slotuse(H, n)
  BY <1>2 DEF slotuse, isleafnode
<1>7. G \in Heaps
  <2>1. \A n \in NodeId : G[n] \in Leaf \cup Inner \cup {NULL}
    BY <1>2, <1>4 DEF Heaps
  <2> QED
    BY <1>3, <2>1 DEF Heaps
<1>8. Allocated(G) = Allocated(H)
  BY <1>1, <1>2, <1>5 DEF Allocated
<1>9. slotuse(G, a) = Len(s)
  BY <1>4 DEF slotuse, isleafnode
<1>10. \A n \in Allocated(H) : n \in NodeId
  BY NodeIs
<1>11. SameNodes(H, G)
  <2> SUFFICES ASSUME NEW n \in Allocated(H) PROVE G[n].level = H[n].level /\ Kids(G, n) = Kids(H, n)
    BY <1>8 DEF SameNodes
  <2>1. CASE n = a
    BY <1>1, <1>4, <2>1 DEF Kids, isleafnode
  <2>2. CASE n # a
    BY <1>2, <1>10, <2>2 DEF Kids, isleafnode
  <2> QED
    BY <2>1, <2>2
<1>12. SameLinks(H, G)
  BY <1>2, <1>4, <1>10 DEF SameLinks, Leaves
<1>13. Kept(H, G, 0)
  BY <1>1, <1>6, <1>8, <1>10, <1>11 DEF Kept, SameNodes
<1> QED
  BY <1>4, <1>6, <1>7, <1>9, <1>11, <1>12, <1>13, SameKinds

\* Other pairs in two leaves.
RefilledTwo(H, G, a, b, s, t) ==
  /\ G \in Heaps /\ SameNodes(H, G) /\ SameLinks(H, G) /\ Kept(H, G, 0)
  /\ G[a].slots = s /\ slotuse(G, a) = Len(s)
  /\ G[b].slots = t /\ slotuse(G, b) = Len(t)
  /\ \A n \in NodeId \ {a, b} : G[n] = H[n] /\ slotuse(G, n) = slotuse(H, n)
  /\ Leaves(G) = Leaves(H) /\ InnerNodes(G) = InnerNodes(H)

LEMMA RefillTwo ==
  ASSUME NEW H \in Heaps, NEW M, NEW G, NEW a \in Leaves(H), NEW b \in Leaves(H), a # b,
         NEW s \in Seq(Pair), NEW t \in Seq(Pair), Refilled(H, M, a, s), Refilled(M, G, b, t)
  PROVE  RefilledTwo(H, G, a, b, s, t)
<1>1. /\ M \in Heaps /\ SameNodes(H, M) /\ SameLinks(H, M) /\ Kept(H, M, 0)
      /\ M[a].slots = s /\ slotuse(M, a) = Len(s)
      /\ \A n \in NodeId \ {a} : M[n] = H[n] /\ slotuse(M, n) = slotuse(H, n)
      /\ Leaves(M) = Leaves(H) /\ InnerNodes(M) = InnerNodes(H)
  BY RefillOne
<1>2. a \in NodeId /\ b \in NodeId /\ b \in Leaves(M)
  BY <1>1, LeafNode
<1>3. /\ G \in Heaps /\ SameNodes(M, G) /\ SameLinks(M, G) /\ Kept(M, G, 0)
      /\ G[b].slots = t /\ slotuse(G, b) = Len(t)
      /\ \A n \in NodeId \ {b} : G[n] = M[n] /\ slotuse(G, n) = slotuse(M, n)
      /\ Leaves(G) = Leaves(M) /\ InnerNodes(G) = InnerNodes(M)
  BY <1>1, <1>2, RefillOne
<1>4. G[a].slots = s /\ slotuse(G, a) = Len(s)
      /\ \A n \in NodeId \ {a, b} : G[n] = H[n] /\ slotuse(G, n) = slotuse(H, n)
  BY <1>1, <1>2, <1>3
<1>5. SameNodes(H, G)
  BY <1>1, <1>3 DEF SameNodes
<1>6. SameLinks(H, G)
  BY <1>1, <1>3 DEF SameLinks
<1>7. Kept(H, G, 0)
  <2>1. \A n \in Allocated(H) : H[n].level \in Int
    BY NodeIs
  <2> QED
    BY <1>1, <1>3, <2>1, KeptTwice
<1>8. Leaves(G) = Leaves(H) /\ InnerNodes(G) = InnerNodes(H)
  BY <1>1, <1>3
<1> QED
  BY <1>3, <1>4, <1>5, <1>6, <1>7, <1>8 DEF RefilledTwo

-----------------------------------------------------------------------------
(* The phases of a call                                                    *)

\* One frame more.
LEMMA PathPush ==
  ASSUME NEW H \in Heaps, NEW root, NEW R, Tree(H, root, {}, R), NodesHold(H, {}),
         NEW F, NEW st \in Seq(F), st # <<>>, Path(H, root, st),
         NEW f \in F, NEW g \in F, f.curr = Last(st).curr, AtChild(H, f),
         g.curr = childid(H, f.curr, f.slot)
  PROVE  /\ Append(Front(st), f) \o <<g>> \in Seq(F) /\ Append(Front(st), f) \o <<g>> # <<>>
         /\ Path(H, root, Append(Front(st), f) \o <<g>>)
<1> DEFINE L == Len(st)
           u == Append(Front(st), f) \o <<g>>
<1>1. /\ u \in Seq(F) /\ Len(u) = L + 1
      /\ \A i \in 1 .. L - 1 : u[i] = st[i]
      /\ u[L] = f /\ u[L + 1] = g
  BY PushIs
<1>2. L \in Nat \ {0} /\ Last(st) = st[L]
  BY FrontIs
<1>3. /\ st[1].curr = root
      /\ \A i \in 1 .. L : st[i].curr \in Allocated(H) /\ H[st[i].curr].level = H[root].level - i + 1
      /\ \A i \in 1 .. L - 1 : AtChild(H, st[i]) /\ childid(H, st[i].curr, st[i].slot) = st[i + 1].curr
  BY DEF Path
<1> HIDE DEF L, u
<1>4. L \in 1 .. L /\ f.curr = st[L].curr /\ 1 \in 1 .. L
  BY <1>2
<1>5. H[root].level \in Nat /\ H[f.curr].level \in Nat /\ f.curr \in Allocated(H)
  BY <1>3, <1>4, NodeIs
<1>6. g.curr \in Allocated(H) /\ H[g.curr].level = H[f.curr].level - 1
  BY <1>5, ChildOf DEF AtChild
<1>7. \A i \in 1 .. L : u[i].curr = st[i].curr
  <2> SUFFICES ASSUME NEW i \in 1 .. L PROVE u[i].curr = st[i].curr
    OBVIOUS
  <2>1. i = L \/ i \in 1 .. L - 1
    BY <1>2
  <2> QED
    BY <1>1, <1>4, <2>1
<1>8. u # <<>> /\ u[1].curr = root
  <2>1. u # <<>>
    BY <1>1, <1>2
  <2> QED
    BY <1>3, <1>4, <1>7, <2>1
<1>9. ASSUME NEW i \in 1 .. L + 1
      PROVE  u[i].curr \in Allocated(H) /\ H[u[i].curr].level = H[root].level - i + 1
  <2>1. CASE i \in 1 .. L
    BY <1>3, <1>7, <2>1
  <2>2. CASE i = L + 1
    <3>1. H[f.curr].level = H[root].level - L + 1
      BY <1>3, <1>4
    <3>2. H[g.curr].level = H[root].level - (L + 1) + 1
      <4>1. \A y, z \in Nat : y = z - L + 1 => y - 1 = z - (L + 1) + 1
        BY <1>2
      <4> QED
        BY <1>5, <1>6, <3>1, <4>1
    <3> QED
      BY <1>1, <1>6, <2>2, <3>2
  <2> QED
    BY <1>2, <2>1, <2>2
<1>10. ASSUME NEW i \in 1 .. L
       PROVE  AtChild(H, u[i]) /\ childid(H, u[i].curr, u[i].slot) = u[i + 1].curr
  <2>1. CASE i = L
    BY <1>1, <2>1
  <2>2. CASE i \in 1 .. L - 1
    <3>1. i + 1 \in 1 .. L
      BY <1>2, <2>2
    <3> QED
      BY <1>1, <1>3, <1>7, <2>2, <3>1
  <2> QED
    BY <1>2, <2>1, <2>2
<1>11. Len(u) - 1 = L
  BY <1>1, <1>2
<1>12. Path(H, root, u)
  BY <1>1, <1>8, <1>9, <1>10, <1>11 DEF Path
<1> QED
  BY <1>1, <1>8, <1>12 DEF u

\* The statistics are those of the nodes.
LEMMA CountedNodes ==
  ASSUME NEW H, NEW G, NEW stats, NEW owed, Counted(H, stats, owed),
         Leaves(G) = Leaves(H), InnerNodes(G) = InnerNodes(H),
         NEW more \in Int, Cardinality(Pairs(G)) - Cardinality(Pairs(H)) = more, owed \in Int
  PROVE  Counted(G, stats, owed - more)
<1>1. Cardinality(Pairs(G)) \in Nat /\ Cardinality(Pairs(H)) \in Nat
  BY PairsFinite
<1>2. stats.itemcount = Cardinality(Pairs(H)) + owed
  BY DEF Counted
<1>3. stats.itemcount = Cardinality(Pairs(G)) + (owed - more)
  BY <1>1, <1>2
<1> QED
  BY <1>3 DEF Counted

LEMMA HeldIs ==
  ASSUME NEW H \in Heaps, NodesHold(H, {}), NEW n
  PROVE  Held(H, n) \in 0 .. leafslotmax
<1>1. n \in Leaves(H) => slotuse(H, n) \in Nat /\ slotuse(H, n) <= leafslotmax
  <2> SUFFICES ASSUME n \in Leaves(H) PROVE slotuse(H, n) \in Nat /\ slotuse(H, n) <= leafslotmax
    OBVIOUS
  <2>1. n \in Allocated(H) /\ isleafnode(H, n) /\ slotuse(H, n) \in Nat
    BY LeafNode
  <2> QED
    BY <2>1 DEF NodesHold
<1> QED
  BY <1>1, Sizes DEF Held

-----------------------------------------------------------------------------
(* A leaf is split                                                         *)

SplitOff(H, a, d, left, right) ==
  LET old == H[a]
      split == [H EXCEPT
                 ![a] = [old EXCEPT !.slots = left, !.next = d],
                 ![d] = [level |-> 0, slots |-> right, prev |-> a, next |-> old.next]]
  IN IF old.next = NULL THEN split ELSE [split EXCEPT ![old.next].prev = d]

\* The leaf after a leaf is another one.
NextOf(H, a) == H[a].next # NULL => H[a].next \in Leaves(H) \ {a}

LEMMA LeafLine ==
  ASSUME NEW H, NEW root, NEW S, NEW R, Tree(H, root, S, R), NEW E
  PROVE  LineOrder(Leaves(H) \ E, R) /\ NULL \notin Leaves(H)
<1>1. \A a \in Leaves(H) : a \in Allocated(H) /\ LevelsOf(H)[a] = 0
  BY DEF Leaves, isleafnode, LevelsOf
<1>2. LevelOrder(Allocated(H), LevelsOf(H), R)
  BY DEF Tree, Forest
<1>3. NULL \notin Leaves(H)
  BY NodeAssumption DEF Leaves, Allocated
<1> QED
  BY <1>1, <1>2, <1>3 DEF LevelOrder, LineOrder

LEMMA NextLeaf ==
  ASSUME NEW H, NEW root, NEW S, NEW E, NEW R, Tree(H, root, S, R), Linked(H, E, R),
         NEW a \in Leaves(H) \ E
  PROVE  NextOf(H, a)
<1> DEFINE L == Leaves(H) \ E
<1>1. LineOrder(L, R) /\ Nexts(H)[a] = H[a].next /\ a \in L /\ L \subseteq Leaves(H)
  BY LeafLine DEF Nexts
<1>2. Chained(L, R, Nexts(H), Prevs(H), NULL)
  BY DEF Linked
<1> HIDE DEF L
<1>3. ASSUME H[a].next # NULL PROVE H[a].next \in Leaves(H) \ {a}
  <2>1. H[a].next \in L /\ IsNext(L, R, a, H[a].next)
    BY <1>1, <1>2, <1>3 DEF Chained
  <2> QED
    BY <1>1, <2>1, NextUnique
<1> QED
  BY <1>3 DEF NextOf

LEMMA SplitOffIs ==
  ASSUME NEW H \in Heaps, NEW a \in Leaves(H), NextOf(H, a), NEW d \in NodeId \ Allocated(H),
         NEW left \in Seq(Pair), NEW right \in Seq(Pair), NEW G, G = SplitOff(H, a, d, left, right)
  PROVE  /\ G \in Heaps /\ Leaves(G) = Leaves(H) \cup {d} /\ InnerNodes(G) = InnerNodes(H)
         /\ Allocated(G) = Allocated(H) \cup {d}
         /\ G[a].level = 0 /\ G[a].slots = left /\ G[a].next = d /\ G[a].prev = H[a].prev
         /\ G[d].level = 0 /\ G[d].slots = right /\ G[d].next = H[a].next /\ G[d].prev = a
         /\ \A n \in Allocated(H) \ {a} :
              /\ G[n].level = H[n].level /\ Kids(G, n) = Kids(H, n) /\ slotuse(G, n) = slotuse(H, n)
              /\ isleafnode(H, n) => G[n].next = H[n].next
              /\ isleafnode(H, n) => G[n].prev = IF n = H[a].next THEN d ELSE H[n].prev
         /\ \A n \in NodeId \ {a, d} : slotuse(G, n) = slotuse(H, n)
<1> DEFINE N == H[a].next
           x == [H[a] EXCEPT !.slots = left, !.next = d]
           y == [level |-> 0, slots |-> right, prev |-> a, next |-> N]
           z == [H[N] EXCEPT !.prev = d]
           split == [H EXCEPT ![a] = x, ![d] = y]
<1>1. /\ a \in NodeId /\ a \in Allocated(H) /\ H[a] \in Leaf /\ d \in NodeId /\ a # d
      /\ DOMAIN H = NodeId /\ N \in NodeId \cup {NULL}
  BY LeafNode DEF Heaps
<1>2. N # NULL => N \in Leaves(H) /\ N # a /\ N # d /\ N \in NodeId /\ H[N] \in Leaf /\ N \in Allocated(H)
  <2>1. N # NULL => N \in Leaves(H) /\ N # a
    BY DEF NextOf
  <2> QED
    BY <2>1, LeafNode
<1>3. x \in Leaf /\ x.level = 0 /\ x.slots = left /\ x.next = d /\ x.prev = H[a].prev
  BY <1>1 DEF Leaf
<1>4. y \in Leaf /\ y.level = 0 /\ y.slots = right /\ y.next = N /\ y.prev = a
  BY <1>1 DEF Leaf
<1>5. N # NULL => z \in Leaf /\ z.level = 0 /\ z.slots = H[N].slots /\ z.next = H[N].next /\ z.prev = d
  BY <1>1, <1>2 DEF Leaf
<1> HIDE DEF x, y
<1>6. /\ split[a] = x /\ split[d] = y /\ DOMAIN split = NodeId
      /\ \A n \in NodeId \ {a, d} : split[n] = H[n]
      /\ split = [n \in NodeId |-> split[n]]
  BY <1>1
<1>7. G = IF N = NULL THEN split ELSE [split EXCEPT ![N].prev = d]
  BY DEF SplitOff, x, y
<1> HIDE DEF split
<1>8. /\ G[a] = x /\ G[d] = y /\ G = [n \in NodeId |-> G[n]]
      /\ N # NULL => G[N] = z
      /\ \A n \in NodeId \ {a, d} : n # N \/ N = NULL => G[n] = H[n]
  <2>1. CASE N = NULL
    BY <1>6, <1>7, <2>1
  <2>2. CASE N # NULL
    <3>1. G = [split EXCEPT ![N].prev = d]
      BY <1>7, <2>2
    <3>2. G[N] = [split[N] EXCEPT !.prev = d] /\ \A n \in NodeId \ {N} : G[n] = split[n]
      BY <1>2, <1>6, <2>2, <3>1
    <3>3. split[N] = H[N]
      BY <1>2, <1>6, <2>2
    <3>4. G = [n \in NodeId |-> G[n]]
      BY <1>6, <3>1
    <3> QED
      BY <1>1, <1>2, <1>6, <2>2, <3>2, <3>3, <3>4
  <2> QED
    BY <2>1, <2>2
<1> HIDE DEF z
<1>9. x # NULL /\ y # NULL /\ (N # NULL => z # NULL)
  BY <1>3, <1>4, <1>5, NULLAssumption
<1>10. G \in Heaps
  <2>1. \A n \in NodeId : G[n] \in Leaf \cup Inner \cup {NULL}
    BY <1>1, <1>2, <1>3, <1>4, <1>5, <1>8 DEF Heaps
  <2> QED
    BY <1>8, <2>1 DEF Heaps
<1>11. Allocated(G) = Allocated(H) \cup {d}
  BY <1>1, <1>2, <1>8, <1>9, NodeIs DEF Allocated
<1>12. /\ G[a].level = 0 /\ G[a].slots = left /\ G[a].next = d /\ G[a].prev = H[a].prev
       /\ G[d].level = 0 /\ G[d].slots = right /\ G[d].next = N /\ G[d].prev = a
  BY <1>3, <1>4, <1>8
<1>13. ASSUME NEW n \in Allocated(H) \ {a}
       PROVE  /\ G[n].level = H[n].level /\ Kids(G, n) = Kids(H, n) /\ slotuse(G, n) = slotuse(H, n)
              /\ isleafnode(H, n) => G[n].next = H[n].next
              /\ isleafnode(H, n) => G[n].prev = IF n = N THEN d ELSE H[n].prev
  <2>1. n \in NodeId \ {a, d} /\ n # NULL
    BY NodeIs
  <2>2. CASE n = N
    <3>1. G[n] = z /\ H[n] \in Leaf /\ H[n].level = 0
      BY <1>2, <1>8, <2>1, <2>2, LeafNode
    <3> QED
      BY <1>5, <2>1, <2>2, <3>1 DEF Kids, slotuse, isleafnode
  <2>3. CASE n # N
    <3>1. G[n] = H[n]
      BY <1>8, <2>1, <2>3
    <3> QED
      BY <2>3, <3>1 DEF Kids, slotuse, isleafnode
  <2> QED
    BY <2>2, <2>3
<1>14. Leaves(G) = Leaves(H) \cup {d} /\ InnerNodes(G) = InnerNodes(H)
  <2>1. ASSUME NEW n \in Allocated(G)
        PROVE  isleafnode(G, n) <=> IF n = d THEN TRUE ELSE isleafnode(H, n)
    <3>1. CASE n = d
      BY <1>12, <3>1 DEF isleafnode
    <3>2. CASE n = a
      BY <1>1, <1>12, <3>2, LeafNode DEF isleafnode
    <3>3. CASE n \notin {a, d}
      BY <1>11, <1>13, <3>3 DEF isleafnode
    <3> QED
      BY <1>1, <3>1, <3>2, <3>3
  <2> QED
    BY <1>1, <1>11, <2>1 DEF Leaves, InnerNodes
<1>15. \A n \in NodeId \ {a, d} : slotuse(G, n) = slotuse(H, n)
  <2> SUFFICES ASSUME NEW n \in NodeId \ {a, d} PROVE slotuse(G, n) = slotuse(H, n)
    OBVIOUS
  <2>1. CASE n \in Allocated(H)
    BY <1>13, <2>1
  <2>2. CASE n \notin Allocated(H)
    <3>1. n # N \/ N = NULL
      BY <1>2, <2>2
    <3>2. G[n] = H[n]
      BY <1>8, <3>1
    <3> QED
      BY <3>2 DEF slotuse, isleafnode
  <2> QED
    BY <2>1, <2>2
<1> QED
  BY <1>10, <1>11, <1>12, <1>13, <1>14, <1>15

\* The nodes and the levels and children of a heap are those given.
LEMMA TreeOf ==
  ASSUME NEW G, NEW A, NEW lv, NEW K, Allocated(G) = A,
         lv = [n \in A |-> lv[n]], K = [n \in A |-> K[n]],
         \A n \in A : G[n].level = lv[n] /\ Kids(G, n) = K[n]
  PROVE  LevelsOf(G) = lv /\ KidsOf(G) = K
<1>1. LevelsOf(G) = [n \in A |-> G[n].level] /\ KidsOf(G) = [n \in A |-> Kids(G, n)]
  BY DEF LevelsOf, KidsOf
<1>2. [n \in A |-> G[n].level] = [n \in A |-> lv[n]] /\ [n \in A |-> Kids(G, n)] = [n \in A |-> K[n]]
  OBVIOUS
<1> QED
  BY <1>1, <1>2

LEMMA LevelAt ==
  ASSUME NEW H, NEW n \in Allocated(H)
  PROVE  LevelsOf(H)[n] = H[n].level /\ KidsOf(H)[n] = Kids(H, n)
         /\ DOMAIN LevelsOf(H) = Allocated(H) /\ DOMAIN KidsOf(H) = Allocated(H)
BY DEF LevelsOf, KidsOf

LEMMA SplitOffTree ==
  ASSUME NEW H \in Heaps, NEW root, NEW R, Tree(H, root, {}, R),
         NEW a \in Leaves(H), NextOf(H, a), NEW d \in NodeId \ Allocated(H),
         NEW left \in Seq(Pair), NEW right \in Seq(Pair), NEW G, G = SplitOff(H, a, d, left, right)
  PROVE  /\ Tree(G, root, {d}, OrderedAfter(R, a, d))
         /\ IsNext(Allocated(G), OrderedAfter(R, a, d), a, d)
<1> DEFINE A == Allocated(H)
           B == A \cup {d}
           lv == LevelsOf(H)
           K == KidsOf(H)
           lw == Put(lv, d, lv[a])
           L == Put(K, d, <<>>)
           X == {root} \ {NULL}
           Q == OrderedAfter(R, a, d)
<1>1. Forest(A, lv, K, X \cup {}, R)
  BY DEF Tree
<1>2. Forest(A, lv, K, X, R)
  <2>1. X \cup {} = X
    OBVIOUS
  <2> QED
    BY <1>1, <2>1
<1>3. a \in A /\ H[a].level = 0 /\ isleafnode(H, a)
  BY LeafNode
<1>4. /\ G \in Heaps /\ Allocated(G) = B
      /\ G[a].level = 0 /\ G[d].level = 0
      /\ \A n \in A \ {a} : G[n].level = H[n].level /\ Kids(G, n) = Kids(H, n)
  BY SplitOffIs
<1>5. \A n \in A : lv[n] = H[n].level /\ K[n] = Kids(H, n)
  BY LevelAt
<1>6. DOMAIN lv = A /\ DOMAIN K = A
  BY DEF LevelsOf, KidsOf
<1>7. /\ lw = [n \in B |-> lw[n]] /\ L = [n \in B |-> L[n]]
      /\ lw[d] = lv[a] /\ L[d] = <<>> /\ \A n \in A : lw[n] = lv[n] /\ L[n] = K[n]
  BY <1>6 DEF Put
<1>8. Forest(B, lw, L, X \cup {d}, Q) /\ IsNext(B, Q, a, d)
  <2> HIDE DEF A, lv, K, X
  <2>1. d \notin A
    BY DEF A
  <2> QED
    BY <1>2, <1>3, <2>1, AddAfter
<1>9. \A n \in B : G[n].level = lw[n] /\ Kids(G, n) = L[n]
  <2>1. Kids(G, d) = <<>> /\ Kids(G, a) = <<>> /\ Kids(H, a) = <<>>
    BY <1>3, <1>4 DEF Kids, isleafnode
  <2> QED
    BY <1>3, <1>4, <1>5, <1>7, <2>1
<1> HIDE DEF lw, L, Q, B, X, lv, K
<1>10. LevelsOf(G) = lw /\ KidsOf(G) = L
  BY <1>4, <1>7, <1>9, TreeOf
<1>11. Forest(Allocated(G), LevelsOf(G), KidsOf(G), X \cup {d}, Q)
  BY <1>4, <1>8, <1>10
<1>12. root # NULL /\ root \in A
  <2>1. root # NULL
    BY <1>3 DEF Tree
  <2> QED
    BY <2>1, RootIs
<1>13. \A n \in Allocated(G) : n = root \/ n \in {d} \/ G[n].level < G[root].level
  <2>1. \A n \in A : G[n].level = H[n].level
    BY <1>3, <1>4
  <2>2. \A n \in A : n = root \/ n \in {} \/ H[n].level < H[root].level
    BY DEF Tree
  <2> QED
    BY <1>4, <1>12, <2>1, <2>2 DEF B
<1>14. Tree(G, root, {d}, Q)
  BY <1>11, <1>12, <1>13 DEF Tree, X
<1> QED
  BY <1>4, <1>8, <1>14 DEF Q

LEMMA SplitOffLinks ==
  ASSUME NEW H \in Heaps, NEW root, NEW R, Tree(H, root, {}, R), Linked(H, {}, R),
         NEW a \in Leaves(H), NextOf(H, a), NEW d \in NodeId \ Allocated(H),
         NEW left \in Seq(Pair), NEW right \in Seq(Pair), NEW G, G = SplitOff(H, a, d, left, right)
  PROVE  Linked(G, {}, OrderedAfter(R, a, d))
<1> DEFINE L == Leaves(H)
           Q == OrderedAfter(R, a, d)
           nx == Nexts(H)
           pv == Prevs(H)
           ny == Nexts(G)
           pw == Prevs(G)
<1>1. /\ Leaves(G) = L \cup {d} /\ G[a].next = d /\ G[a].prev = H[a].prev
      /\ G[d].next = H[a].next /\ G[d].prev = a
      /\ \A n \in Allocated(H) \ {a} :
           /\ isleafnode(H, n) => G[n].next = H[n].next
           /\ isleafnode(H, n) => G[n].prev = IF n = H[a].next THEN d ELSE H[n].prev
  BY SplitOffIs
<1>2. a \in L /\ d \notin L /\ d # NULL /\ \A n \in L : n \in Allocated(H) /\ isleafnode(H, n)
  BY NodeAssumption DEF Leaves
<1>3. /\ ny[a] = d /\ ny[d] = nx[a] /\ \A n \in L \ {a} : ny[n] = nx[n]
      /\ pw[d] = a
  BY <1>1, <1>2 DEF Nexts, Prevs
<1>4. \A n \in L : pw[n] = IF n = nx[a] THEN d ELSE pv[n]
  <2>1. a # H[a].next
    BY <1>2, NodeIs, NodeAssumption DEF NextOf
  <2> QED
    BY <1>1, <1>2, <2>1 DEF Nexts, Prevs
<1>5. LineOrder(L, R) /\ NULL \notin L /\ Chained(L, R, nx, pv, NULL)
  <2>1. Leaves(H) \ {} = Leaves(H)
    OBVIOUS
  <2> QED
    BY <2>1, LeafLine DEF Linked
<1>6. DOMAIN R = Allocated(H) /\ d \notin Allocated(H) /\ \A n \in Allocated(H) : R[n] \subseteq Allocated(H)
  BY DEF Tree, Forest, LevelOrder
<1>7. /\ \A m, n \in L : n \in Q[m] <=> n \in R[m]
      /\ \A m \in L : d \in Q[m] <=> m = a \/ a \in R[m]
      /\ \A n \in L : n \in Q[d] <=> n \in R[a]
      /\ d \notin Q[d]
  BY <1>2, <1>6 DEF OrderedAfter
<1>10. OrderIn(L, R, Q, a, d)
  BY <1>7 DEF OrderIn
<1> HIDE DEF L, Q, nx, pv, ny, pw
<1>11. LinkedIn(L, nx, pv, ny, pw, a, d)
  BY <1>3, <1>4 DEF LinkedIn
<1>8. Chained(L \cup {d}, Q, ny, pw, NULL)
  BY <1>2, <1>5, <1>10, <1>11, LinkIn
<1>9. Leaves(G) \ {} = L \cup {d}
  BY <1>1
<1> QED
  BY <1>8, <1>9 DEF Linked, Q, ny, pw

IsSplitOff(H, G, root, R, a, d, left, right) ==
  /\ G \in Heaps /\ Shape(G, root, {d}, {}, OrderedAfter(R, a, d))
  /\ IsNext(Allocated(G), OrderedAfter(R, a, d), a, d) /\ Kept(H, G, 0)
  /\ Leaves(G) = Leaves(H) \cup {d} /\ InnerNodes(G) = InnerNodes(H)
  /\ slotuse(G, a) = Len(left) /\ slotuse(G, d) = Len(right)
  /\ \A n \in NodeId \ {a, d} : slotuse(G, n) = slotuse(H, n)

LEMMA SplitOffShape ==
  ASSUME NEW H \in Heaps, NEW root, NEW R, Shape(H, root, {}, {}, R),
         NEW a \in Leaves(H), NEW d \in NodeId \ Allocated(H),
         NEW left \in Seq(Pair), NEW right \in Seq(Pair),
         Len(left) <= leafslotmax, Len(right) <= leafslotmax,
         NEW G, G = SplitOff(H, a, d, left, right)
  PROVE  IsSplitOff(H, G, root, R, a, d, left, right)
<1>1. Tree(H, root, {}, R) /\ NodesHold(H, {}) /\ Linked(H, {}, R)
  BY DEF Shape
<1>2. NextOf(H, a)
  <2>1. a \in Leaves(H) \ {}
    OBVIOUS
  <2> QED
    BY <1>1, <2>1, NextLeaf
<1>3. /\ G \in Heaps /\ Leaves(G) = Leaves(H) \cup {d} /\ InnerNodes(G) = InnerNodes(H)
      /\ Allocated(G) = Allocated(H) \cup {d}
      /\ G[a].level = 0 /\ G[a].slots = left /\ G[d].level = 0 /\ G[d].slots = right
      /\ \A n \in Allocated(H) \ {a} :
           G[n].level = H[n].level /\ Kids(G, n) = Kids(H, n) /\ slotuse(G, n) = slotuse(H, n)
      /\ \A n \in NodeId \ {a, d} : slotuse(G, n) = slotuse(H, n)
  BY <1>2, SplitOffIs
<1>4. Tree(G, root, {d}, OrderedAfter(R, a, d)) /\ IsNext(Allocated(G), OrderedAfter(R, a, d), a, d)
  BY <1>1, <1>2, SplitOffTree
<1>5. Linked(G, {}, OrderedAfter(R, a, d))
  BY <1>1, <1>2, SplitOffLinks
<1>6. slotuse(G, a) = Len(left) /\ slotuse(G, d) = Len(right) /\ isleafnode(G, a) /\ isleafnode(G, d)
  BY <1>3 DEF slotuse, isleafnode
<1>7. a \in Allocated(H) /\ H[a].level = 0
  BY LeafNode
<1>8. NodesHold(G, {})
  <2> SUFFICES ASSUME NEW n \in Allocated(G)
               PROVE  IF isleafnode(G, n) THEN slotuse(G, n) <= leafslotmax
                      ELSE slotuse(G, n) <= innerslotmax /\ Len(Kids(G, n)) = slotuse(G, n) + 1
    BY DEF NodesHold
  <2>1. CASE n \in {a, d}
    BY <1>6, <2>1
  <2>2. CASE n \notin {a, d}
    <3>1. n \in Allocated(H) \ {a}
      BY <1>3, <2>2
    <3>2. isleafnode(G, n) <=> isleafnode(H, n)
      BY <1>3, <3>1 DEF isleafnode
    <3> QED
      BY <1>1, <1>3, <3>1, <3>2 DEF NodesHold
  <2> QED
    BY <2>1, <2>2
<1>9. Kept(H, G, 0)
  BY <1>3, <1>7 DEF Kept
<1> QED
  BY <1>3, <1>4, <1>5, <1>6, <1>8, <1>9 DEF Shape, IsSplitOff

\* The halves of a leaf that was full, with one pair more.
LeftHalf(s, mid, slot, x) ==
  IF slot < mid THEN InsertAt(SubSeq(s, 1, mid), slot + 1, x) ELSE SubSeq(s, 1, mid)

RightHalf(s, mid, slot, x) ==
  IF slot < mid THEN SubSeq(s, mid + 1, Len(s))
  ELSE InsertAt(SubSeq(s, mid + 1, Len(s)), slot - mid + 1, x)

LEMMA HalvesAre ==
  ASSUME NEW S, NEW s \in Seq(S), NEW x \in S, NEW mid \in 0 .. Len(s), NEW slot \in 0 .. Len(s),
         NEW l, l = LeftHalf(s, mid, slot, x), NEW r, r = RightHalf(s, mid, slot, x)
  PROVE  /\ l \in Seq(S) /\ r \in Seq(S) /\ Len(l) \in {mid, mid + 1}
         /\ Len(l) + Len(r) = Len(s) + 1
<1> DEFINE low == SubSeq(s, 1, mid)
           high == SubSeq(s, mid + 1, Len(s))
<1>1. low \in Seq(S) /\ high \in Seq(S) /\ Len(low) = mid /\ Len(high) = Len(s) - mid
  BY CutIs
<1>2. Len(s) \in Nat
  OBVIOUS
<1>3. l = IF slot < mid THEN InsertAt(low, slot + 1, x) ELSE low
  BY DEF LeftHalf
<1>4. r = IF slot < mid THEN high ELSE InsertAt(high, slot - mid + 1, x)
  BY DEF RightHalf
<1> HIDE DEF low, high
<1>5. CASE slot < mid
  <2>1. slot + 1 \in 1 .. Len(low) + 1
    BY <1>1, <1>2, <1>5
  <2>2. InsertAt(low, slot + 1, x) \in Seq(S) /\ Len(InsertAt(low, slot + 1, x)) = Len(low) + 1
    BY <1>1, <2>1, InsertAtIs DEF Inserted
  <2>3. l \in Seq(S) /\ r \in Seq(S) /\ Len(l) = mid + 1 /\ Len(r) = Len(s) - mid
    BY <1>1, <1>3, <1>4, <1>5, <2>2
  <2>4. mid \in Nat /\ (mid + 1) + (Len(s) - mid) = Len(s) + 1
    BY <1>2
  <2> QED
    BY <2>3, <2>4
<1>6. CASE ~(slot < mid)
  <2> DEFINE k == slot - mid + 1
  <2>1. k \in 1 .. Len(high) + 1
    BY <1>1, <1>2, <1>6
  <2>2. r = InsertAt(high, k, x)
    BY <1>4, <1>6
  <2> HIDE DEF k
  <2>3. InsertAt(high, k, x) \in Seq(S) /\ Len(InsertAt(high, k, x)) = Len(high) + 1
    BY <1>1, <2>1, InsertAtIs DEF Inserted
  <2>4. l \in Seq(S) /\ r \in Seq(S) /\ Len(l) = mid /\ Len(r) = (Len(s) - mid) + 1
    BY <1>1, <1>3, <1>6, <2>2, <2>3
  <2>5. mid \in Nat /\ mid + ((Len(s) - mid) + 1) = Len(s) + 1
    BY <1>2
  <2> QED
    BY <2>4, <2>5
<1> QED
  BY <1>5, <1>6

\* A node is counted when it comes and when it goes.
LEMMA OneMore ==
  ASSUME NEW S, IsFiniteSet(S), NEW d, d \notin S
  PROVE  Cardinality(S \cup {d}) = Cardinality(S) + 1
BY FS_AddElement

\* The root is the only node of its level.
LEMMA RootAlone ==
  ASSUME NEW H \in Heaps, NEW root, NEW R, Tree(H, root, {}, R), NEW a \in Leaves(H), a # root
  PROVE  ~isleafnode(H, root) /\ root \in Allocated(H) /\ H[root].level > 0
<1>1. a \in Allocated(H) /\ H[a].level = 0
  BY LeafNode
<1>2. root # NULL
  BY <1>1 DEF Tree
<1>3. root \in Allocated(H) /\ H[root].level \in Nat
  BY <1>2, RootIs
<1>4. a = root \/ a \in {} \/ H[a].level < H[root].level
  BY <1>1 DEF Tree
<1> QED
  BY <1>1, <1>3, <1>4 DEF isleafnode

-----------------------------------------------------------------------------
(* Inner nodes get other keys and children                                 *)

InnerWrites(H, G, D) ==
  /\ D \subseteq InnerNodes(H) /\ G = [n \in NodeId |-> G[n]]
  /\ \A n \in NodeId \ D : G[n] = H[n]
  /\ \A n \in D : G[n] \in Inner /\ G[n].level = H[n].level

\* What G has in common with H, when only the inner nodes of D changed.
SameFrame(H, G, D) ==
  /\ G \in Heaps /\ Allocated(G) = Allocated(H) /\ D \subseteq InnerNodes(H)
  /\ Leaves(G) = Leaves(H) /\ InnerNodes(G) = InnerNodes(H) /\ SameLinks(H, G)
  /\ \A n \in Allocated(H) : G[n].level = H[n].level /\ (isleafnode(G, n) <=> isleafnode(H, n))
  /\ \A n \in NodeId \ D : slotuse(G, n) = slotuse(H, n) /\ Kids(G, n) = Kids(H, n)
  /\ \A n \in D : slotuse(G, n) = Len(G[n].keys) /\ Kids(G, n) = G[n].child

LEMMA InnerNode ==
  ASSUME NEW H \in Heaps, NEW p \in InnerNodes(H)
  PROVE  /\ p \in NodeId /\ p \in Allocated(H) /\ ~isleafnode(H, p) /\ H[p] \in Inner
         /\ H[p].level \in Nat /\ H[p].level > 0
         /\ H[p].keys \in Seq(Key) /\ H[p].child \in Seq(NodeId)
         /\ slotuse(H, p) = Len(H[p].keys) /\ slotuse(H, p) \in Nat /\ Kids(H, p) = H[p].child
<1>1. p \in Allocated(H) /\ ~isleafnode(H, p)
  BY DEF InnerNodes
<1> QED
  BY <1>1, NodeIs DEF Kids

LEMMA InnerWritesAre ==
  ASSUME NEW H \in Heaps, NEW G, NEW D, InnerWrites(H, G, D)
  PROVE  SameFrame(H, G, D)
<1>1. /\ D \subseteq InnerNodes(H) /\ G = [n \in NodeId |-> G[n]]
      /\ \A n \in NodeId \ D : G[n] = H[n]
      /\ \A n \in D : G[n] \in Inner /\ G[n].level = H[n].level
  BY DEF InnerWrites
<1>2. \A n \in D : /\ n \in NodeId /\ n \in Allocated(H) /\ H[n] # NULL
                   /\ H[n].level > 0 /\ ~isleafnode(H, n)
  BY <1>1, InnerNode, NodeIs
<1>3. \A n \in D : G[n] # NULL /\ ~isleafnode(G, n)
  <2> SUFFICES ASSUME NEW n \in D PROVE G[n] # NULL /\ ~isleafnode(G, n)
    OBVIOUS
  <2>1. G[n] \in Inner /\ G[n].level = H[n].level /\ ~(H[n].level = 0)
    BY <1>1, <1>2 DEF isleafnode
  <2> QED
    BY <2>1, NULLAssumption DEF isleafnode
<1>4. G \in Heaps
  <2>1. \A n \in NodeId : G[n] \in Leaf \cup Inner \cup {NULL}
    BY <1>1 DEF Heaps
  <2> QED
    BY <1>1, <2>1 DEF Heaps
<1>5. Allocated(G) = Allocated(H)
  BY <1>1, <1>2, <1>3 DEF Allocated
<1>6. \A n \in Allocated(H) : n \in NodeId
  BY NodeIs
<1>7. \A n \in Allocated(H) : G[n].level = H[n].level /\ (isleafnode(G, n) <=> isleafnode(H, n))
  BY <1>1, <1>6 DEF isleafnode
<1>8. Leaves(G) = Leaves(H) /\ InnerNodes(G) = InnerNodes(H)
  BY <1>5, <1>7 DEF Leaves, InnerNodes
<1>9. SameLinks(H, G)
  <2>1. \A n \in Leaves(H) : n \in NodeId \ D
    BY <1>2, <1>6 DEF Leaves
  <2> QED
    BY <1>1, <2>1 DEF SameLinks
<1>10. \A n \in NodeId \ D : slotuse(G, n) = slotuse(H, n) /\ Kids(G, n) = Kids(H, n)
  BY <1>1 DEF slotuse, Kids, isleafnode
<1>11. \A n \in D : slotuse(G, n) = Len(G[n].keys) /\ Kids(G, n) = G[n].child
  BY <1>3 DEF slotuse, Kids
<1> QED
  BY <1>1, <1>4, <1>5, <1>7, <1>8, <1>9, <1>10, <1>11 DEF SameFrame

LEMMA FrameTree ==
  ASSUME NEW H \in Heaps, NEW G, NEW D, SameFrame(H, G, D),
         NEW root, root # NULL, NEW S, NEW R, Tree(H, root, S, R), NEW K, NEW T,
         Forest(Allocated(H), LevelsOf(H), K, ({root} \ {NULL}) \cup T, R),
         \A n \in Allocated(H) : Kids(G, n) = K[n],
         \A n \in S \ T : H[n].level < H[root].level
  PROVE  Tree(G, root, T, R)
<1>1. Allocated(G) = Allocated(H) /\ \A n \in Allocated(H) : G[n].level = H[n].level
  BY DEF SameFrame
<1>2. DOMAIN K = Allocated(H) /\ K = [n \in Allocated(H) |-> K[n]]
  BY DEF Forest, ForestKids
<1>3. LevelsOf(G) = LevelsOf(H)
  BY <1>1 DEF LevelsOf
<1>4. KidsOf(G) = K
  <2>1. KidsOf(G) = [n \in Allocated(H) |-> K[n]]
    BY <1>1 DEF KidsOf
  <2> QED
    BY <1>2, <2>1
<1>5. root \in Allocated(H)
  BY RootIs
<1>6. \A n \in Allocated(G) : n = root \/ n \in T \/ G[n].level < G[root].level
  <2>1. \A n \in Allocated(H) : n = root \/ n \in S \/ H[n].level < H[root].level
    BY DEF Tree
  <2> QED
    BY <1>1, <1>5, <2>1
<1> QED
  BY <1>1, <1>3, <1>4, <1>6 DEF Tree

\* The nodes of E were empty before, those of F are now.
LEMMA FrameHolds ==
  ASSUME NEW H \in Heaps, NEW G, NEW D, SameFrame(H, G, D),
         NEW E, E \subseteq D, NodesHold(H, E), NEW F, F \subseteq D,
         \A n \in D \ F : Len(G[n].keys) <= innerslotmax /\ Len(G[n].child) = Len(G[n].keys) + 1,
         \A n \in F : G[n].keys = <<>> /\ G[n].child = <<>>
  PROVE  NodesHold(G, F)
<1>1. /\ Allocated(G) = Allocated(H)
      /\ \A n \in Allocated(H) : isleafnode(G, n) <=> isleafnode(H, n)
      /\ \A n \in NodeId \ D : slotuse(G, n) = slotuse(H, n) /\ Kids(G, n) = Kids(H, n)
      /\ \A n \in D : slotuse(G, n) = Len(G[n].keys) /\ Kids(G, n) = G[n].child
      /\ D \subseteq InnerNodes(H)
  BY DEF SameFrame
<1>2. \A n \in D : n \in Allocated(H) /\ ~isleafnode(G, n)
  BY <1>1 DEF InnerNodes
<1>3. ASSUME NEW n \in Allocated(H) \ F
      PROVE  IF isleafnode(G, n) THEN slotuse(G, n) <= leafslotmax
             ELSE slotuse(G, n) <= innerslotmax /\ Len(Kids(G, n)) = slotuse(G, n) + 1
  <2>1. CASE n \in D
    BY <1>1, <1>2, <2>1
  <2>2. CASE n \notin D
    <3>1. n \in Allocated(H) \ E /\ n \in NodeId \ D
      BY <2>2, NodeIs
    <3> QED
      BY <1>1, <3>1 DEF NodesHold
  <2> QED
    BY <2>1, <2>2
<1>4. \A n \in F : n \in Allocated(G) /\ slotuse(G, n) = 0 /\ Kids(G, n) = <<>>
  BY <1>1, <1>2
<1> QED
  BY <1>1, <1>3, <1>4 DEF NodesHold

LEMMA FrameFilled ==
  ASSUME NEW H \in Heaps, NEW G, NEW D, SameFrame(H, G, D), NEW root, NEW least,
         Filled(H, D, root, least), NEW F, NEW top,
         \A n \in D \ F : Len(G[n].keys) >= IF n # top THEN mininnerslots ELSE 1,
         top = root \/ (top = NULL /\ root \in D)
  PROVE  Filled(G, F, top, least)
<1>1. /\ Allocated(G) = Allocated(H)
      /\ \A n \in Allocated(H) : isleafnode(G, n) <=> isleafnode(H, n)
      /\ \A n \in NodeId \ D : slotuse(G, n) = slotuse(H, n)
      /\ \A n \in D : slotuse(G, n) = Len(G[n].keys)
      /\ D \subseteq InnerNodes(H)
  BY DEF SameFrame
<1>2. \A n \in D : n \in Allocated(H) /\ ~isleafnode(G, n)
  BY <1>1 DEF InnerNodes
<1> SUFFICES ASSUME NEW n \in Allocated(H) \ F
             PROVE  slotuse(G, n) >= IF n # top THEN mininnerslots
                                     ELSE IF isleafnode(G, n) THEN least ELSE 1
  BY <1>1 DEF Filled
<1>3. CASE n \in D
  BY <1>1, <1>2, <1>3
<1>4. CASE n \notin D
  <2>1. n \in Allocated(H) \ D /\ n \in NodeId \ D
    BY <1>4, NodeIs
  <2>2. n # root <=> n # top
    BY <1>4, <2>1, NodeIs
  <2> QED
    BY <1>1, <2>1, <2>2 DEF Filled
<1> QED
  BY <1>3, <1>4

LEMMA FrameKept ==
  ASSUME NEW H \in Heaps, NEW G, NEW D, SameFrame(H, G, D), NEW l, \A n \in D : H[n].level = l
  PROVE  Kept(H, G, l)
<1>1. /\ Allocated(G) = Allocated(H)
      /\ \A n \in Allocated(H) : G[n].level = H[n].level
      /\ \A n \in NodeId \ D : slotuse(G, n) = slotuse(H, n) /\ Kids(G, n) = Kids(H, n)
  BY DEF SameFrame
<1> SUFFICES ASSUME NEW n \in Allocated(H), H[n].level > l
             PROVE  slotuse(G, n) = slotuse(H, n) /\ Kids(G, n) = Kids(H, n)
  BY <1>1 DEF Kept
<1>2. H[n].level \in Nat /\ n \in NodeId
  BY NodeIs
<1>3. n \notin D
  <2> SUFFICES ASSUME n \in D PROVE FALSE
    OBVIOUS
  <2>1. H[n].level = l
    OBVIOUS
  <2> QED
    BY <1>2, <2>1
<1> QED
  BY <1>1, <1>2, <1>3

LEMMA FrameLinks ==
  ASSUME NEW H, NEW G, NEW D, SameFrame(H, G, D), NEW R, NEW E, Linked(H, E, R),
         NEW F, Leaves(H) \ E = Leaves(H) \ F
  PROVE  Linked(G, F, R) /\ Pairs(G) = Pairs(H)
<1>1. Leaves(G) = Leaves(H) /\ SameLinks(H, G) /\ D \subseteq InnerNodes(H)
      /\ \A n \in NodeId \ D : slotuse(G, n) = slotuse(H, n)
  BY DEF SameFrame
<1>2. Nexts(G) = Nexts(H) /\ Prevs(G) = Prevs(H)
  BY <1>1 DEF SameLinks, Nexts, Prevs
<1>3. \A n \in Leaves(H) : slotuse(G, n) = slotuse(H, n)
  <2>1. \A n \in Leaves(H) : n \in NodeId \ D
    BY <1>1 DEF Leaves, InnerNodes, Allocated
  <2> QED
    BY <1>1, <2>1
<1> QED
  BY <1>1, <1>2, <1>3 DEF Linked, Pairs

\* x, which follows the child in slot, becomes the child behind it.
IsAdopted(H, root, R, p, x, cs) ==
  /\ Forest(Allocated(H), LevelsOf(H), Put(KidsOf(H), p, cs), ({root} \ {NULL}) \cup {}, R)
  /\ cs \in Seq(Allocated(H)) /\ Len(cs) = slotuse(H, p) + 2
  /\ x \in Allocated(H) /\ H[x].level < H[root].level /\ x # root

LEMMA AdoptIn ==
  ASSUME NEW H \in Heaps, NEW root, root # NULL, NEW R, NEW x, Tree(H, root, {x}, R),
         NodesHold(H, {}), NEW p \in InnerNodes(H), NEW slot \in 0 .. slotuse(H, p),
         IsNext(Allocated(H), R, childid(H, p, slot), x),
         NEW cs, cs = InsertAt(H[p].child, slot + 2, x)
  PROVE  IsAdopted(H, root, R, p, x, cs)
<1> DEFINE A == Allocated(H)
           lv == LevelsOf(H)
           K == KidsOf(H)
           X == ({root} \ {NULL}) \cup {x}
<1>1. Forest(A, lv, K, X, R)
  BY TreeIs
<1>2. p \in A /\ H[p].level > 0 /\ H[p].level \in Nat /\ slotuse(H, p) \in Nat
      /\ Kids(H, p) = H[p].child
  BY InnerNode
<1>3. /\ slot + 1 \in 1 .. Len(Kids(H, p)) /\ childid(H, p, slot) = Kids(H, p)[slot + 1]
      /\ childid(H, p, slot) \in A /\ H[childid(H, p, slot)].level = H[p].level - 1
  <2>1. p \in Allocated(H) \ {}
    BY <1>2
  <2> QED
    BY <1>2, <2>1, ChildOf
<1>4. Len(Kids(H, p)) = slotuse(H, p) + 1
  BY <1>2, InnerNode DEF NodesHold
<1>5. K[p] = Kids(H, p) /\ Kids(H, p) \in Seq(A)
  BY <1>1, <1>2, KidsAre
<1>6. x \in A /\ H[x].level = H[p].level - 1
  <2>1. x \in R[childid(H, p, slot)]
    BY DEF IsNext
  <2>2. x \in A /\ lv[x] = lv[childid(H, p, slot)]
    BY <1>1, <1>3, <2>1 DEF Forest, ForestKids, LevelOrder
  <2> QED
    BY <1>3, <2>2 DEF LevelsOf
<1>7. root \in A /\ H[root].level \in Nat /\ H[p].level <= H[root].level
  <2>1. p \notin {x}
    <3>1. \A y \in Nat : y - 1 # y
      OBVIOUS
    <3> QED
      BY <1>2, <1>6, <3>1
  <2> QED
    BY <1>2, <2>1, RootIs
<1>8. H[x].level < H[root].level /\ x # root
  BY <1>2, <1>6, <1>7
<1> DEFINE i == slot + 1
<1>9. cs \in Seq(A) /\ Inserted(K[p], cs, i + 1, x)
  <2>1. i + 1 \in 1 .. Len(K[p]) + 1 /\ slot + 2 = i + 1
    BY <1>3, <1>4, <1>5
  <2>2. cs = InsertAt(K[p], i + 1, x)
    BY <1>2, <1>5, <2>1
  <2> HIDE DEF i, A, K
  <2> QED
    BY <1>5, <1>6, <2>1, <2>2, InsertAtIs
<1>10. i \in 1 .. Len(K[p]) /\ IsNext(A, R, K[p][i], x) /\ x \in X
  BY <1>3, <1>5
<1>11. Forest(A, lv, Put(K, p, cs), X \ {x}, R)
  <2> HIDE DEF A, lv, K, X, i
  <2> QED
    BY <1>1, <1>2, <1>9, <1>10, AdoptNext
<1>12. X \ {x} = ({root} \ {NULL}) \cup {}
  BY <1>8
<1>13. Len(cs) = slotuse(H, p) + 2
  <2>1. Len(cs) = Len(K[p]) + 1
    BY <1>9 DEF Inserted
  <2> QED
    BY <1>2, <1>4, <1>5, <2>1
<1> QED
  BY <1>6, <1>8, <1>9, <1>11, <1>12, <1>13 DEF IsAdopted

LEMMA PutIs ==
  ASSUME NEW K, NEW p \in DOMAIN K, NEW v
  PROVE  /\ Put(K, p, v)[p] = v /\ \A n \in DOMAIN K \ {p} : Put(K, p, v)[n] = K[n]
         /\ DOMAIN Put(K, p, v) = DOMAIN K
BY DEF Put

\* G is H with other keys and children in p.
Rewritten(H, G, p, ks, cs) == G = [H EXCEPT ![p].keys = ks, ![p].child = cs]

LEMMA RewriteIs ==
  ASSUME NEW H \in Heaps, NEW G, NEW p \in InnerNodes(H), NEW ks \in Seq(Key),
         NEW cs \in Seq(NodeId), Rewritten(H, G, p, ks, cs)
  PROVE  SameFrame(H, G, {p}) /\ G[p].keys = ks /\ G[p].child = cs
<1>1. p \in NodeId /\ DOMAIN H = NodeId /\ H[p] \in Inner /\ H[p].level \in Nat /\ H[p].level > 0
  BY InnerNode DEF Heaps
<1>2. /\ G[p] = [H[p] EXCEPT !.keys = ks, !.child = cs]
      /\ \A n \in NodeId \ {p} : G[n] = H[n]
      /\ G = [n \in NodeId |-> G[n]]
  BY <1>1 DEF Rewritten
<1>3. G[p] \in Inner /\ G[p].level = H[p].level /\ G[p].keys = ks /\ G[p].child = cs
  BY <1>1, <1>2 DEF Inner
<1>4. InnerWrites(H, G, {p})
  BY <1>2, <1>3 DEF InnerWrites
<1> QED
  BY <1>3, <1>4, InnerWritesAre

\* A child behind the one in slot, and a key for that one.
IsGrown(H, G, root, R, p) ==
  /\ G \in Heaps /\ Shape(G, root, {}, {}, R) /\ Filled(G, {}, root, 1) /\ Kept(H, G, H[p].level)
  /\ Leaves(G) = Leaves(H) /\ InnerNodes(G) = InnerNodes(H) /\ Pairs(G) = Pairs(H)

LEMMA GrowInner ==
  ASSUME NEW H \in Heaps, NEW root, root # NULL, NEW R, NEW x, Shape(H, root, {x}, {}, R),
         Filled(H, {}, root, 1), NEW p \in InnerNodes(H), ~isfull(H, p),
         NEW slot \in 0 .. slotuse(H, p),
         IsNext(Allocated(H), R, childid(H, p, slot), x), NEW key \in Key,
         NEW ks, ks = InsertAt(H[p].keys, slot + 1, key),
         NEW cs, cs = InsertAt(H[p].child, slot + 2, x), NEW G, Rewritten(H, G, p, ks, cs)
  PROVE  IsGrown(H, G, root, R, p)
<1>1. Tree(H, root, {x}, R) /\ NodesHold(H, {}) /\ Linked(H, {}, R)
  BY DEF Shape
<1>2. IsAdopted(H, root, R, p, x, cs)
  BY <1>1, AdoptIn
<1>3. /\ p \in Allocated(H) /\ p \in NodeId /\ ~isleafnode(H, p) /\ slotuse(H, p) = Len(H[p].keys)
      /\ slotuse(H, p) \in Nat /\ H[p].keys \in Seq(Key)
  BY InnerNode
<1>4. slotuse(H, p) < innerslotmax
  <2>1. slotuse(H, p) <= innerslotmax /\ slotuse(H, p) # innerslotmax
    BY <1>1, <1>3 DEF NodesHold, isfull
  <2> QED
    BY <1>3, <2>1, Sizes
<1>5. ks \in Seq(Key) /\ Len(ks) = slotuse(H, p) + 1
  <2>1. slot + 1 \in 1 .. Len(H[p].keys) + 1
    BY <1>3
  <2> QED
    BY <1>3, <2>1, InsertAtIs DEF Inserted
<1>6. cs \in Seq(Allocated(H)) /\ Len(cs) = slotuse(H, p) + 2
  BY <1>2 DEF IsAdopted
<1>7. cs \in Seq(NodeId)
  <2>1. Allocated(H) \subseteq NodeId
    BY DEF Allocated
  <2> QED
    BY <1>6, <2>1
<1>8. SameFrame(H, G, {p}) /\ G[p].keys = ks /\ G[p].child = cs
  BY <1>5, <1>7, RewriteIs
<1>9. /\ G \in Heaps /\ Leaves(G) = Leaves(H) /\ InnerNodes(G) = InnerNodes(H)
      /\ \A n \in NodeId \ {p} : Kids(G, n) = Kids(H, n)
      /\ Kids(G, p) = cs
  BY <1>8 DEF SameFrame
<1>10. Tree(G, root, {}, R)
  <2> DEFINE K == Put(KidsOf(H), p, cs)
  <2>1. Forest(Allocated(H), LevelsOf(H), K, ({root} \ {NULL}) \cup {}, R)
    BY <1>2 DEF IsAdopted
  <2>2. \A n \in Allocated(H) : Kids(G, n) = K[n]
    <3>1. DOMAIN KidsOf(H) = Allocated(H) /\ \A n \in Allocated(H) : KidsOf(H)[n] = Kids(H, n)
      BY DEF KidsOf
    <3>2. K[p] = cs /\ \A n \in Allocated(H) \ {p} : K[n] = Kids(H, n)
      BY <1>3, <3>1, PutIs
    <3> QED
      BY <1>9, <3>2, NodeIs
  <2>3. \A n \in {x} \ {} : H[n].level < H[root].level
    BY <1>2 DEF IsAdopted
  <2> HIDE DEF K
  <2> QED
    BY <1>1, <1>8, <2>1, <2>2, <2>3, FrameTree
<1>11. NodesHold(G, {})
  <2>1. \A n \in {p} \ {} : Len(G[n].keys) <= innerslotmax /\ Len(G[n].child) = Len(G[n].keys) + 1
    <3>1. \A u, m \in Nat : u < m => u + 1 <= m /\ u + 2 = (u + 1) + 1
      OBVIOUS
    <3>2. innerslotmax \in Nat
      BY Sizes
    <3>3. Len(ks) <= innerslotmax /\ Len(cs) = Len(ks) + 1
      BY <1>3, <1>4, <1>5, <1>6, <3>1, <3>2
    <3> QED
      BY <1>8, <3>3
  <2>2. {} \subseteq {p} /\ \A n \in {} : G[n].keys = <<>> /\ G[n].child = <<>>
    OBVIOUS
  <2> QED
    BY <1>1, <1>8, <2>1, <2>2, FrameHolds
<1>12. Filled(G, {}, root, 1)
  <2>1. \A n \in {p} \ {} : Len(G[n].keys) >= IF n # root THEN mininnerslots ELSE 1
    <3>1. slotuse(H, p) >= IF p # root THEN mininnerslots ELSE 1
      BY <1>3 DEF Filled
    <3> QED
      BY <1>3, <1>5, <1>8, <3>1, Sizes
  <2>2. Filled(H, {p}, root, 1)
    BY DEF Filled
  <2> QED
    BY <1>8, <2>1, <2>2, FrameFilled
<1>13. Kept(H, G, H[p].level)
  BY <1>8, FrameKept
<1>14. Linked(G, {}, R) /\ Pairs(G) = Pairs(H)
  BY <1>1, <1>8, FrameLinks
<1> QED
  BY <1>9, <1>10, <1>11, <1>12, <1>13, <1>14 DEF IsGrown, Shape

-----------------------------------------------------------------------------
(* Inner nodes come and go                                                 *)

LEMMA TreeFrom ==
  ASSUME NEW G, NEW A, NEW lv, NEW K, NEW root, NEW T, NEW R,
         Forest(A, lv, K, ({root} \ {NULL}) \cup T, R), Allocated(G) = A,
         \A n \in A : G[n].level = lv[n] /\ Kids(G, n) = K[n], root \in A,
         \A n \in A : n = root \/ n \in T \/ lv[n] < lv[root]
  PROVE  Tree(G, root, T, R)
<1>1. lv = [n \in A |-> lv[n]] /\ K = [n \in A |-> K[n]]
  BY DEF Forest, ForestKids
<1>2. LevelsOf(G) = lv /\ KidsOf(G) = K
  BY <1>1, TreeOf
<1>3. root = NULL => Allocated(G) = {}
  BY NodeAssumption DEF Allocated
<1>4. \A n \in Allocated(G) : n = root \/ n \in T \/ G[n].level < G[root].level
  OBVIOUS
<1> QED
  BY <1>2, <1>3, <1>4 DEF Tree

\* G is H with v at d, an address that was not in use.
Born(H, G, d, v) == G = [H EXCEPT ![d] = v]

IsBorn(H, G, d, v) ==
  /\ G \in Heaps /\ Allocated(G) = Allocated(H) \cup {d} /\ G[d] = v
  /\ \A n \in NodeId \ {d} : G[n] = H[n] /\ slotuse(G, n) = slotuse(H, n) /\ Kids(G, n) = Kids(H, n)
  /\ \A n \in Allocated(H) : n # d /\ n \in NodeId /\ G[n] = H[n] /\ (isleafnode(G, n) <=> isleafnode(H, n))
  /\ v.level = 0 => Leaves(G) = Leaves(H) \cup {d} /\ InnerNodes(G) = InnerNodes(H)
  /\ v.level # 0 => Leaves(G) = Leaves(H) /\ InnerNodes(G) = InnerNodes(H) \cup {d}

LEMMA BornIs ==
  ASSUME NEW H \in Heaps, NEW G, NEW d \in NodeId \ Allocated(H), NEW v \in Leaf \cup Inner,
         Born(H, G, d, v)
  PROVE  IsBorn(H, G, d, v)
<1>1. DOMAIN H = NodeId
  BY DEF Heaps
<1>2. G[d] = v /\ G = [n \in NodeId |-> G[n]] /\ \A n \in NodeId \ {d} : G[n] = H[n]
  BY <1>1 DEF Born
<1>3. v # NULL
  BY NULLAssumption
<1>4. G \in Heaps
  <2>1. \A n \in NodeId : G[n] \in Leaf \cup Inner \cup {NULL}
    BY <1>2 DEF Heaps
  <2> QED
    BY <1>2, <2>1 DEF Heaps
<1>5. Allocated(G) = Allocated(H) \cup {d}
  BY <1>2, <1>3 DEF Allocated
<1>6. \A n \in Allocated(H) : n # d /\ n \in NodeId /\ G[n] = H[n] /\ (isleafnode(G, n) <=> isleafnode(H, n))
  BY <1>2, NodeIs DEF isleafnode
<1>7. \A n \in NodeId \ {d} : slotuse(G, n) = slotuse(H, n) /\ Kids(G, n) = Kids(H, n)
  BY <1>2 DEF slotuse, Kids, isleafnode
<1>8. isleafnode(G, d) <=> v.level = 0
  BY <1>2 DEF isleafnode
<1>9. /\ v.level = 0 => Leaves(G) = Leaves(H) \cup {d} /\ InnerNodes(G) = InnerNodes(H)
      /\ v.level # 0 => Leaves(G) = Leaves(H) /\ InnerNodes(G) = InnerNodes(H) \cup {d}
  BY <1>5, <1>6, <1>8 DEF Leaves, InnerNodes
<1> QED
  BY <1>2, <1>4, <1>5, <1>6, <1>7, <1>9 DEF IsBorn

EmptyInner(l) == [level |-> l, keys |-> <<>>, child |-> <<>>]

LEMMA EmptyInnerIs ==
  ASSUME NEW l \in Nat \ {0}
  PROVE  EmptyInner(l) \in Inner /\ EmptyInner(l).level = l
         /\ EmptyInner(l).keys = <<>> /\ EmptyInner(l).child = <<>>
BY DEF EmptyInner, Inner

\* What an empty inner node more changes; Q is the order of the leaves as before.
IsBornInner(H, G, d, l) ==
  /\ G \in Heaps /\ Allocated(G) = Allocated(H) \cup {d}
  /\ d \in InnerNodes(G) /\ d \notin Allocated(H) /\ G[d].level = l /\ Kids(G, d) = <<>>
  /\ \A n \in Allocated(H) : G[n].level = H[n].level /\ Kids(G, n) = Kids(H, n)
                             /\ slotuse(G, n) = slotuse(H, n)
  /\ Leaves(G) = Leaves(H) /\ InnerNodes(G) = InnerNodes(H) \cup {d}
  /\ Pairs(G) = Pairs(H) /\ NodesHold(G, {d}) /\ Kept(H, G, 0)

LEMMA InnerBorn ==
  ASSUME NEW H \in Heaps, NEW G, NEW d \in NodeId \ Allocated(H), NEW l \in Nat \ {0},
         Born(H, G, d, EmptyInner(l)), NodesHold(H, {})
  PROVE  IsBornInner(H, G, d, l)
<1>1. IsBorn(H, G, d, EmptyInner(l))
  BY EmptyInnerIs, BornIs
<1>2. /\ G \in Heaps /\ Allocated(G) = Allocated(H) \cup {d} /\ G[d] = EmptyInner(l)
      /\ \A n \in NodeId \ {d} : G[n] = H[n] /\ slotuse(G, n) = slotuse(H, n) /\ Kids(G, n) = Kids(H, n)
      /\ \A n \in Allocated(H) : n # d /\ n \in NodeId /\ G[n] = H[n] /\ (isleafnode(G, n) <=> isleafnode(H, n))
      /\ Leaves(G) = Leaves(H) /\ InnerNodes(G) = InnerNodes(H) \cup {d}
  BY <1>1, EmptyInnerIs DEF IsBorn
<1>3. G[d].level = l /\ Kids(G, d) = <<>> /\ slotuse(G, d) = 0
  <2>1. G[d].level = l /\ G[d].keys = <<>> /\ G[d].child = <<>> /\ ~isleafnode(G, d)
    BY <1>2, EmptyInnerIs DEF isleafnode
  <2> QED
    BY <2>1 DEF Kids, slotuse
<1>4. \A n \in Allocated(H) : G[n].level = H[n].level /\ Kids(G, n) = Kids(H, n)
                             /\ slotuse(G, n) = slotuse(H, n)
  BY <1>2
<1>5. NodesHold(G, {d})
  <2>1. ASSUME NEW n \in Allocated(G) \ {d}
        PROVE  IF isleafnode(G, n) THEN slotuse(G, n) <= leafslotmax
               ELSE slotuse(G, n) <= innerslotmax /\ Len(Kids(G, n)) = slotuse(G, n) + 1
    BY <1>2, <1>4 DEF NodesHold
  <2>2. \A n \in {d} : n \in Allocated(G) /\ slotuse(G, n) = 0 /\ Kids(G, n) = <<>>
    BY <1>2, <1>3
  <2> QED
    BY <2>1, <2>2 DEF NodesHold
<1>6. Pairs(G) = Pairs(H)
  <2>1. \A n \in Leaves(H) : slotuse(G, n) = slotuse(H, n)
    BY <1>4 DEF Leaves
  <2> QED
    BY <1>2, <2>1 DEF Pairs
<1>7. Kept(H, G, 0)
  BY <1>2, <1>4 DEF Kept
<1> QED
  BY <1>2, <1>3, <1>4, <1>5, <1>6, <1>7 DEF IsBornInner

\* A change among the inner nodes leaves the leaves linked, in any order that
\* has the leaves where they were.
LEMMA SameLeafOrder ==
  ASSUME NEW H, NEW R, NEW E, Linked(H, E, R), NEW G, NEW Q, Leaves(G) = Leaves(H),
         \A n \in Leaves(H) : G[n].next = H[n].next /\ G[n].prev = H[n].prev,
         \A m, n \in Leaves(H) \ E : n \in Q[m] <=> n \in R[m]
  PROVE  Linked(G, E, Q)
<1> DEFINE L == Leaves(H) \ E
<1>1. Chained(L, R, Nexts(H), Prevs(H), NULL)
  BY DEF Linked
<1>2. AgreeOn(L, R, Q, Nexts(H), Prevs(H), Nexts(G), Prevs(G))
  BY DEF AgreeOn, Nexts, Prevs
<1> HIDE DEF L
<1>3. Chained(L, Q, Nexts(G), Prevs(G), NULL)
  BY <1>1, <1>2, LinksSame
<1> QED
  BY <1>3 DEF Linked, L

LEMMA SubsetSeq ==
  ASSUME NEW S, NEW T, NEW s \in Seq(S), \A i \in 1 .. Len(s) : s[i] \in T
  PROVE  s \in Seq(T)
OBVIOUS

-----------------------------------------------------------------------------
(* An inner node is split                                                  *)

\* d comes behind p and takes the last children of p.
IsForked(A, lv, K, X, R, p, d, lc, rc) ==
  /\ Forest(A \cup {d}, Put(lv, d, lv[p]), Put(Put(Put(K, d, <<>>), p, lc), d, rc), X \cup {d},
            OrderedAfter(R, p, d))
  /\ IsNext(A \cup {d}, OrderedAfter(R, p, d), p, d)

LEMMA Fork ==
  ASSUME NEW A, NEW lv, NEW K, NEW X, NEW R, Forest(A, lv, K, X, R),
         NEW p \in A, NEW d, d \notin A, NEW lc \in Seq(A), NEW rc \in Seq(A), Joins(K[p], lc, rc)
  PROVE  IsForked(A, lv, K, X, R, p, d, lc, rc)
<1>B. PICK B : B = A \cup {d}
  OBVIOUS
<1>Q. PICK Q : Q = OrderedAfter(R, p, d)
  OBVIOUS
<1>K. PICK L : L = Put(K, d, <<>>)
  OBVIOUS
<1>w. PICK w : w = Put(lv, d, lv[p])
  OBVIOUS
<1>s. PICK s : s = K[p]
  OBVIOUS
<1>1. Forest(B, w, L, X \cup {d}, Q) /\ IsNext(B, Q, p, d)
  BY <1>B, <1>Q, <1>K, <1>w, AddAfter
<1>2. DOMAIN K = A /\ s \in Seq(A)
  BY <1>s, ForestTypes
<1>3. L[p] = s /\ L[d] = <<>>
  BY <1>K, <1>s, <1>2 DEF Put
<1>4. s \in Seq(B) /\ lc \in Seq(B) /\ rc \in Seq(B) /\ <<>> \in Seq(B) /\ p \in B /\ d \in B
  BY <1>2, <1>B
<1>5. Joins(s, s, <<>>)
  BY <1>2 DEF Joins
<1>6. Forest(B, w, Put(Put(L, p, lc), d, rc), X \cup {d}, Q)
  BY <1>1, <1>3, <1>4, <1>5, <1>s, Exchange
<1> QED
  BY <1>1, <1>6, <1>B, <1>Q, <1>K, <1>w DEF IsForked

\* G is H with p split and d as its second half.
SplitInner(H, G, p, d, lk, lc, rk, rc) ==
  G = [H EXCEPT ![p] = [level |-> H[p].level, keys |-> lk, child |-> lc],
                ![d] = [level |-> H[p].level, keys |-> rk, child |-> rc]]

HalfFull(ks, cs) == Len(ks) >= mininnerslots /\ Len(ks) <= innerslotmax /\ Len(cs) = Len(ks) + 1

IsSplitInner(H, G, root, R, p, d) ==
  /\ G \in Heaps /\ Shape(G, root, {d}, {}, OrderedAfter(R, p, d))
  /\ Filled(G, {}, root, 1) /\ (p = root => Filled(G, {}, NULL, 1))
  /\ IsNext(Allocated(G), OrderedAfter(R, p, d), p, d) /\ Kept(H, G, H[p].level)
  /\ Leaves(G) = Leaves(H) /\ InnerNodes(G) = InnerNodes(H) \cup {d} /\ Pairs(G) = Pairs(H)

LEMMA SplitInnerShape ==
  ASSUME NEW H \in Heaps, NEW root, root # NULL, NEW R, NEW x, Shape(H, root, {x}, {}, R),
         Filled(H, {}, root, 1), NEW p \in InnerNodes(H), NEW slot \in 0 .. slotuse(H, p),
         IsNext(Allocated(H), R, childid(H, p, slot), x),
         NEW cs, cs = InsertAt(H[p].child, slot + 2, x), NEW d \in NodeId \ Allocated(H),
         NEW lk \in Seq(Key), NEW rk \in Seq(Key), NEW lc \in Seq(NodeId), NEW rc \in Seq(NodeId),
         Joins(cs, lc, rc), HalfFull(lk, lc), HalfFull(rk, rc),
         NEW G, SplitInner(H, G, p, d, lk, lc, rk, rc)
  PROVE  IsSplitInner(H, G, root, R, p, d)
<1>l. PICK l : l = H[p].level
  OBVIOUS
<1>m. PICK M : Born(H, M, d, EmptyInner(l))
  BY DEF Born
<1>q. PICK Q : Q = OrderedAfter(R, p, d)
  OBVIOUS
<1>1. Tree(H, root, {x}, R) /\ NodesHold(H, {}) /\ Linked(H, {}, R)
  BY DEF Shape
<1>2. IsAdopted(H, root, R, p, x, cs)
  BY <1>1, AdoptIn
<1>3. p \in Allocated(H) /\ p \in NodeId /\ p # d /\ l \in Nat \ {0} /\ ~isleafnode(H, p)
  BY <1>l, InnerNode
<1>4. IsBornInner(H, M, d, l)
  BY <1>1, <1>3, <1>m, InnerBorn
<1>5. /\ M \in Heaps /\ Allocated(M) = Allocated(H) \cup {d}
      /\ d \in InnerNodes(M) /\ M[d].level = l /\ Kids(M, d) = <<>>
      /\ \A n \in Allocated(H) : M[n].level = H[n].level /\ Kids(M, n) = Kids(H, n)
                                 /\ slotuse(M, n) = slotuse(H, n)
      /\ Leaves(M) = Leaves(H) /\ InnerNodes(M) = InnerNodes(H) \cup {d}
      /\ Pairs(M) = Pairs(H) /\ NodesHold(M, {d}) /\ Kept(H, M, 0)
  BY <1>4 DEF IsBornInner
<1>6. M = [H EXCEPT ![d] = EmptyInner(l)] /\ M = [n \in NodeId |-> M[n]]
  BY <1>m DEF Born, Heaps
<1>7. G = [M EXCEPT ![p] = [level |-> l, keys |-> lk, child |-> lc],
                    ![d] = [level |-> l, keys |-> rk, child |-> rc]]
  BY <1>l, <1>3, <1>6 DEF SplitInner, Heaps
<1>8. /\ G[p] = [level |-> l, keys |-> lk, child |-> lc]
      /\ G[d] = [level |-> l, keys |-> rk, child |-> rc]
      /\ \A n \in NodeId \ {p, d} : G[n] = M[n]
      /\ G = [n \in NodeId |-> G[n]]
  BY <1>3, <1>6, <1>7
<1>9. G[p] \in Inner /\ G[d] \in Inner /\ G[p].level = l /\ G[d].level = l
      /\ G[p].keys = lk /\ G[p].child = lc /\ G[d].keys = rk /\ G[d].child = rc
  BY <1>3, <1>8 DEF Inner
<1>10. InnerWrites(M, G, {p, d})
  <2>1. {p, d} \subseteq InnerNodes(M)
    BY <1>5
  <2>2. M[p].level = l
    BY <1>3, <1>5, <1>l
  <2> QED
    BY <1>5, <1>8, <1>9, <2>1, <2>2 DEF InnerWrites
<1>11. SameFrame(M, G, {p, d})
  BY <1>5, <1>10, InnerWritesAre
<1>12. /\ G \in Heaps /\ Allocated(G) = Allocated(H) \cup {d}
       /\ Leaves(G) = Leaves(H) /\ InnerNodes(G) = InnerNodes(H) \cup {d}
       /\ Kids(G, p) = lc /\ Kids(G, d) = rc
       /\ \A n \in Allocated(H) \ {p} : G[n].level = H[n].level /\ Kids(G, n) = Kids(H, n)
  <2>1. \A n \in Allocated(H) \ {p} : n \in NodeId \ {p, d} /\ n \in Allocated(M)
    BY <1>5 DEF Allocated
  <2>2. /\ G \in Heaps /\ Allocated(G) = Allocated(M) /\ Leaves(G) = Leaves(M)
        /\ InnerNodes(G) = InnerNodes(M)
        /\ \A n \in Allocated(M) : G[n].level = M[n].level
        /\ \A n \in NodeId \ {p, d} : Kids(G, n) = Kids(M, n)
        /\ \A n \in {p, d} : Kids(G, n) = G[n].child
    BY <1>11 DEF SameFrame
  <2> QED
    BY <1>5, <1>9, <2>1, <2>2
<1>13. Tree(G, root, {d}, Q) /\ IsNext(Allocated(G), Q, p, d)
  <2>A. PICK A : A = Allocated(H)
    OBVIOUS
  <2>lv. PICK lv : lv = LevelsOf(H)
    OBVIOUS
  <2>K. PICK K : K = Put(KidsOf(H), p, cs)
    OBVIOUS
  <2>X. PICK X : X = ({root} \ {NULL}) \cup {}
    OBVIOUS
  <2>1. Forest(A, lv, K, X, R) /\ cs \in Seq(A)
    BY <1>2, <2>A, <2>lv, <2>K, <2>X DEF IsAdopted
  <2>2. /\ K[p] = cs /\ DOMAIN K = A /\ \A n \in A \ {p} : K[n] = Kids(H, n)
        /\ DOMAIN lv = A /\ \A n \in A : lv[n] = H[n].level
    <3>1. DOMAIN KidsOf(H) = A /\ \A n \in A : KidsOf(H)[n] = Kids(H, n)
      BY <2>A DEF KidsOf
    <3>2. p \in DOMAIN KidsOf(H)
      BY <1>3, <2>A, <3>1
    <3>3. K[p] = cs /\ DOMAIN K = A /\ \A n \in A \ {p} : K[n] = KidsOf(H)[n]
      BY <2>K, <3>1, <3>2, PutIs
    <3> QED
      BY <2>A, <2>lv, <3>1, <3>3 DEF LevelsOf
  <2>3. lc \in Seq(A) /\ rc \in Seq(A)
    <3>1. /\ \A j \in 1 .. Len(lc) : j \in 1 .. Len(cs) /\ cs[j] = lc[j]
          /\ \A j \in 1 .. Len(rc) : j + Len(lc) \in 1 .. Len(cs) /\ cs[j + Len(lc)] = rc[j]
      <4>1. cs \in Seq(NodeId)
        <5>1. A \subseteq NodeId
          BY <2>A DEF Allocated
        <5> QED
          BY <2>1, <5>1
      <4> QED
        BY <4>1, JoinsElements
    <3>2. \A j \in 1 .. Len(cs) : cs[j] \in A
      BY <2>1
    <3>3. (\A j \in 1 .. Len(lc) : lc[j] \in A) /\ \A j \in 1 .. Len(rc) : rc[j] \in A
      BY <3>1, <3>2
    <3> QED
      BY <3>3, SubsetSeq
  <2>4. IsForked(A, lv, K, X, R, p, d, lc, rc)
    <3>1. d \notin A /\ p \in A /\ Joins(K[p], lc, rc)
      BY <1>3, <2>A, <2>2
    <3> QED
      BY <2>1, <2>3, <3>1, Fork
  <2>w. PICK w : w = Put(lv, d, lv[p])
    OBVIOUS
  <2>L. PICK L : L = Put(Put(Put(K, d, <<>>), p, lc), d, rc)
    OBVIOUS
  <2>5. Forest(A \cup {d}, w, L, X \cup {d}, Q) /\ IsNext(A \cup {d}, Q, p, d)
    BY <1>q, <2>w, <2>L, <2>4 DEF IsForked
  <2>6. d \notin A /\ p \in A
    BY <1>3, <2>A
  <2>7. w[d] = l /\ \A n \in A : w[n] = H[n].level
    BY <1>l, <2>w, <2>2, <2>6 DEF Put
  <2>8. L[d] = rc /\ L[p] = lc /\ \A n \in A \ {p} : L[n] = Kids(H, n)
    BY <2>L, <2>2, <2>6 DEF Put
  <2>9. \A n \in A \cup {d} : G[n].level = w[n] /\ Kids(G, n) = L[n]
    BY <1>l, <1>9, <1>12, <2>A, <2>7, <2>8
  <2>10. root \in A /\ \A n \in A : n = root \/ w[n] < w[root]
    <3>1. root \in Allocated(H) /\ \A n \in Allocated(H) : n = root \/ n \in {x} \/ H[n].level < H[root].level
      BY <1>1, RootIs DEF Tree
    <3>2. H[x].level < H[root].level
      BY <1>2 DEF IsAdopted
    <3> QED
      BY <2>A, <2>7, <3>1, <3>2
  <2>11. X \cup {d} = ({root} \ {NULL}) \cup {d}
    BY <2>X
  <2>12. Tree(G, root, {d}, Q)
    <3>1. \A n \in A \cup {d} : n = root \/ n \in {d} \/ w[n] < w[root]
      BY <2>10
    <3>2. Forest(A \cup {d}, w, L, ({root} \ {NULL}) \cup {d}, Q)
      BY <2>5, <2>11
    <3>3. Allocated(G) = A \cup {d} /\ root \in A \cup {d}
      BY <1>12, <2>A, <2>10
    <3> QED
      BY <2>9, <3>1, <3>2, <3>3, TreeFrom
  <2> QED
    BY <1>12, <2>A, <2>5, <2>12
<1>14. NodesHold(G, {})
  <2>1. \A n \in {p, d} \ {} : Len(G[n].keys) <= innerslotmax /\ Len(G[n].child) = Len(G[n].keys) + 1
    BY <1>9 DEF HalfFull
  <2>D. PICK D : D = {p, d}
    OBVIOUS
  <2>E. PICK E : E = {d}
    OBVIOUS
  <2>F. PICK F : F = {}
    OBVIOUS
  <2>3. M \in Heaps /\ NodesHold(M, E) /\ SameFrame(M, G, D) /\ E \subseteq D /\ F \subseteq D
    BY <1>5, <1>11, <2>D, <2>E, <2>F
  <2>4. \A n \in F : G[n].keys = <<>> /\ G[n].child = <<>>
    BY <2>F
  <2>5. \A n \in D \ F : Len(G[n].keys) <= innerslotmax /\ Len(G[n].child) = Len(G[n].keys) + 1
    BY <2>1, <2>D, <2>F
  <2>6. NodesHold(G, F)
    BY <2>3, <2>4, <2>5, FrameHolds
  <2> QED
    BY <2>6, <2>F
<1>15. Filled(G, {}, root, 1) /\ (p = root => Filled(G, {}, NULL, 1))
  <2>1. \A top : \A n \in {p, d} \ {} : Len(G[n].keys) >= IF n # top THEN mininnerslots ELSE 1
    BY <1>9, Sizes DEF HalfFull
  <2>2. Filled(M, {p, d}, root, 1)
    <3> SUFFICES ASSUME NEW n \in Allocated(M) \ {p, d}
                 PROVE  slotuse(M, n) >= IF n # root THEN mininnerslots ELSE IF isleafnode(M, n) THEN 1 ELSE 1
      BY DEF Filled
    <3>1. n \in Allocated(H) /\ slotuse(M, n) = slotuse(H, n)
      BY <1>5
    <3> QED
      BY <3>1 DEF Filled
  <2>3. Filled(G, {}, root, 1)
    BY <1>5, <1>11, <2>1, <2>2, FrameFilled
  <2>4. p = root => Filled(G, {}, NULL, 1)
    BY <1>5, <1>11, <2>1, <2>2, FrameFilled
  <2> QED
    BY <2>3, <2>4
<1>16. Kept(H, G, l)
  <2>1. Kept(H, M, l)
    BY <1>5, NodeIs DEF Kept
  <2>2. Kept(M, G, l)
    <3>1. \A n \in {p, d} : M[n].level = l
      BY <1>3, <1>5, <1>l
    <3> QED
      BY <1>5, <1>11, <3>1, FrameKept
  <2>3. l \in Int /\ \A n \in Allocated(H) : H[n].level \in Int
    BY <1>3, NodeIs
  <2> QED
    BY <2>1, <2>2, <2>3, KeptTwice
<1>17. Linked(G, {}, Q) /\ Pairs(G) = Pairs(H)
  <2>1. Pairs(G) = Pairs(M)
    <3>1. Leaves(M) \ {} = Leaves(M) \ {}
      OBVIOUS
    <3>2. Leaves(G) = Leaves(M) /\ \A n \in Leaves(M) : slotuse(G, n) = slotuse(M, n)
      <4>1. \A n \in Leaves(M) : n \in NodeId \ {p, d}
        BY <1>3, <1>5, LeafNode DEF Leaves
      <4> QED
        BY <1>11, <4>1 DEF SameFrame
    <3> QED
      BY <3>2 DEF Pairs
  <2>2. \A n \in Leaves(H) : G[n].next = H[n].next /\ G[n].prev = H[n].prev
    <3>1. \A n \in Leaves(H) : n \in NodeId \ {p, d}
      BY <1>3, LeafNode
    <3> QED
      BY <1>6, <1>8, <3>1
  <2>3. \A m, n \in Leaves(H) \ {} : n \in Q[m] <=> n \in R[m]
    <3> SUFFICES ASSUME NEW m \in Leaves(H), NEW n \in Leaves(H)
                 PROVE  n \in Q[m] <=> n \in R[m]
      OBVIOUS
    <3>1. m \in Allocated(H) /\ n \in Allocated(H) /\ m # d /\ n # d /\ m # p /\ H[m].level = 0
      BY <1>3, LeafNode
    <3>2. DOMAIN R = Allocated(H) /\ (p \in R[m] => LevelsOf(H)[p] = LevelsOf(H)[m])
      <4>1. Forest(Allocated(H), LevelsOf(H), KidsOf(H), ({root} \ {NULL}) \cup {x}, R)
        BY <1>1, TreeIs
      <4> QED
        BY <1>3, <3>1, <4>1, ForestTypes DEF Forest, LevelOrder
    <3>3. p \notin R[m]
      BY <1>3, <1>l, <3>1, <3>2 DEF LevelsOf
    <3> QED
      BY <1>q, <3>1, <3>2, <3>3 DEF OrderedAfter
  <2>4. Leaves(G) = Leaves(H)
    BY <1>12
  <2>5. Linked(G, {}, Q)
    BY <1>1, <2>2, <2>3, <2>4, SameLeafOrder
  <2> QED
    BY <1>5, <2>1, <2>5
<1> QED
  BY <1>l, <1>q, <1>12, <1>13, <1>14, <1>15, <1>16, <1>17 DEF IsSplitInner, Shape

\* An element more in the second part of a join, in the first, or between them.
LEMMA JoinRight ==
  ASSUME NEW S, NEW s \in Seq(S), NEW l \in Seq(S), NEW r \in Seq(S), Joins(s, l, r),
         NEW k \in 1 .. Len(r) + 1, NEW x \in S, NEW h \in Seq(S), NEW t \in Seq(S),
         Inserted(r, h, k, x), NEW i, i = Len(l) + k, Inserted(s, t, i, x)
  PROVE  Joins(t, l, h)
<1>1. Len(l) \in Nat /\ Len(r) \in Nat /\ k \in Nat /\ k >= 1 /\ k <= Len(r) + 1 /\ i \in Nat
  OBVIOUS
<1>2. Len(s) = Len(l) + Len(r) /\ Len(t) = Len(s) + 1 /\ Len(h) = Len(r) + 1
  BY DEF Joins, Inserted
<1>3. Len(t) = Len(l) + Len(h)
  BY <1>1, <1>2
<1>4. ASSUME NEW j \in 1 .. Len(l) PROVE t[j] = l[j]
  BY <1>1, <1>4 DEF Joins, Inserted
<1>5. ASSUME NEW j \in 1 .. Len(h) PROVE t[j + Len(l)] = h[j]
  <2>1. CASE j = k
    BY <1>1, <2>1 DEF Inserted
  <2>2. CASE j < k
    <3>1. j \in 1 .. k - 1 /\ j \in 1 .. Len(r) /\ j + Len(l) \in 1 .. i - 1
      BY <1>1, <1>2, <2>2
    <3> QED
      BY <3>1 DEF Joins, Inserted
  <2>3. CASE j > k
    <3>1. PICK m : m = j - 1
      OBVIOUS
    <3>2. PICK n : n = m + Len(l)
      OBVIOUS
    <3>3. m \in k .. Len(r) /\ m \in 1 .. Len(r) /\ n \in i .. Len(s) /\ m + 1 = j /\ n + 1 = j + Len(l)
      BY <1>1, <1>2, <2>3, <3>1, <3>2
    <3>4. h[m + 1] = r[m] /\ t[n + 1] = s[n]
      BY <3>3 DEF Inserted
    <3>5. s[m + Len(l)] = r[m]
      BY <3>3 DEF Joins
    <3> QED
      BY <3>2, <3>3, <3>4, <3>5
  <2> QED
    BY <1>1, <2>1, <2>2, <2>3
<1> QED
  BY <1>3, <1>4, <1>5 DEF Joins

LEMMA JoinLeft ==
  ASSUME NEW S, NEW s \in Seq(S), NEW l \in Seq(S), NEW r \in Seq(S), Joins(s, l, r),
         NEW i \in 1 .. Len(l) + 1, NEW x \in S, NEW h \in Seq(S), NEW t \in Seq(S),
         Inserted(l, h, i, x), Inserted(s, t, i, x)
  PROVE  Joins(t, h, r)
<1>1. Len(l) \in Nat /\ Len(r) \in Nat /\ i \in Nat /\ i >= 1 /\ i <= Len(l) + 1
  OBVIOUS
<1>2. Len(s) = Len(l) + Len(r) /\ Len(t) = Len(s) + 1 /\ Len(h) = Len(l) + 1
  BY DEF Joins, Inserted
<1>3. Len(t) = Len(h) + Len(r)
  BY <1>1, <1>2
<1>4. ASSUME NEW j \in 1 .. Len(h) PROVE t[j] = h[j]
  <2>1. CASE j = i
    BY <1>1, <2>1 DEF Inserted
  <2>2. CASE j < i
    <3>1. j \in 1 .. i - 1 /\ j \in 1 .. Len(l)
      BY <1>1, <1>2, <2>2
    <3> QED
      BY <3>1 DEF Joins, Inserted
  <2>3. CASE j > i
    <3>1. PICK m : m = j - 1
      OBVIOUS
    <3>3. m \in i .. Len(l) /\ m \in 1 .. Len(l) /\ m \in i .. Len(s) /\ m + 1 = j
      BY <1>1, <1>2, <2>3, <3>1
    <3>4. h[m + 1] = l[m] /\ t[m + 1] = s[m]
      BY <3>3 DEF Inserted
    <3>5. s[m] = l[m]
      BY <3>3 DEF Joins
    <3> QED
      BY <3>3, <3>4, <3>5
  <2> QED
    BY <1>1, <2>1, <2>2, <2>3
<1>5. ASSUME NEW j \in 1 .. Len(r) PROVE t[j + Len(h)] = r[j]
  <2>1. PICK n : n = j + Len(l)
    OBVIOUS
  <2>2. n \in i .. Len(s) /\ n + 1 = j + Len(h)
    BY <1>1, <1>2, <2>1
  <2>3. t[n + 1] = s[n]
    BY <2>2 DEF Inserted
  <2>4. s[n] = r[j]
    BY <2>1 DEF Joins
  <2> QED
    BY <2>2, <2>3, <2>4
<1> QED
  BY <1>3, <1>4, <1>5 DEF Joins

\* The first part gets the first element of the second, which gets x instead.
JoinedBetween(S, t, h, u, l, r) ==
  Joins(t, h, u) /\ h \in Seq(S) /\ u \in Seq(S) /\ Len(h) = Len(l) + 1 /\ Len(u) = Len(r)

LEMMA JoinBetween ==
  ASSUME NEW S, NEW s \in Seq(S), NEW l \in Seq(S), NEW r \in Seq(S), Joins(s, l, r), r # <<>>,
         NEW x \in S, NEW t \in Seq(S), NEW i, i = Len(l) + 2, Inserted(s, t, i, x),
         NEW h, h = Append(l, Head(r)), NEW u, u = <<x>> \o Tail(r)
  PROVE  JoinedBetween(S, t, h, u, l, r)
<1>1. Len(l) \in Nat /\ Len(r) \in Nat /\ Len(r) >= 1 /\ i \in Nat
  OBVIOUS
<1>2. Len(s) = Len(l) + Len(r) /\ Len(t) = Len(s) + 1
  BY DEF Joins, Inserted
<1>3. /\ h \in Seq(S) /\ Len(h) = Len(l) + 1 /\ h[Len(l) + 1] = r[1]
      /\ \A j \in 1 .. Len(l) : h[j] = l[j]
  BY <1>1
<1>4. /\ u \in Seq(S) /\ Len(u) = Len(r) /\ u[1] = x
      /\ \A j \in 1 .. Len(r) : j > 1 => u[j] = r[j]
  <2>1. /\ Tail(r) \in Seq(S) /\ Len(Tail(r)) = Len(r) - 1
        /\ \A j \in 1 .. Len(r) - 1 : Tail(r)[j] = r[j + 1]
    BY <1>1
  <2>2. u \in Seq(S) /\ Joins(u, <<x>>, Tail(r))
    <3>1. <<x>> \in Seq(S) /\ Tail(r) \in Seq(S)
      BY <2>1
    <3> QED
      BY <3>1, ConcatIs
  <2>3. Len(<<x>>) = 1 /\ <<x>>[1] = x
    OBVIOUS
  <2>4. Len(u) = Len(r) /\ u[1] = x
    BY <1>1, <2>1, <2>2, <2>3 DEF Joins
  <2>5. ASSUME NEW j \in 1 .. Len(r), j > 1 PROVE u[j] = r[j]
    <3>1. PICK m : m = j - 1
      OBVIOUS
    <3>2. m \in 1 .. Len(r) - 1 /\ m \in 1 .. Len(Tail(r)) /\ m + 1 = j
      BY <1>1, <2>1, <2>5, <3>1
    <3>3. u[m + Len(<<x>>)] = Tail(r)[m]
      BY <2>2, <3>2 DEF Joins
    <3> QED
      BY <2>1, <2>3, <3>2, <3>3
  <2> QED
    BY <2>2, <2>4, <2>5
<1>5. Len(t) = Len(h) + Len(u)
  BY <1>1, <1>2, <1>3, <1>4
<1>6. ASSUME NEW j \in 1 .. Len(h) PROVE t[j] = h[j]
  <2>1. j \in 1 .. i - 1
    BY <1>1, <1>3
  <2>2. t[j] = s[j]
    BY <2>1 DEF Inserted
  <2>3. CASE j <= Len(l)
    <3>1. j \in 1 .. Len(l)
      BY <1>1, <2>3
    <3> QED
      BY <1>3, <2>2, <3>1 DEF Joins
  <2>4. CASE j > Len(l)
    <3>1. j = 1 + Len(l) /\ j = Len(l) + 1 /\ 1 \in 1 .. Len(r)
      BY <1>1, <1>3, <2>4
    <3>2. s[1 + Len(l)] = r[1]
      BY <3>1 DEF Joins
    <3> QED
      BY <1>3, <2>2, <3>1, <3>2
  <2> QED
    BY <1>1, <2>3, <2>4
<1>7. ASSUME NEW j \in 1 .. Len(u) PROVE t[j + Len(h)] = u[j]
  <2>1. CASE j = 1
    BY <1>1, <1>3, <1>4, <2>1 DEF Inserted
  <2>2. CASE j > 1
    <3>1. PICK n : n = j + Len(l)
      OBVIOUS
    <3>2. n \in i .. Len(s) /\ n + 1 = j + Len(h) /\ j \in 1 .. Len(r)
      BY <1>1, <1>2, <1>3, <1>4, <2>2, <3>1
    <3>3. t[n + 1] = s[n]
      BY <3>2 DEF Inserted
    <3>4. s[n] = r[j]
      BY <3>1, <3>2 DEF Joins
    <3> QED
      BY <1>4, <2>2, <3>2, <3>3, <3>4
  <2> QED
    BY <2>1, <2>2, <1>4, <1>1
<1> QED
  BY <1>3, <1>4, <1>5, <1>6, <1>7 DEF Joins, JoinedBetween

\* The halves of a full inner node with the child x behind slot: x goes between
\* the two, into the right one or into the left one.
CutBetween(ks, cc, mid, slot, key, x, lk, lc, rk, rc, up) ==
  LET rchild == SubSeq(cc, mid + 2, Len(cc))
  IN /\ slot = mid + 1 /\ mid < Len(SubSeq(ks, mid + 2, Len(ks)))
     /\ lk = Append(SubSeq(ks, 1, mid), ks[mid + 1])
     /\ lc = Append(SubSeq(cc, 1, mid + 1), Head(rchild))
     /\ rk = SubSeq(ks, mid + 2, Len(ks)) /\ rc = <<x>> \o Tail(rchild) /\ up = key

CutRight(ks, cc, mid, slot, key, x, lk, lc, rk, rc, up) ==
  /\ ~(slot = mid + 1 /\ mid < Len(SubSeq(ks, mid + 2, Len(ks)))) /\ slot >= mid + 1
  /\ lk = SubSeq(ks, 1, mid) /\ lc = SubSeq(cc, 1, mid + 1)
  /\ rk = InsertAt(SubSeq(ks, mid + 2, Len(ks)), slot - mid, key)
  /\ rc = InsertAt(SubSeq(cc, mid + 2, Len(cc)), slot - mid + 1, x) /\ up = ks[mid + 1]

CutLeft(ks, cc, mid, slot, key, x, lk, lc, rk, rc, up) ==
  /\ slot < mid + 1
  /\ lk = InsertAt(SubSeq(ks, 1, mid), slot + 1, key)
  /\ lc = InsertAt(SubSeq(cc, 1, mid + 1), slot + 2, x)
  /\ rk = SubSeq(ks, mid + 2, Len(ks)) /\ rc = SubSeq(cc, mid + 2, Len(cc)) /\ up = ks[mid + 1]

IsCut(ks, cc, mid, slot, key, x, lk, lc, rk, rc, up) ==
  \/ CutBetween(ks, cc, mid, slot, key, x, lk, lc, rk, rc, up)
  \/ CutRight(ks, cc, mid, slot, key, x, lk, lc, rk, rc, up)
  \/ CutLeft(ks, cc, mid, slot, key, x, lk, lc, rk, rc, up)

GoodHalves(cs, lk, lc, rk, rc, up) ==
  /\ lk \in Seq(Key) /\ rk \in Seq(Key) /\ lc \in Seq(NodeId) /\ rc \in Seq(NodeId)
  /\ Joins(cs, lc, rc) /\ HalfFull(lk, lc) /\ HalfFull(rk, rc) /\ up \in Key

\* Where a full node is cut.
LEMMA CutPlace ==
  ASSUME NEW slot \in 0 .. innerslotmax, NEW mid, mid = SplitSlot(innerslotmax, slot)
  PROVE  /\ mid \in Nat /\ mid + 1 <= innerslotmax
         /\ mid = mininnerslots - 1 =>
              innerslotmax = 2 * mininnerslots /\ slot <= mininnerslots
         /\ mid # mininnerslots - 1 => mid = mininnerslots
         /\ mid = mininnerslots /\ innerslotmax = 2 * mininnerslots => slot > mininnerslots
<1>1. innerslotmax \div 2 = mininnerslots
  BY DEF mininnerslots
<1>2. mid = IF slot <= mininnerslots /\ mininnerslots > innerslotmax - (mininnerslots + 1)
              THEN mininnerslots - 1 ELSE mininnerslots
  BY <1>1 DEF SplitSlot
<1> QED
  BY <1>2, Sizes

LEMMA HalvesOfInner ==
  ASSUME NEW ks \in Seq(Key), Len(ks) = innerslotmax, NEW cc \in Seq(NodeId), Len(cc) = Len(ks) + 1,
         NEW slot \in 0 .. innerslotmax, NEW mid, mid = SplitSlot(innerslotmax, slot),
         NEW key \in Key, NEW x \in NodeId, NEW cs, cs = InsertAt(cc, slot + 2, x),
         NEW lk, NEW lc, NEW rk, NEW rc, NEW up,
         IsCut(ks, cc, mid, slot, key, x, lk, lc, rk, rc, up)
  PROVE  GoodHalves(cs, lk, lc, rk, rc, up)
<1>a. PICK lkeys : lkeys = SubSeq(ks, 1, mid)
  OBVIOUS
<1>b. PICK rkeys : rkeys = SubSeq(ks, mid + 2, Len(ks))
  OBVIOUS
<1>c. PICK lchild : lchild = SubSeq(cc, 1, mid + 1)
  OBVIOUS
<1>d. PICK rchild : rchild = SubSeq(cc, mid + 2, Len(cc))
  OBVIOUS
<1>e. PICK m : m = mininnerslots
  OBVIOUS
<1>f. PICK n : n = innerslotmax
  OBVIOUS
<1>1. /\ mid \in Nat /\ mid + 1 <= n /\ slot \in 0 .. n
      /\ mid = m - 1 => n = 2 * m /\ slot <= m
      /\ mid # m - 1 => mid = m
      /\ mid = m /\ n = 2 * m => slot > m
  BY <1>e, <1>f, CutPlace
<1>2. m \in Nat /\ m >= 2 /\ n \in {2 * m, 2 * m + 1} /\ n \in Nat
  BY <1>e, <1>f, Sizes
<1>3. Len(ks) = n /\ Len(cc) = n + 1
  BY <1>f
<1>4. /\ lkeys \in Seq(Key) /\ Len(lkeys) = mid
      /\ lchild \in Seq(NodeId) /\ Len(lchild) = mid + 1
      /\ rchild \in Seq(NodeId) /\ Len(rchild) = n - mid /\ Joins(cc, lchild, rchild)
  <2>1. mid \in 0 .. Len(ks) /\ mid + 1 \in 0 .. Len(cc) /\ (mid + 1) + 1 = mid + 2
    BY <1>1, <1>2, <1>3
  <2>2. lkeys \in Seq(Key) /\ Len(lkeys) = mid
    BY <1>a, <2>1, CutIs
  <2>3. PICK k : k = mid + 1
    OBVIOUS
  <2>4. rchild = SubSeq(cc, k + 1, Len(cc)) /\ lchild = SubSeq(cc, 1, k) /\ k \in 0 .. Len(cc)
    BY <1>c, <1>d, <2>1, <2>3
  <2>5. /\ lchild \in Seq(NodeId) /\ rchild \in Seq(NodeId) /\ Len(lchild) = k
        /\ Len(rchild) = Len(cc) - k /\ Joins(cc, lchild, rchild)
    BY <2>4, CutIs
  <2>6. k = mid + 1 /\ Len(cc) - k = n - mid
    <3>1. \A u, v \in Nat : (u + 1) - (v + 1) = u - v
      OBVIOUS
    <3> QED
      BY <1>1, <1>2, <1>3, <2>3, <3>1, ZenonT(40)
  <2> QED
    BY <2>2, <2>5, <2>6
<1>5. rkeys \in Seq(Key) /\ Len(rkeys) = n - (mid + 1)
  <2>1. mid + 2 \in 1 .. Len(ks) + 1 /\ Len(ks) \in (mid + 2) - 1 .. Len(ks)
        /\ Len(ks) - (mid + 2) + 1 = n - (mid + 1)
    BY <1>1, <1>2, <1>3
  <2>2. PICK k : k = mid + 2
    OBVIOUS
  <2> QED
    BY <1>b, <2>1, <2>2, SliceIs, SMTT(30)
<1>6. ks[mid + 1] \in Key
  BY <1>1, <1>3
<1>7. PICK i : i = slot + 2
  OBVIOUS
<1>8. cs \in Seq(NodeId) /\ Inserted(cc, cs, i, x)
  <2>1. i \in 1 .. Len(cc) + 1
    BY <1>1, <1>2, <1>3, <1>7
  <2> QED
    BY <1>7, <2>1, InsertAtIs
<1>9. CASE CutBetween(ks, cc, mid, slot, key, x, lk, lc, rk, rc, up)
  <2>1. /\ slot = mid + 1 /\ mid < Len(rkeys)
        /\ lk = Append(lkeys, ks[mid + 1])
        /\ lc = Append(lchild, Head(rchild))
        /\ rk = rkeys /\ rc = <<x>> \o Tail(rchild) /\ up = key
    BY <1>9, <1>a, <1>b, <1>c, <1>d DEF CutBetween
  <2>2. i = Len(lchild) + 2 /\ Len(rchild) > 0
    BY <1>1, <1>2, <1>4, <1>7, <2>1, SMTT(30)
  <2>3. Joins(cs, lc, rc) /\ lc \in Seq(NodeId) /\ rc \in Seq(NodeId)
        /\ Len(lc) = Len(lchild) + 1 /\ Len(rc) = Len(rchild)
    <3>1. rchild # <<>>
      BY <2>2
    <3>2. /\ lchild \in Seq(NodeId) /\ rchild \in Seq(NodeId) /\ Joins(cc, lchild, rchild)
          /\ i = Len(lchild) + 2 /\ lc = Append(lchild, Head(rchild)) /\ rc = <<x>> \o Tail(rchild)
      BY <1>4, <2>1, <2>2
    <3>3. cs \in Seq(NodeId) /\ cc \in Seq(NodeId) /\ Inserted(cc, cs, i, x)
      BY <1>8
    <3>4. JoinedBetween(NodeId, cs, lc, rc, lchild, rchild)
      BY <3>1, <3>2, <3>3, JoinBetween
    <3> QED
      BY <3>4 DEF JoinedBetween
  <2>4. lk \in Seq(Key) /\ Len(lk) = mid + 1 /\ rk \in Seq(Key) /\ Len(rk) = n - (mid + 1)
    BY <1>4, <1>5, <1>6, <2>1
  <2>5. mid = m - 1 /\ n = 2 * m
    <3>1. mid < n - (mid + 1)
      BY <1>5, <2>1
    <3> QED
      BY <1>1, <1>2, <3>1
  <2>6. /\ Len(lk) >= m /\ Len(lk) <= n /\ Len(lc) = Len(lk) + 1
        /\ Len(rk) >= m /\ Len(rk) <= n /\ Len(rc) = Len(rk) + 1
    BY <1>2, <1>4, <2>3, <2>4, <2>5
  <2> QED
    BY <1>e, <1>f, <2>1, <2>3, <2>4, <2>6 DEF GoodHalves, HalfFull
<1>10. CASE CutRight(ks, cc, mid, slot, key, x, lk, lc, rk, rc, up)
  <2>j. PICK j : j = slot - mid
    OBVIOUS
  <2>k. PICK k : k = slot - mid + 1
    OBVIOUS
  <2>1. /\ ~(slot = mid + 1 /\ mid < Len(rkeys)) /\ slot >= mid + 1
        /\ lk = lkeys /\ lc = lchild /\ rk = InsertAt(rkeys, j, key)
        /\ rc = InsertAt(rchild, k, x) /\ up = ks[mid + 1]
    BY <1>10, <2>j, <2>k, <1>a, <1>b, <1>c, <1>d DEF CutRight
  <2>2. j \in 1 .. Len(rkeys) + 1 /\ k \in 1 .. Len(rchild) + 1 /\ i = Len(lchild) + k
    <3>1. j \in 1 .. (n - (mid + 1)) + 1 /\ k \in 1 .. (n - mid) + 1 /\ i = (mid + 1) + k
      <4>1. slot >= mid + 1
        BY <2>1
      <4>2. slot \in Nat /\ slot <= n /\ mid \in Nat /\ n \in Nat
        BY <1>1, <1>2
      <4>3. \A u, v, w \in Nat : u >= v + 1 /\ u <= w =>
              /\ u - v \in 1 .. (w - (v + 1)) + 1 /\ u - v + 1 \in 1 .. (w - v) + 1
              /\ u + 2 = (v + 1) + (u - v + 1)
        OBVIOUS
      <4>4. /\ slot - mid \in 1 .. (n - (mid + 1)) + 1 /\ slot - mid + 1 \in 1 .. (n - mid) + 1
            /\ slot + 2 = (mid + 1) + (slot - mid + 1)
        BY <4>1, <4>2, <4>3
      <4> QED
        BY <1>7, <2>j, <2>k, <4>4
    <3>2. Len(rkeys) = n - (mid + 1) /\ Len(rchild) = n - mid /\ Len(lchild) = mid + 1
      BY <1>4, <1>5
    <3> QED
      BY <3>1, <3>2
  <2>3. rk \in Seq(Key) /\ Len(rk) = Len(rkeys) + 1
    <3>1. rkeys \in Seq(Key) /\ j \in 1 .. Len(rkeys) + 1
      BY <1>5, <2>2
    <3>2. InsertAt(rkeys, j, key) \in Seq(Key) /\ Inserted(rkeys, InsertAt(rkeys, j, key), j, key)
      BY <3>1, InsertAtIs
    <3> QED
      BY <2>1, <3>2 DEF Inserted
  <2>4. rc \in Seq(NodeId) /\ Inserted(rchild, rc, k, x)
    BY <1>4, <2>1, <2>2, InsertAtIs
  <2>5. Len(rc) = Len(rchild) + 1
    BY <2>4 DEF Inserted
  <2>6. Joins(cs, lchild, rc)
    BY <1>4, <1>8, <2>2, <2>4, JoinRight
  <2>7. /\ Len(lk) >= m /\ Len(lk) <= n /\ Len(lc) = Len(lk) + 1
        /\ Len(rk) >= m /\ Len(rk) <= n /\ Len(rc) = Len(rk) + 1
    <3>1. ~(slot = mid + 1 /\ mid < n - (mid + 1)) /\ slot >= mid + 1
      BY <1>5, <2>1
    <3>2. mid = m
      BY <1>1, <1>2, <3>1
    <3>3. /\ Len(lk) = mid /\ Len(lc) = mid + 1 /\ Len(rk) = (n - (mid + 1)) + 1
          /\ Len(rc) = (n - mid) + 1
      BY <1>4, <1>5, <2>1, <2>3, <2>5
    <3>4. (n - (mid + 1)) + 1 \in Nat /\ (n - mid) + 1 = ((n - (mid + 1)) + 1) + 1
          /\ (n - (mid + 1)) + 1 >= m /\ (n - (mid + 1)) + 1 <= n /\ mid >= m /\ mid <= n
      BY <1>1, <1>2, <3>1, <3>2
    <3> QED
      BY <3>3, <3>4
  <2> QED
    BY <1>e, <1>f, <1>4, <1>6, <2>1, <2>3, <2>4, <2>6, <2>7 DEF GoodHalves, HalfFull
<1>11. CASE CutLeft(ks, cc, mid, slot, key, x, lk, lc, rk, rc, up)
  <2>j. PICK j : j = slot + 1
    OBVIOUS
  <2>1. /\ slot < mid + 1 /\ rk = rkeys /\ rc = rchild /\ lk = InsertAt(lkeys, j, key)
        /\ lc = InsertAt(lchild, i, x) /\ up = ks[mid + 1]
    BY <1>11, <2>j, <1>7, <1>a, <1>b, <1>c, <1>d DEF CutLeft
  <2>2. j \in 1 .. Len(lkeys) + 1 /\ i \in 1 .. Len(lchild) + 1
    BY <1>1, <1>2, <1>4, <1>7, <2>j, <2>1, SMTT(30)
  <2>3. lk \in Seq(Key) /\ Len(lk) = Len(lkeys) + 1
    BY <1>4, <2>1, <2>2, InsertAtIs DEF Inserted
  <2>4. lc \in Seq(NodeId) /\ Inserted(lchild, lc, i, x)
    BY <1>4, <2>1, <2>2, InsertAtIs
  <2>5. Len(lc) = Len(lchild) + 1
    BY <2>4 DEF Inserted
  <2>6. Joins(cs, lc, rchild)
    BY <1>4, <1>8, <2>2, <2>4, JoinLeft
  <2>7. /\ Len(lk) >= m /\ Len(lk) <= n /\ Len(lc) = Len(lk) + 1
        /\ Len(rk) >= m /\ Len(rk) <= n /\ Len(rc) = Len(rk) + 1
    <3>1. slot < mid + 1
      BY <2>1
    <3>2. /\ Len(lk) = mid + 1 /\ Len(lc) = (mid + 1) + 1 /\ Len(rk) = n - (mid + 1)
          /\ Len(rc) = n - mid
      BY <1>4, <1>5, <2>1, <2>3, <2>5
    <3>3. n - mid = (n - (mid + 1)) + 1
          /\ n - (mid + 1) >= m /\ n - (mid + 1) <= n /\ mid + 1 >= m /\ mid + 1 <= n
      BY <1>1, <1>2, <3>1
    <3> QED
      BY <3>2, <3>3
  <2> QED
    BY <1>e, <1>f, <1>4, <1>5, <1>6, <2>1, <2>3, <2>4, <2>6, <2>7 DEF GoodHalves, HalfFull
<1> QED
  BY <1>9, <1>10, <1>11 DEF IsCut

-----------------------------------------------------------------------------
(* Trees get a root                                                        *)

\* n becomes the parent of the two nodes at the top.
IsCrowned(A, lv, K, R, root, x, n) ==
  Forest(A \cup {n}, Put(lv, n, lv[root] + 1), Put(Put(Put(K, n, <<>>), n, <<root>>), n, <<root, x>>),
         {n}, Put(R, n, {}))

LEMMA Crown ==
  ASSUME NEW A, NEW lv, NEW K, NEW R, NEW root \in A, NEW x \in A, Forest(A, lv, K, {root, x}, R),
         IsNext(A, R, root, x), \A a \in A : lv[a] <= lv[root], NEW n, n \notin A
  PROVE  IsCrowned(A, lv, K, R, root, x, n)
<1>B. PICK B : B = A \cup {n}
  OBVIOUS
<1>Q. PICK Q : Q = Put(R, n, {})
  OBVIOUS
<1>w. PICK w : w = Put(lv, n, lv[root] + 1)
  OBVIOUS
<1>L. PICK L : L = Put(K, n, <<>>)
  OBVIOUS
<1>M. PICK M : M = Put(L, n, <<root>>)
  OBVIOUS
<1>1. /\ \A a \in A : lv[a] \in Nat /\ R[a] \subseteq A
      /\ DOMAIN lv = A /\ DOMAIN K = A /\ DOMAIN R = A
  BY ForestTypes
<1>2. lv[x] = lv[root] /\ root # x
  BY <1>1 DEF Forest, LevelOrder, IsNext
<1>3. Forest(B, w, L, {root, x} \cup {n}, Q)
  <2>1. lv[root] + 1 \in Nat /\ \A a \in A : lv[a] # lv[root] + 1
    BY <1>1
  <2> QED
    BY <2>1, <1>B, <1>Q, <1>w, <1>L, AddAlone
<1>4. /\ w[n] = lv[root] + 1 /\ \A a \in A : w[a] = lv[a] /\ Q[a] = R[a] /\ L[a] = K[a]
      /\ Q[n] = {} /\ L[n] = <<>> /\ n \in B /\ root \in B /\ x \in B
      /\ DOMAIN L = B
  BY <1>1, <1>B, <1>Q, <1>w, <1>L DEF Put
<1>5. Forest(B, w, M, ({root, x} \cup {n}) \ {root}, Q)
  <2>1. <<root>> \in Seq(B) /\ Inserted(L[n], <<root>>, 1, root)
    BY <1>4 DEF Inserted
  <2>2. \A j \in 1 .. 1 - 1 : root \in Q[L[n][j]]
    OBVIOUS
  <2>3. \A j \in 1 .. Len(L[n]) : L[n][j] \in Q[root]
    BY <1>4
  <2>4. \A q \in B : n \notin Q[q]
    BY <1>1, <1>4, <1>B
  <2>5. \A q \in B : n \in Q[q] => \A j \in 1 .. Len(L[q]) : root \in Q[L[q][j]]
    BY <2>4
  <2>6. \A q \in B : q \in Q[n] => \A j \in 1 .. Len(L[q]) : L[q][j] \in Q[root]
    BY <1>4
  <2>7. w[n] = w[root] + 1 /\ root \in {root, x} \cup {n}
    BY <1>4
  <2> QED
    BY <1>3, <1>4, <2>1, <2>2, <2>3, <2>5, <2>6, <2>7, <1>M, Adopt
<1>6. M[n] = <<root>> /\ IsNext(B, Q, root, x)
  <2>1. M[n] = <<root>>
    BY <1>4, <1>M DEF Put
  <2>2. IsNext(B, Q, root, x)
    BY <1>1, <1>4, <1>B DEF IsNext
  <2> QED
    BY <2>1, <2>2
<1>7. Forest(B, w, Put(M, n, <<root, x>>), (({root, x} \cup {n}) \ {root}) \ {x}, Q)
  <2>1. <<root, x>> \in Seq(B) /\ Inserted(M[n], <<root, x>>, 1 + 1, x)
    BY <1>4, <1>6 DEF Inserted
  <2>2. 1 \in 1 .. Len(M[n]) /\ M[n][1] = root
    BY <1>6
  <2>3. x \in ({root, x} \cup {n}) \ {root}
    BY <1>2
  <2> QED
    BY <1>4, <1>5, <1>6, <2>1, <2>2, <2>3, AdoptNext
<1>8. (({root, x} \cup {n}) \ {root}) \ {x} = {n}
  BY <1>1
<1> QED
  BY <1>7, <1>8, <1>B, <1>Q, <1>w, <1>L, <1>M DEF IsCrowned

\* The new root above a root that was split.
IsNewRoot(H, G, R, n) ==
  /\ G \in Heaps /\ Shape(G, n, {}, {}, Put(R, n, {})) /\ Filled(G, {}, n, 1)
  /\ Leaves(G) = Leaves(H) /\ InnerNodes(G) = InnerNodes(H) \cup {n} /\ Pairs(G) = Pairs(H)

LEMMA NewRootShape ==
  ASSUME NEW H \in Heaps, NEW root, root # NULL, NEW R, NEW x, Shape(H, root, {x}, {}, R),
         Filled(H, {}, NULL, 1), IsNext(Allocated(H), R, root, x),
         NEW n \in NodeId \ Allocated(H), NEW key \in Key,
         NEW v, v = [level |-> H[root].level + 1, keys |-> <<key>>, child |-> <<root, x>>],
         NEW G, Born(H, G, n, v)
  PROVE  IsNewRoot(H, G, R, n)
<1>A. PICK A : A = Allocated(H)
  OBVIOUS
<1>q. PICK Q : Q = Put(R, n, {})
  OBVIOUS
<1>1. Tree(H, root, {x}, R) /\ NodesHold(H, {}) /\ Linked(H, {}, R)
  BY DEF Shape
<1>2. /\ root \in A /\ H[root].level \in Nat /\ x \in A /\ n \notin A /\ A \subseteq NodeId
      /\ \A a \in A \ {x} : H[a].level <= H[root].level
  BY <1>1, <1>A, RootIs DEF Allocated
<1>3. Forest(A, LevelsOf(H), KidsOf(H), {root, x}, R)
  <2>1. ({root} \ {NULL}) \cup {x} = {root, x}
    OBVIOUS
  <2> QED
    BY <1>1, <1>A, <2>1, TreeIs
<1>4. \A a \in A : LevelsOf(H)[a] = H[a].level /\ KidsOf(H)[a] = Kids(H, a)
  BY <1>A DEF LevelsOf, KidsOf
<1>5. DOMAIN LevelsOf(H) = A /\ DOMAIN KidsOf(H) = A /\ DOMAIN R = A
  BY <1>3, ForestTypes
<1>6. \A a \in A : LevelsOf(H)[a] <= LevelsOf(H)[root]
  <2>1. LevelsOf(H)[x] = LevelsOf(H)[root]
    BY <1>2, <1>3, <1>A DEF IsNext, Forest, LevelOrder
  <2> QED
    BY <1>2, <1>4, <2>1
<1>7. IsCrowned(A, LevelsOf(H), KidsOf(H), R, root, x, n)
  BY <1>2, <1>3, <1>6, <1>A, Crown
<1>8. v \in Inner /\ v.level # 0 /\ v.level = H[root].level + 1 /\ v.keys = <<key>> /\ v.child = <<root, x>>
  BY <1>2 DEF Inner
<1>9. IsBorn(H, G, n, v)
  BY <1>8, BornIs
<1>10. /\ G \in Heaps /\ Allocated(G) = A \cup {n} /\ G[n] = v
       /\ \A a \in A : a # n /\ G[a] = H[a] /\ (isleafnode(G, a) <=> isleafnode(H, a))
       /\ \A a \in A : slotuse(G, a) = slotuse(H, a) /\ Kids(G, a) = Kids(H, a)
       /\ Leaves(G) = Leaves(H) /\ InnerNodes(G) = InnerNodes(H) \cup {n}
  BY <1>2, <1>8, <1>9, <1>A DEF IsBorn
<1>11. ~isleafnode(G, n) /\ Kids(G, n) = <<root, x>> /\ slotuse(G, n) = 1
  <2>1. ~isleafnode(G, n)
    BY <1>8, <1>10 DEF isleafnode
  <2> QED
    BY <1>8, <1>10, <2>1 DEF Kids, slotuse
<1>12. Tree(G, n, {}, Q)
  <2>w. PICK w : w = Put(LevelsOf(H), n, LevelsOf(H)[root] + 1)
    OBVIOUS
  <2>K. PICK K : K = Put(Put(Put(KidsOf(H), n, <<>>), n, <<root>>), n, <<root, x>>)
    OBVIOUS
  <2>B. PICK B : B = A \cup {n}
    OBVIOUS
  <2>1. Forest(B, w, K, {n}, Q)
    BY <1>7, <1>q, <2>w, <2>K, <2>B DEF IsCrowned
  <2>2. w[n] = H[root].level + 1 /\ \A a \in A : w[a] = H[a].level
    BY <1>2, <1>4, <1>5, <2>w DEF Put
  <2>3. K[n] = <<root, x>> /\ \A a \in A : K[a] = Kids(H, a)
    BY <1>2, <1>4, <1>5, <2>K DEF Put
  <2>4. \A a \in B : G[a].level = w[a] /\ Kids(G, a) = K[a]
    BY <1>8, <1>10, <1>11, <2>2, <2>3, <2>B
  <2>5. \A a \in B : a = n \/ a \in {} \/ w[a] < w[n]
    <3>1. \A a \in A : H[a].level <= H[root].level
      BY <1>2, <1>4, <1>6
    <3>2. \A a \in A : H[a].level \in Nat
      BY <1>A, NodeIs
    <3> QED
      BY <1>2, <2>2, <2>B, <3>1, <3>2
  <2>6. {n} = ({n} \ {NULL}) \cup {}
    BY NodeAssumption
  <2>7. Forest(B, w, K, ({n} \ {NULL}) \cup {}, Q) /\ Allocated(G) = B /\ n \in B
    BY <1>10, <2>1, <2>6, <2>B
  <2> QED
    BY <2>4, <2>5, <2>7, TreeFrom
<1>13. NodesHold(G, {})
  <2>1. ASSUME NEW a \in Allocated(G)
        PROVE  IF isleafnode(G, a) THEN slotuse(G, a) <= leafslotmax
               ELSE slotuse(G, a) <= innerslotmax /\ Len(Kids(G, a)) = slotuse(G, a) + 1
    <3>1. CASE a = n
      BY <1>11, <3>1, Sizes
    <3>2. CASE a \in A
      BY <1>1, <1>10, <1>A, <3>2 DEF NodesHold
    <3> QED
      BY <1>10, <3>1, <3>2
  <2> QED
    BY <2>1 DEF NodesHold
<1>14. Filled(G, {}, n, 1)
  <2>1. ASSUME NEW a \in Allocated(G)
        PROVE  slotuse(G, a) >= IF a # n THEN mininnerslots ELSE IF isleafnode(G, a) THEN 1 ELSE 1
    <3>1. CASE a = n
      BY <1>11, <3>1
    <3>2. CASE a \in A
      <4>1. a # NULL /\ a \in Allocated(H)
        BY <1>A, <3>2, NodeIs
      <4>2. slotuse(H, a) >= mininnerslots
        BY <4>1 DEF Filled
      <4> QED
        BY <1>10, <3>2, <4>2
    <3> QED
      BY <1>10, <3>1, <3>2
  <2> QED
    BY <2>1 DEF Filled
<1>15. Linked(G, {}, Q)
  <2>1. \A a \in Leaves(H) : a \in A
    BY <1>A DEF Leaves
  <2>2. \A a \in Leaves(H) : G[a].next = H[a].next /\ G[a].prev = H[a].prev
    BY <1>10, <2>1
  <2>3. \A a, b \in Leaves(H) \ {} : b \in Q[a] <=> b \in R[a]
    BY <1>2, <1>5, <1>q, <2>1 DEF Put
  <2>4. Leaves(G) = Leaves(H)
    BY <1>10
  <2> QED
    BY <1>1, <2>2, <2>3, <2>4, SameLeafOrder
<1>16. Pairs(G) = Pairs(H)
  <2>1. \A a \in Leaves(H) : slotuse(G, a) = slotuse(H, a)
    BY <1>10, <1>A DEF Leaves
  <2>2. Leaves(G) = Leaves(H)
    BY <1>10
  <2> QED
    BY <2>1, <2>2 DEF Pairs
<1> QED
  BY <1>10, <1>12, <1>13, <1>14, <1>15, <1>16, <1>q DEF IsNewRoot, Shape

\* The first leaf of a tree.
EmptyLeaf == [level |-> 0, slots |-> <<>>, prev |-> NULL, next |-> NULL]

IsFirstLeaf(G, R, n) ==
  /\ G \in Heaps /\ Shape(G, n, {}, {}, Put(R, n, {})) /\ Filled(G, {}, n, 0)
  /\ Leaves(G) = {n} /\ InnerNodes(G) = {} /\ Pairs(G) = {}

LEMMA FirstLeaf ==
  ASSUME NEW H \in Heaps, NEW R, Tree(H, NULL, {}, R), NEW n \in NodeId,
         NEW G, Born(H, G, n, EmptyLeaf)
  PROVE  IsFirstLeaf(G, R, n)
<1>q. PICK Q : Q = Put(R, n, {})
  OBVIOUS
<1>1. Allocated(H) = {} /\ Forest({}, LevelsOf(H), KidsOf(H), {}, R)
  <2>1. Allocated(H) = {}
    BY DEF Tree
  <2>2. ({NULL} \ {NULL}) \cup {} = {}
    OBVIOUS
  <2> QED
    BY <2>1, <2>2, TreeIs
<1>2. EmptyLeaf \in Leaf /\ EmptyLeaf.level = 0 /\ EmptyLeaf.slots = <<>>
      /\ EmptyLeaf.next = NULL /\ EmptyLeaf.prev = NULL
  BY DEF EmptyLeaf, Leaf
<1>3. IsBorn(H, G, n, EmptyLeaf)
  BY <1>1, <1>2, BornIs
<1>4. /\ G \in Heaps /\ Allocated(G) = {n} /\ G[n] = EmptyLeaf
      /\ Leaves(G) = {n} /\ InnerNodes(G) = {}
  BY <1>1, <1>2, <1>3 DEF IsBorn, Leaves, InnerNodes
<1>5. isleafnode(G, n) /\ Kids(G, n) = <<>> /\ slotuse(G, n) = 0
  BY <1>2, <1>4 DEF isleafnode, Kids, slotuse
<1>6. Forest({n}, Put(LevelsOf(H), n, 0), Put(KidsOf(H), n, <<>>), {n}, Q)
  <2>1. Forest({} \cup {n}, Put(LevelsOf(H), n, 0), Put(KidsOf(H), n, <<>>), {} \cup {n}, Q)
    BY <1>1, <1>q, AddAlone
  <2>2. {} \cup {n} = {n}
    OBVIOUS
  <2> QED
    BY <2>1, <2>2
<1>7. Tree(G, n, {}, Q)
  <2>w. PICK w : w = Put(LevelsOf(H), n, 0)
    OBVIOUS
  <2>K. PICK K : K = Put(KidsOf(H), n, <<>>)
    OBVIOUS
  <2>B. PICK B : B = {n}
    OBVIOUS
  <2>1. w[n] = 0 /\ K[n] = <<>>
    BY <2>w, <2>K DEF Put
  <2>2. \A a \in B : G[a].level = w[a] /\ Kids(G, a) = K[a]
    BY <1>2, <1>4, <1>5, <2>1, <2>B
  <2>3. \A a \in B : a = n \/ a \in {} \/ w[a] < w[n]
    BY <2>B
  <2>4. {n} = ({n} \ {NULL}) \cup {}
    BY NodeAssumption
  <2>5. Forest(B, w, K, ({n} \ {NULL}) \cup {}, Q) /\ Allocated(G) = B /\ n \in B
    BY <1>4, <1>6, <2>4, <2>w, <2>K, <2>B
  <2> QED
    BY <2>2, <2>3, <2>5, TreeFrom
<1>8. NodesHold(G, {}) /\ Filled(G, {}, n, 0)
  BY <1>4, <1>5, Sizes DEF NodesHold, Filled
<1>9. Linked(G, {}, Q)
  <2>1. Q[n] = {}
    BY <1>q DEF Put
  <2>2. Nexts(G)[n] = NULL /\ Prevs(G)[n] = NULL /\ Leaves(G) \ {} = {n}
    BY <1>2, <1>4 DEF Nexts, Prevs
  <2> QED
    BY <2>1, <2>2 DEF Linked, Chained
<1>10. Pairs(G) = {}
  BY <1>4, <1>5 DEF Pairs
<1> QED
  BY <1>4, <1>7, <1>8, <1>9, <1>10, <1>q DEF IsFirstLeaf, Shape

\* One frame, on the root.
LEMMA PathStart ==
  ASSUME NEW H, NEW root \in Allocated(H), NEW f, f.curr = root, H[root].level \in Nat
  PROVE  Path(H, root, <<f>>)
<1>1. Len(<<f>>) = 1 /\ <<f>>[1] = f
  OBVIOUS
<1>2. H[root].level = H[root].level - 1 + 1
  OBVIOUS
<1> QED
  BY <1>1, <1>2 DEF Path

-----------------------------------------------------------------------------
(* Neighbours                                                              *)

LEMMA SiblingNext ==
  ASSUME NEW H \in Heaps, NEW root, root # NULL, NEW R, NEW E, Tree(H, root, {}, R), NodesHold(H, E),
         NEW n \in Allocated(H) \ E, H[n].level > 0, NEW slot \in 0 .. slotuse(H, n),
         slot < slotuse(H, n)
  PROVE  IsNext(Allocated(H), R, childid(H, n, slot), childid(H, n, slot + 1))
<1>1. Forest(Allocated(H), LevelsOf(H), KidsOf(H), {root}, R)
  <2>1. ({root} \ {NULL}) \cup {} = {root}
    OBVIOUS
  <2> QED
    BY <2>1, TreeIs
<1>2. slotuse(H, n) \in Nat /\ H[n].level \in Nat
  BY NodeIs
<1>i. PICK i : i = slot + 1
  OBVIOUS
<1>3. /\ slot + 1 \in 1 .. Len(Kids(H, n)) /\ childid(H, n, slot) = Kids(H, n)[slot + 1]
      /\ (slot + 1) + 1 \in 1 .. Len(Kids(H, n)) /\ childid(H, n, slot + 1) = Kids(H, n)[(slot + 1) + 1]
  <2>1. slot + 1 \in 0 .. slotuse(H, n)
    BY <1>2
  <2> QED
    BY <2>1, ChildOf
<1>4. KidsOf(H)[n] = Kids(H, n) /\ LevelsOf(H)[n] = H[n].level /\ Len(Kids(H, n)) \in Nat
  BY <1>1, KidsAre
<1>5. LevelsOf(H)[root] # LevelsOf(H)[n] - 1
  <2>1. H[n].level <= H[root].level /\ root \in Allocated(H) /\ H[root].level \in Nat
    BY RootIs
  <2>2. LevelsOf(H)[root] = H[root].level
    BY <2>1 DEF LevelsOf
  <2> QED
    BY <1>2, <1>4, <2>1, <2>2
<1>6. i \in 1 .. Len(KidsOf(H)[n]) - 1
  BY <1>2, <1>3, <1>4, <1>i
<1>7. IsNext(Allocated(H), R, KidsOf(H)[n][i], KidsOf(H)[n][i + 1])
  <2>1. \A x \in {root} : LevelsOf(H)[x] # LevelsOf(H)[n] - 1
    BY <1>5
  <2> QED
    BY <1>1, <1>6, <2>1, NextSibling
<1> QED
  BY <1>3, <1>4, <1>7, <1>i

LEMMA CousinNext ==
  ASSUME NEW H \in Heaps, NEW root, root # NULL, NEW R, NEW E, Tree(H, root, {}, R), NodesHold(H, E),
         NEW n \in Allocated(H) \ E, H[n].level > 0, NEW q \in Allocated(H) \ E,
         IsNext(Allocated(H), R, n, q)
  PROVE  IsNext(Allocated(H), R, childid(H, n, slotuse(H, n)), childid(H, q, 0))
<1>1. Forest(Allocated(H), LevelsOf(H), KidsOf(H), {root}, R)
  <2>1. ({root} \ {NULL}) \cup {} = {root}
    OBVIOUS
  <2> QED
    BY <2>1, TreeIs
<1>2. slotuse(H, n) \in Nat /\ H[n].level \in Nat /\ slotuse(H, q) \in Nat
  BY NodeIs
<1>3. KidsOf(H)[n] = Kids(H, n) /\ LevelsOf(H)[n] = H[n].level /\ KidsOf(H)[q] = Kids(H, q)
      /\ LevelsOf(H)[q] = H[q].level
  BY <1>1, KidsAre
<1>4. H[q].level = H[n].level
  <2>1. q \in R[n]
    BY DEF IsNext
  <2>2. LevelsOf(H)[q] = LevelsOf(H)[n]
    BY <1>1, <2>1 DEF Forest, LevelOrder
  <2> QED
    BY <1>3, <2>2
<1>5. childid(H, n, slotuse(H, n)) = Kids(H, n)[Len(Kids(H, n))] /\ Kids(H, n) # <<>>
  <2>1. slotuse(H, n) \in 0 .. slotuse(H, n)
    BY <1>2
  <2>2. Len(Kids(H, n)) = slotuse(H, n) + 1
    BY NodeIs DEF NodesHold, isleafnode
  <2>3. childid(H, n, slotuse(H, n)) = Kids(H, n)[slotuse(H, n) + 1]
    BY <2>1, ChildOf
  <2> QED
    BY <1>2, <2>2, <2>3
<1>6. childid(H, q, 0) = Kids(H, q)[1] /\ Kids(H, q) # <<>>
  <2>1. 0 \in 0 .. slotuse(H, q) /\ 0 + 1 = 1
    BY <1>2
  <2>2. childid(H, q, 0) = Kids(H, q)[0 + 1] /\ 0 + 1 \in 1 .. Len(Kids(H, q))
    BY <1>4, <2>1, ChildOf
  <2> QED
    BY <2>1, <2>2
<1>7. LevelsOf(H)[root] # LevelsOf(H)[n] - 1
  <2>1. H[n].level <= H[root].level /\ root \in Allocated(H) /\ H[root].level \in Nat
    BY RootIs
  <2>2. LevelsOf(H)[root] = H[root].level
    BY <2>1 DEF LevelsOf
  <2> QED
    BY <1>2, <1>3, <2>1, <2>2
<1>8. IsNext(Allocated(H), R, KidsOf(H)[n][Len(KidsOf(H)[n])], KidsOf(H)[q][1])
  <2>1. \A x \in {root} : LevelsOf(H)[x] # LevelsOf(H)[n] - 1
    BY <1>7
  <2>2. KidsOf(H)[n] # <<>> /\ KidsOf(H)[q] # <<>>
    BY <1>3, <1>5, <1>6
  <2> QED
    BY <1>1, <2>1, <2>2, NextCousin
<1> QED
  BY <1>3, <1>5, <1>6, <1>8

\* The frame for child slot of the node of frame f.
ChildFrame(H, f, slot) ==
  [curr |-> childid(H, f.curr, slot), slot |-> 0,
   left  |-> LeftNeighbour(H, f, slot),
   right |-> RightNeighbour(H, f, slot),
   leftparent  |-> IF slot = 0 THEN f.leftparent ELSE f.curr,
   rightparent |-> IF slot = slotuse(H, f.curr) THEN f.rightparent ELSE f.curr,
   parent |-> f.curr, parentslot |-> slot]

\* What is known of it.
IsChildFrame(H, R, f, slot, g) ==
  /\ g \in EraseFrame /\ g.curr = childid(H, f.curr, slot)
  /\ Neighbours(H, R, g) /\ BelowFrame(H, [f EXCEPT !.slot = slot], g)

LEMMA ChildFrameIs ==
  ASSUME NEW H \in Heaps, NEW root, root # NULL, NEW R, Tree(H, root, {}, R), NodesHold(H, {}),
         Filled(H, {}, root, 1), NEW f \in EraseFrame, f.curr \in Allocated(H), H[f.curr].level > 0,
         Neighbours(H, R, f), NEW slot \in 0 .. slotuse(H, f.curr),
         NEW g, g = ChildFrame(H, f, slot)
  PROVE  IsChildFrame(H, R, f, slot, g)
<1>p. PICK p : p = f.curr
  OBVIOUS
<1>u. PICK u : u = slotuse(H, p)
  OBVIOUS
<1>1. p \in Allocated(H) \ {} /\ p # NULL /\ u \in Nat /\ H[p].level \in Nat /\ H[p].level > 0
      /\ slot \in 0 .. u /\ slot \in Nat /\ p \in NodeId
  BY <1>p, <1>u, NodeIs
<1>2. \A s \in 0 .. u : childid(H, p, s) \in Allocated(H) /\ H[childid(H, p, s)].level = H[p].level - 1
  BY <1>1, <1>u, ChildOf
<1>3. Allocated(H) \subseteq NodeId /\ NULL \notin Allocated(H)
  BY NodeAssumption DEF Allocated
<1>4. /\ g.curr = childid(H, p, slot) /\ g.slot = 0
      /\ g.left = LeftNeighbour(H, f, slot) /\ g.right = RightNeighbour(H, f, slot)
      /\ g.leftparent = (IF slot = 0 THEN f.leftparent ELSE p)
      /\ g.rightparent = (IF slot = u THEN f.rightparent ELSE p)
      /\ g.parent = p /\ g.parentslot = slot
  BY <1>p, <1>u DEF ChildFrame
<1>5. g.curr \in Allocated(H) /\ H[g.curr].level = H[p].level - 1
  BY <1>1, <1>2, <1>4
<1>6. g.left # NULL => g.left \in Allocated(H) /\ H[g.left].level = H[p].level - 1
  <2>1. CASE slot > 0
    <3>1. g.left = childid(H, p, slot - 1) /\ slot - 1 \in 0 .. u
      BY <1>1, <1>4, <1>p, <2>1 DEF LeftNeighbour
    <3> QED
      BY <1>2, <3>1
  <2>2. CASE ~(slot > 0)
    <3>1. f.left = NULL => g.left = NULL
      BY <1>4, <2>2 DEF LeftNeighbour
    <3>2. CASE f.left # NULL
      <4>1. f.left \in Allocated(H) /\ H[f.left].level = H[p].level
        BY <1>p, <3>2 DEF Neighbours
      <4>2. g.left = childid(H, f.left, slotuse(H, f.left) - 1)
        BY <1>4, <2>2, <3>2 DEF LeftNeighbour
      <4>3. slotuse(H, f.left) \in Nat /\ slotuse(H, f.left) >= 1
        <5>1. ~isleafnode(H, f.left) /\ slotuse(H, f.left) \in Nat
          BY <1>1, <4>1, NodeIs
        <5>2. slotuse(H, f.left) >= IF f.left # root THEN mininnerslots
                                    ELSE IF isleafnode(H, f.left) THEN 1 ELSE 1
          BY <4>1 DEF Filled
        <5> QED
          BY <5>1, <5>2, Sizes
      <4>4. slotuse(H, f.left) - 1 \in 0 .. slotuse(H, f.left)
        BY <4>3
      <4> QED
        BY <1>1, <4>1, <4>2, <4>4, ChildOf
    <3> QED
      BY <3>1, <3>2
  <2> QED
    BY <2>1, <2>2
<1>7. g.right # NULL => g.right \in Allocated(H) /\ IsNext(Allocated(H), R, g.curr, g.right)
  <2>1. CASE slot < u
    <3>1. g.right = childid(H, p, slot + 1) /\ slot + 1 \in 0 .. u
      BY <1>1, <1>4, <1>p, <1>u, <2>1 DEF RightNeighbour
    <3>2. IsNext(Allocated(H), R, childid(H, p, slot), childid(H, p, slot + 1))
      BY <1>1, <1>u, <2>1, SiblingNext
    <3> QED
      BY <1>2, <1>4, <3>1, <3>2
  <2>2. CASE ~(slot < u)
    <3>1. f.right = NULL => g.right = NULL
      BY <1>4, <1>p, <1>u, <2>2 DEF RightNeighbour
    <3>2. CASE f.right # NULL
      <4>1. f.right \in Allocated(H) /\ IsNext(Allocated(H), R, p, f.right)
        BY <1>p, <3>2 DEF Neighbours
      <4>2. g.right = childid(H, f.right, 0)
        BY <1>4, <1>p, <1>u, <2>2, <3>2 DEF RightNeighbour
      <4>3. slot = slotuse(H, p)
        BY <1>1, <1>u, <2>2
      <4>4. IsNext(Allocated(H), R, childid(H, p, slotuse(H, p)), childid(H, f.right, 0))
        BY <1>1, <4>1, CousinNext
      <4>5. childid(H, f.right, 0) \in Allocated(H)
        <5>1. Forest(Allocated(H), LevelsOf(H), KidsOf(H), ({root} \ {NULL}) \cup {}, R)
          BY TreeIs
        <5>2. childid(H, p, slotuse(H, p)) \in Allocated(H)
          BY <1>2, <1>1, <4>3
        <5> QED
          BY <4>4, <5>1, <5>2, ForestTypes DEF IsNext
      <4> QED
        BY <1>4, <4>2, <4>3, <4>4, <4>5
    <3> QED
      BY <3>1, <3>2
  <2> QED
    BY <2>1, <2>2
<1>8. g.left = NULL <=> g.leftparent = NULL
  <2>1. CASE slot > 0
    <3>1. g.left = childid(H, p, slot - 1) /\ slot - 1 \in 0 .. u
      BY <1>1, <1>4, <1>p, <2>1 DEF LeftNeighbour
    <3> QED
      BY <1>1, <1>2, <1>3, <1>4, <2>1, <3>1
  <2>2. CASE ~(slot > 0)
    <3>1. slot = 0
      BY <1>1, <2>2
    <3>2. f.left = NULL <=> f.leftparent = NULL
      BY DEF Neighbours
    <3>3. f.left # NULL => g.left # NULL
      <4> SUFFICES ASSUME f.left # NULL PROVE g.left # NULL
        OBVIOUS
      <4>1. f.left \in Allocated(H) /\ H[f.left].level = H[p].level
        BY <1>p DEF Neighbours
      <4>2. g.left = childid(H, f.left, slotuse(H, f.left) - 1)
        BY <1>4, <2>2 DEF LeftNeighbour
      <4>3. slotuse(H, f.left) \in Nat /\ slotuse(H, f.left) >= 1
        <5>1. ~isleafnode(H, f.left) /\ slotuse(H, f.left) \in Nat
          BY <1>1, <4>1, NodeIs
        <5>2. slotuse(H, f.left) >= IF f.left # root THEN mininnerslots
                                    ELSE IF isleafnode(H, f.left) THEN 1 ELSE 1
          BY <4>1 DEF Filled
        <5> QED
          BY <5>1, <5>2, Sizes
      <4>4. slotuse(H, f.left) - 1 \in 0 .. slotuse(H, f.left)
        BY <4>3
      <4>5. childid(H, f.left, slotuse(H, f.left) - 1) \in Allocated(H)
        BY <1>1, <4>1, <4>4, ChildOf
      <4> QED
        BY <1>3, <4>2, <4>5
    <3>4. f.left = NULL => g.left = NULL
      BY <1>4, <2>2 DEF LeftNeighbour
    <3> QED
      BY <1>4, <3>1, <3>2, <3>3, <3>4
  <2> QED
    BY <2>1, <2>2
<1>9. g.right = NULL <=> g.rightparent = NULL
  <2>1. CASE slot < u
    <3>1. g.right = childid(H, p, slot + 1) /\ slot + 1 \in 0 .. u
      BY <1>1, <1>4, <1>p, <1>u, <2>1 DEF RightNeighbour
    <3> QED
      BY <1>1, <1>2, <1>3, <1>4, <2>1, <3>1
  <2>2. CASE ~(slot < u)
    <3>1. slot = u
      BY <1>1, <2>2
    <3>2. f.right = NULL <=> f.rightparent = NULL
      BY DEF Neighbours
    <3>3. f.right # NULL => g.right # NULL
      <4> SUFFICES ASSUME f.right # NULL PROVE g.right # NULL
        OBVIOUS
      <4>1. f.right \in Allocated(H) /\ IsNext(Allocated(H), R, p, f.right)
        BY <1>p DEF Neighbours
      <4>2. g.right = childid(H, f.right, 0)
        BY <1>4, <1>p, <1>u, <2>2 DEF RightNeighbour
      <4>3. H[f.right].level = H[p].level
        <5>1. Forest(Allocated(H), LevelsOf(H), KidsOf(H), ({root} \ {NULL}) \cup {}, R)
          BY TreeIs
        <5>2. LevelsOf(H)[f.right] = LevelsOf(H)[p]
          BY <1>1, <4>1, <5>1 DEF IsNext, Forest, LevelOrder
        <5> QED
          BY <1>1, <4>1, <5>2 DEF LevelsOf
      <4>4. 0 \in 0 .. slotuse(H, f.right)
        BY <4>1, NodeIs
      <4>5. childid(H, f.right, 0) \in Allocated(H)
        BY <1>1, <4>1, <4>3, <4>4, ChildOf
      <4> QED
        BY <1>3, <4>2, <4>5
    <3>4. f.right = NULL => g.right = NULL
      BY <1>4, <1>p, <1>u, <2>2 DEF RightNeighbour
    <3> QED
      BY <1>4, <3>1, <3>2, <3>3, <3>4
  <2> QED
    BY <2>1, <2>2
<1>10. \A q \in {g.leftparent, g.rightparent} :
         q # NULL => q \in Allocated(H) /\ H[q].level > H[g.curr].level
  <2>1. \A q \in {f.leftparent, f.rightparent} :
          q # NULL => q \in Allocated(H) /\ H[q].level > H[p].level
    BY <1>p DEF Neighbours
  <2>2. \A q \in Allocated(H) : H[q].level \in Nat
    BY NodeIs
  <2>3. g.leftparent \in {f.leftparent, p} /\ g.rightparent \in {f.rightparent, p}
    BY <1>4
  <2>4. H[p].level > H[g.curr].level /\ H[g.curr].level \in Nat
    BY <1>1, <1>5, <2>2
  <2> QED
    BY <1>1, <2>1, <2>2, <2>3, <2>4
<1>11. Neighbours(H, R, g)
  <2>1. g.left # NULL => g.left \in Allocated(H) /\ H[g.left].level = H[g.curr].level
    BY <1>5, <1>6
  <2> QED
    BY <1>7, <1>8, <1>9, <1>10, <2>1 DEF Neighbours
<1>12. g \in EraseFrame
  <2>1. g.left \in NodeId \cup {NULL} /\ g.right \in NodeId \cup {NULL} /\ g.curr \in NodeId
    BY <1>3, <1>5, <1>6, <1>7
  <2>2. g.leftparent \in NodeId \cup {NULL} /\ g.rightparent \in NodeId \cup {NULL}
    BY <1>3, <1>10
  <2>3. g = [curr |-> g.curr, slot |-> 0, left |-> g.left, right |-> g.right,
             leftparent |-> g.leftparent, rightparent |-> g.rightparent,
             parent |-> p, parentslot |-> slot]
    BY <1>p DEF ChildFrame
  <2> QED
    BY <1>1, <2>1, <2>2, <2>3 DEF EraseFrame
<1>13. BelowFrame(H, [f EXCEPT !.slot = slot], g)
  <2>f. PICK e : e = [f EXCEPT !.slot = slot]
    OBVIOUS
  <2>1. e.curr = p /\ e.slot = slot /\ e.leftparent = f.leftparent /\ e.rightparent = f.rightparent
    BY <1>p, <2>f DEF EraseFrame
  <2>2. slot > 0 => g.left = childid(H, p, slot - 1) /\ g.leftparent = p
    BY <1>1, <1>4, <1>p DEF LeftNeighbour
  <2>3. slot < u => g.right = childid(H, p, slot + 1) /\ g.rightparent = p
    BY <1>1, <1>4, <1>p, <1>u DEF RightNeighbour
  <2>4. ~(slot > 0) => g.leftparent = f.leftparent
    BY <1>1, <1>4
  <2>5. ~(slot < u) => g.rightparent = f.rightparent
    BY <1>1, <1>4
  <2>6. BelowFrame(H, e, g)
    BY <1>4, <1>u, <2>1, <2>2, <2>3, <2>4, <2>5 DEF BelowFrame
  <2> QED
    BY <2>6, <2>f
<1> QED
  BY <1>4, <1>p, <1>11, <1>12, <1>13 DEF IsChildFrame

LEMMA SurroundedPush ==
  ASSUME NEW H, NEW R, NEW st \in Seq(EraseFrame), st # <<>>, Surrounded(H, R, st),
         NEW slot \in Nat, NEW f, f = [Last(st) EXCEPT !.slot = slot],
         NEW g \in EraseFrame, Neighbours(H, R, g), BelowFrame(H, f, g),
         NEW u, u = Append(Front(st), f) \o <<g>>
  PROVE  Surrounded(H, R, u)
<1>L. PICK L : L = Len(st)
  OBVIOUS
<1>1. L \in Nat \ {0} /\ Last(st) = st[L] /\ Last(st) \in EraseFrame
  BY <1>L, FrontIs
<1>2. /\ f \in EraseFrame /\ f.curr = Last(st).curr /\ f.left = Last(st).left /\ f.right = Last(st).right
      /\ f.leftparent = Last(st).leftparent /\ f.rightparent = Last(st).rightparent
      /\ f.parent = Last(st).parent /\ f.parentslot = Last(st).parentslot
  BY <1>1 DEF EraseFrame
<1>3. /\ Len(u) = L + 1 /\ \A i \in 1 .. L - 1 : u[i] = st[i]
      /\ u[L] = f /\ u[L + 1] = g
  BY <1>2, <1>L, PushIs
<1>4. /\ \A i \in 1 .. L : Neighbours(H, R, st[i])
      /\ st[1].parent = NULL /\ st[1].left = NULL /\ st[1].right = NULL
      /\ \A i \in 1 .. L - 1 : BelowFrame(H, st[i], st[i + 1])
  BY <1>L DEF Surrounded
<1>5. ASSUME NEW i \in 1 .. L + 1 PROVE Neighbours(H, R, u[i])
  <2>1. CASE i \in 1 .. L - 1
    <3>1. i \in 1 .. L
      BY <1>1, <2>1
    <3>2. Neighbours(H, R, st[i]) /\ u[i] = st[i]
      BY <1>3, <1>4, <2>1, <3>1
    <3> QED
      BY <3>2
  <2>2. CASE i = L
    <3>1. Neighbours(H, R, st[L])
      BY <1>1, <1>4
    <3> QED
      BY <1>1, <1>2, <1>3, <2>2, <3>1, SMTT(30) DEF Neighbours
  <2>3. CASE i = L + 1
    BY <1>3, <2>3
  <2>4. i \in 1 .. L - 1 \/ i = L \/ i = L + 1
    BY <1>1
  <2> QED
    BY <2>1, <2>2, <2>3, <2>4
<1>6. u[1].parent = NULL /\ u[1].left = NULL /\ u[1].right = NULL
  <2>1. CASE L = 1
    <3>1. u[1] = f /\ Last(st) = st[1]
      BY <1>1, <1>3, <2>1
    <3>2. st[1].parent = NULL /\ st[1].left = NULL /\ st[1].right = NULL
      BY <1>4
    <3>3. f.left = Last(st).left /\ f.right = Last(st).right /\ f.parent = Last(st).parent
      BY <1>2
    <3> QED
      BY <3>1, <3>2, <3>3
  <2>2. CASE L # 1
    <3>1. 1 \in 1 .. L - 1
      BY <1>1, <2>2
    <3>2. u[1] = st[1]
      BY <1>3, <3>1
    <3>3. st[1].parent = NULL /\ st[1].left = NULL /\ st[1].right = NULL
      BY <1>4
    <3> QED
      BY <3>2, <3>3
  <2> QED
    BY <2>1, <2>2
<1>7. ASSUME NEW i \in 1 .. L PROVE BelowFrame(H, u[i], u[i + 1])
  <2>1. CASE i = L
    BY <1>3, <2>1
  <2>2. CASE i # L
    <3>1. i \in 1 .. L - 1
      BY <1>1, <2>2
    <3>2. BelowFrame(H, st[i], st[i + 1]) /\ u[i] = st[i]
      BY <1>3, <1>4, <3>1
    <3>3. CASE i + 1 = L
      <4>1. BelowFrame(H, st[i], Last(st)) /\ u[i + 1] = f
        BY <1>1, <1>3, <3>2, <3>3
      <4> QED
        BY <1>2, <3>2, <4>1, ZenonT(40) DEF BelowFrame
    <3>4. CASE i + 1 # L
      <4>1. i + 1 \in 1 .. L - 1
        BY <1>1, <3>1, <3>4
      <4> QED
        BY <1>3, <3>2, <4>1
    <3> QED
      BY <3>3, <3>4
  <2> QED
    BY <2>1, <2>2
<1>8. Len(u) - 1 = L /\ u # <<>>
  BY <1>1, <1>3
<1> QED
  BY <1>3, <1>5, <1>6, <1>7, <1>8 DEF Surrounded

\* The stack of an erase with a frame more.
IsDescent(H, root, R, st) ==
  st \in Seq(EraseFrame) /\ st # <<>> /\ Path(H, root, st) /\ Surrounded(H, R, st)

LEMMA Descend ==
  ASSUME NEW H \in Heaps, NEW root, root # NULL, NEW R, Shape(H, root, {}, {}, R), Filled(H, {}, root, 1),
         NEW st, IsDescent(H, root, R, st), H[Last(st).curr].level > 0,
         NEW slot \in 0 .. slotuse(H, Last(st).curr),
         NEW u, u = Append(Front(st), [Last(st) EXCEPT !.slot = slot]) \o <<ChildFrame(H, Last(st), slot)>>
  PROVE  IsDescent(H, root, R, u)
<1>1. /\ st \in Seq(EraseFrame) /\ st # <<>> /\ Path(H, root, st) /\ Surrounded(H, R, st)
      /\ Tree(H, root, {}, R) /\ NodesHold(H, {})
  BY DEF IsDescent, Shape
<1>t. PICK t : t = Last(st)
  OBVIOUS
<1>f. PICK f : f = [t EXCEPT !.slot = slot]
  OBVIOUS
<1>g. PICK g : g = ChildFrame(H, t, slot)
  OBVIOUS
<1>2. t \in EraseFrame /\ t.curr \in Allocated(H) /\ Neighbours(H, R, t)
  <2>1. Len(st) \in Nat \ {0} /\ t = st[Len(st)] /\ t \in EraseFrame /\ Len(st) \in 1 .. Len(st)
    BY <1>1, <1>t, FrontIs
  <2> QED
    BY <1>1, <2>1 DEF Path, Surrounded
<1>3. slotuse(H, t.curr) \in Nat
  BY <1>2, NodeIs
<1>4. slot \in Nat
  BY <1>3, <1>t
<1>5. IsChildFrame(H, R, t, slot, g)
  <2>1. H[t.curr].level > 0 /\ slot \in 0 .. slotuse(H, t.curr)
    BY <1>t
  <2> QED
    BY <1>1, <1>2, <1>g, <2>1, ChildFrameIs
<1>6. g \in EraseFrame /\ g.curr = childid(H, t.curr, slot)
      /\ Neighbours(H, R, g) /\ BelowFrame(H, f, g)
  BY <1>5, <1>f DEF IsChildFrame
<1>7. f \in EraseFrame /\ f.curr = t.curr /\ f.slot = slot
  BY <1>2, <1>4, <1>f DEF EraseFrame
<1>8. u = Append(Front(st), f) \o <<g>>
  BY <1>t, <1>f, <1>g
<1>9. u \in Seq(EraseFrame) /\ u # <<>> /\ Path(H, root, u)
  <2>1. AtChild(H, f)
    BY <1>7, <1>t DEF AtChild
  <2>2. f.curr = Last(st).curr /\ g.curr = childid(H, f.curr, f.slot)
    BY <1>6, <1>7, <1>t
  <2> QED
    BY <1>1, <1>6, <1>7, <1>8, <2>1, <2>2, PathPush
<1>10. Surrounded(H, R, u)
  <2>1. f = [Last(st) EXCEPT !.slot = slot]
    BY <1>f, <1>t
  <2> QED
    BY <1>1, <1>4, <1>6, <1>8, <2>1, SurroundedPush
<1> QED
  BY <1>9, <1>10 DEF IsDescent

\* Nothing changes and a frame goes.
LEMMA FrameGone ==
  ASSUME NEW H \in Heaps, NEW root, root # NULL, NEW R, Shape(H, root, {}, {}, R),
         NEW st, IsDescent(H, root, R, st)
  PROVE  /\ Front(st) \in Seq(EraseFrame) /\ Path(H, root, Front(st)) /\ Paused(H, Front(st))
         /\ Surrounded(H, R, Front(st))
<1>1. st \in Seq(EraseFrame) /\ st # <<>> /\ Path(H, root, st) /\ Surrounded(H, R, st)
  BY DEF IsDescent
<1>2. Kept(H, H, H[Last(st).curr].level)
  BY RekeyedSelf, KeptRekeyed
<1>3. SameOrder(H, R, H, R, H[Last(st).curr].level)
  BY DEF SameOrder
<1>4. Forest(Allocated(H), LevelsOf(H), KidsOf(H), {root}, R)
  <2>1. ({root} \ {NULL}) \cup {} = {root}
    OBVIOUS
  <2> QED
    BY <2>1, TreeIs DEF Shape
<1>5. Surrounded(H, R, Front(st))
  BY <1>1, <1>2, <1>3, <1>4, SurroundedKept
<1> QED
  BY <1>1, <1>2, <1>5, PathKept, FrontIs

LEMMA NoLeafResult ==
  NotFound \in EraseResult /\ NotFound.notFound /\ ~NotFound.fixmerge
BY DEF NotFound, EraseResult

LEMMA RootDescent ==
  ASSUME NEW H \in Heaps, NEW root, root # NULL, NEW R, Shape(H, root, {}, {}, R),
         NEW st, st = <<RootFrame(root)>>
  PROVE  IsDescent(H, root, R, st)
<1>f. PICK f : f = RootFrame(root)
  OBVIOUS
<1>1. root \in Allocated(H) /\ root \in NodeId /\ H[root].level \in Nat
  <2>1. Tree(H, root, {}, R)
    BY DEF Shape
  <2>2. root \in Allocated(H)
    BY <2>1, RootIs
  <2> QED
    BY <2>2, NodeIs
<1>2. /\ f \in EraseFrame /\ f.curr = root /\ f.left = NULL /\ f.right = NULL
      /\ f.leftparent = NULL /\ f.rightparent = NULL /\ f.parent = NULL
  BY <1>1, <1>f DEF RootFrame, EraseFrame
<1>3. st = <<f>> /\ st \in Seq(EraseFrame) /\ st # <<>> /\ Len(st) = 1 /\ st[1] = f
  BY <1>2, <1>f
<1>4. Path(H, root, st)
  BY <1>1, <1>2, <1>3, PathStart
<1>5. Neighbours(H, R, f)
  BY <1>2 DEF Neighbours
<1>6. Surrounded(H, R, st)
  <2>1. \A i \in 1 .. Len(st) : st[i] = f
    BY <1>3
  <2>2. 1 .. Len(st) - 1 = {}
    BY <1>3
  <2> QED
    BY <1>2, <1>3, <1>5, <2>1, <2>2 DEF Surrounded
<1> QED
  BY <1>3, <1>4, <1>6 DEF IsDescent

-----------------------------------------------------------------------------
(* Where the node of the last frame hangs                                  *)

HasLeft(H, t) ==
  /\ t.parentslot \in 1 .. slotuse(H, t.parent) /\ t.leftparent = t.parent
  /\ t.left = childid(H, t.parent, t.parentslot - 1)

HasRight(H, t) ==
  /\ t.parentslot \in 0 .. slotuse(H, t.parent) /\ t.parentslot < slotuse(H, t.parent)
  /\ t.rightparent = t.parent /\ t.right = childid(H, t.parent, t.parentslot + 1)

Placed(H, t) ==
  /\ t.left = NULL <=> t.leftparent = NULL
  /\ t.right = NULL <=> t.rightparent = NULL
  /\ t.parent = NULL => t.left = NULL /\ t.right = NULL
  /\ t.parent # NULL =>
       /\ t.parent \in Allocated(H) /\ H[t.parent].level = H[t.curr].level + 1
       /\ t.parentslot \in 0 .. slotuse(H, t.parent) /\ childid(H, t.parent, t.parentslot) = t.curr
       /\ HasLeft(H, t) \/ (t.parentslot = 0 /\ t.leftparent # t.parent)
       /\ HasRight(H, t) \/ (t.parentslot = slotuse(H, t.parent) /\ t.rightparent # t.parent)

\* The last frame of the stack, and the one above it.
Above(st) == Last(Front(st))

IsPlaced(H, root, st) ==
  /\ Placed(H, Last(st)) /\ Last(st).curr \in Allocated(H) /\ Last(st) \in EraseFrame
  /\ Front(st) \in Seq(EraseFrame)
  /\ Last(st).parent = NULL => Front(st) = <<>> /\ Last(st).curr = root
  /\ Last(st).parent # NULL =>
       /\ Front(st) # <<>> /\ Last(st).curr # root
       /\ Above(st).curr = Last(st).parent /\ Above(st).slot = Last(st).parentslot

LEMMA PlacedIs ==
  ASSUME NEW H \in Heaps, NEW root, NEW R, NEW st, IsDescent(H, root, R, st)
  PROVE  IsPlaced(H, root, st)
<1>L. PICK L : L = Len(st)
  OBVIOUS
<1>t. PICK t : t = Last(st)
  OBVIOUS
<1>u. PICK u : u = Front(st)
  OBVIOUS
<1>1. st \in Seq(EraseFrame) /\ st # <<>> /\ Path(H, root, st) /\ Surrounded(H, R, st)
  BY DEF IsDescent
<1>2. /\ L \in Nat \ {0} /\ t = st[L] /\ t \in EraseFrame /\ L \in 1 .. L
      /\ u \in Seq(EraseFrame) /\ Len(u) = L - 1 /\ (u = <<>> <=> L = 1)
      /\ \A i \in 1 .. L - 1 : u[i] = st[i]
      /\ \A i \in 1 .. L : st[i] \in EraseFrame
  BY <1>1, <1>L, <1>t, <1>u, FrontIs
<1>3. /\ \A i \in 1 .. L : st[i].curr \in Allocated(H) /\ H[st[i].curr].level = H[root].level - i + 1
      /\ \A i \in 1 .. L - 1 : AtChild(H, st[i]) /\ childid(H, st[i].curr, st[i].slot) = st[i + 1].curr
      /\ st[1].curr = root
  BY <1>1, <1>L DEF Path
<1>4. /\ \A i \in 1 .. L : Neighbours(H, R, st[i])
      /\ st[1].parent = NULL /\ st[1].left = NULL /\ st[1].right = NULL
      /\ \A i \in 1 .. L - 1 : BelowFrame(H, st[i], st[i + 1])
  BY <1>1, <1>L DEF Surrounded
<1>5. Neighbours(H, R, t) /\ t.curr \in Allocated(H)
  BY <1>2, <1>3, <1>4
<1>6. /\ t.left = NULL <=> t.leftparent = NULL
      /\ t.right = NULL <=> t.rightparent = NULL
  BY <1>5 DEF Neighbours
<1>7. CASE L = 1
  <2>1. t.parent = NULL /\ t.left = NULL /\ t.right = NULL /\ t.curr = root
    <3>1. t = st[1]
      BY <1>2, <1>7
    <3>2. st[1].parent = NULL /\ st[1].left = NULL /\ st[1].right = NULL /\ st[1].curr = root
      BY <1>3, <1>4
    <3> QED
      BY <3>1, <3>2
  <2>2. Placed(H, t)
    BY <1>6, <2>1 DEF Placed
  <2>3. u = <<>>
    BY <1>2, <1>7
  <2> QED
    BY <1>2, <1>5, <1>t, <1>u, <2>1, <2>2, <2>3 DEF IsPlaced
<1>8. CASE L # 1
  <2>k. PICK k : k = L - 1
    OBVIOUS
  <2>p. PICK p : p = st[k]
    OBVIOUS
  <2>1. k \in 1 .. L - 1 /\ k + 1 = L /\ k \in 1 .. L /\ 1 \in 1 .. L
    BY <1>2, <1>8, <2>k
  <2>2. /\ p.curr \in Allocated(H) /\ AtChild(H, p) /\ childid(H, p.curr, p.slot) = t.curr
        /\ BelowFrame(H, p, t) /\ Neighbours(H, R, p) /\ u # <<>> /\ Last(u) = p
    <3>1. p.curr \in Allocated(H) /\ AtChild(H, p) /\ childid(H, p.curr, p.slot) = st[k + 1].curr
          /\ BelowFrame(H, p, st[k + 1]) /\ Neighbours(H, R, p)
      BY <1>3, <1>4, <2>1, <2>p
    <3>2. u # <<>> /\ Last(u) = u[Len(u)]
      BY <1>2, <1>8, FrontIs
    <3>3. Last(u) = p
      BY <1>2, <2>1, <2>k, <2>p, <3>2
    <3> QED
      BY <1>2, <2>1, <3>1, <3>2, <3>3
  <2>3. H[p.curr].level = H[t.curr].level + 1 /\ t.curr # root
    <3>0. 1 \in 1 .. L
      BY <2>1
    <3>1. st[1].curr = root /\ root \in Allocated(H) /\ H[root].level \in Nat
      BY <1>3, <3>0, NodeIs
    <3>2. H[p.curr].level = H[root].level - k + 1 /\ H[t.curr].level = H[root].level - L + 1
      BY <1>2, <1>3, <2>1, <2>p
    <3>3. \A y \in Nat : y - k + 1 = (y - L + 1) + 1 /\ y # y - L + 1
      BY <1>2, <1>8, <2>k
    <3> QED
      BY <3>1, <3>2, <3>3
  <2>4. p.slot \in 0 .. slotuse(H, p.curr) /\ slotuse(H, p.curr) \in Nat
    BY <2>2, NodeIs DEF AtChild
  <2>5. t.parent = p.curr /\ t.parentslot = p.slot /\ p.curr # NULL
    BY <2>2, NodeIs DEF BelowFrame
  <2>6. p.leftparent # p.curr /\ p.rightparent # p.curr
    <3>1. \A q \in {p.leftparent, p.rightparent} : q # NULL => H[q].level > H[p.curr].level
      BY <2>2 DEF Neighbours
    <3>2. H[p.curr].level \in Nat
      BY <2>2, NodeIs
    <3> QED
      BY <2>5, <3>1, <3>2
  <2>7. HasLeft(H, t) \/ (t.parentslot = 0 /\ t.leftparent # t.parent)
    BY <2>2, <2>4, <2>5, <2>6 DEF BelowFrame, HasLeft
  <2>8. HasRight(H, t) \/ (t.parentslot = slotuse(H, t.parent) /\ t.rightparent # t.parent)
    BY <2>2, <2>4, <2>5, <2>6 DEF BelowFrame, HasRight
  <2>9. Placed(H, t)
    BY <1>6, <2>2, <2>3, <2>4, <2>5, <2>7, <2>8 DEF Placed
  <2> QED
    BY <1>2, <1>5, <1>t, <1>u, <2>2, <2>3, <2>5, <2>9 DEF IsPlaced, Above
<1> QED
  BY <1>7, <1>8

\* A change below leaves the node of the frame where it was.
LEMMA PlacedKept ==
  ASSUME NEW H \in Heaps, NEW G, NEW t, Placed(H, t), t.curr \in Allocated(H),
         Kept(H, G, H[t.curr].level)
  PROVE  Placed(G, t)
<1>1. CASE t.parent = NULL
  BY <1>1 DEF Placed
<1>2. CASE t.parent # NULL
  <2>1. /\ t.parent \in Allocated(H) /\ H[t.parent].level = H[t.curr].level + 1
        /\ t.parentslot \in 0 .. slotuse(H, t.parent) /\ childid(H, t.parent, t.parentslot) = t.curr
        /\ HasLeft(H, t) \/ (t.parentslot = 0 /\ t.leftparent # t.parent)
        /\ HasRight(H, t) \/ (t.parentslot = slotuse(H, t.parent) /\ t.rightparent # t.parent)
    BY <1>2 DEF Placed
  <2>2. H[t.curr].level \in Nat /\ H[t.parent].level > H[t.curr].level
    BY <2>1, NodeIs
  <2>3. /\ t.parent \in Allocated(G) /\ G[t.parent].level = H[t.parent].level
        /\ slotuse(G, t.parent) = slotuse(H, t.parent)
        /\ \A s : childid(G, t.parent, s) = childid(H, t.parent, s)
    BY <2>1, <2>2, KeptChild
  <2>4. G[t.curr].level = H[t.curr].level
    BY <2>2 DEF Kept
  <2>5. (HasLeft(H, t) <=> HasLeft(G, t)) /\ (HasRight(H, t) <=> HasRight(G, t))
    BY <2>3 DEF HasLeft, HasRight
  <2> QED
    BY <1>2, <2>1, <2>3, <2>4, <2>5 DEF Placed
<1> QED
  BY <1>1, <1>2

\* Remedy picks a neighbour under the same parent, and one that can take or
\* give what is needed.
GoodRemedy(H, t) ==
  /\ Remedy(H, t) = "merge_left" => HasLeft(H, t) /\ isfew(H, t.left)
  /\ Remedy(H, t) = "merge_right" => HasRight(H, t) /\ isfew(H, t.right)
  /\ Remedy(H, t) = "shift_left" => HasRight(H, t) /\ ~isfew(H, t.right)
  /\ Remedy(H, t) = "shift_right" => HasLeft(H, t) /\ ~isfew(H, t.left)

LEMMA RemedyIs ==
  ASSUME NEW H, NEW t, Placed(H, t), t.parent # NULL, slotuse(H, t.parent) \in Nat,
         slotuse(H, t.parent) >= 1, t.left # NULL \/ t.right # NULL
  PROVE  GoodRemedy(H, t)
<1>1. /\ t.left = NULL <=> t.leftparent = NULL
      /\ t.right = NULL <=> t.rightparent = NULL
      /\ HasLeft(H, t) \/ (t.parentslot = 0 /\ t.leftparent # t.parent)
      /\ HasRight(H, t) \/ (t.parentslot = slotuse(H, t.parent) /\ t.rightparent # t.parent)
  BY DEF Placed
<1>2. HasLeft(H, t) \/ HasRight(H, t)
  BY <1>1
<1>3. (HasLeft(H, t) <=> t.leftparent = t.parent) /\ (HasRight(H, t) <=> t.rightparent = t.parent)
  BY <1>1 DEF HasLeft, HasRight
<1> DEFINE poorleft == t.left = NULL \/ isfew(H, t.left)
           poorright == t.right = NULL \/ isfew(H, t.right)
           both == t.left # NULL /\ t.right # NULL
<1>4. CASE poorleft /\ poorright
  <2>1. Remedy(H, t) = IF t.leftparent = t.parent THEN "merge_left" ELSE "merge_right"
    BY <1>4, Zenon DEF Remedy
  <2> QED
    BY <1>1, <1>2, <1>3, <1>4, <2>1 DEF GoodRemedy
<1>5. CASE both /\ poorleft /\ ~poorright
  <2>1. Remedy(H, t) = IF t.rightparent = t.parent THEN "shift_left" ELSE "merge_left"
    BY <1>5 DEF Remedy
  <2> QED
    BY <1>1, <1>2, <1>3, <1>5, <2>1 DEF GoodRemedy
<1>6. CASE both /\ ~poorleft /\ poorright
  <2>1. Remedy(H, t) = IF t.leftparent = t.parent THEN "shift_right" ELSE "merge_right"
    BY <1>6 DEF Remedy
  <2> QED
    BY <1>1, <1>2, <1>3, <1>6, <2>1 DEF GoodRemedy
<1>7. CASE /\ ~(poorleft /\ poorright) /\ ~(both /\ poorleft /\ ~poorright)
           /\ ~(both /\ ~poorleft /\ poorright)
  <2>1. Remedy(H, t) = IF t.leftparent = t.rightparent
                         THEN IF slotuse(H, t.left) <= slotuse(H, t.right)
                                THEN "shift_left" ELSE "shift_right"
                         ELSE IF t.leftparent = t.parent THEN "shift_right" ELSE "shift_left"
    BY <1>7 DEF Remedy
  <2>2. CASE both
    <3>1. ~isfew(H, t.left) /\ ~isfew(H, t.right)
      BY <1>7, <2>2
    <3> QED
      BY <1>1, <1>2, <1>3, <2>1, <3>1 DEF GoodRemedy
  <2>3. CASE ~both
    <3>1. (t.left = NULL /\ t.right # NULL /\ ~isfew(H, t.right))
          \/ (t.right = NULL /\ t.left # NULL /\ ~isfew(H, t.left))
      BY <1>7, <2>3
    <3> QED
      BY <1>1, <1>2, <1>3, <2>1, <3>1 DEF GoodRemedy
  <2> QED
    BY <2>2, <2>3
<1> QED
  BY <1>4, <1>5, <1>6, <1>7

-----------------------------------------------------------------------------
(* A pair leaves a leaf                                                    *)

\* H is J with one pair less in the leaf a.
Thinned(J, H, root, R, a) ==
  /\ H \in Heaps /\ Shape(H, root, {}, {}, R) /\ Filled(H, {a}, root, 1)
  /\ SameNodes(J, H) /\ SameLinks(J, H) /\ Kept(J, H, 0) /\ a \in Leaves(H)
  /\ Leaves(H) = Leaves(J) /\ InnerNodes(H) = InnerNodes(J)
  /\ slotuse(H, a) = slotuse(J, a) - 1
  /\ \A n \in NodeId \ {a} : slotuse(H, n) = slotuse(J, n)
  /\ Cardinality(Pairs(H)) - Cardinality(Pairs(J)) = -1

LEMMA PairTaken ==
  ASSUME NEW J \in Heaps, NEW root, root # NULL, NEW R, Shape(J, root, {}, {}, R),
         Filled(J, {}, root, 1), NEW a \in Leaves(J), NEW slot \in 0 .. slotuse(J, a) - 1,
         NEW G, Refilled(J, G, a, RemoveAt(J[a].slots, slot + 1))
  PROVE  Thinned(J, G, root, R, a)
<1>a. PICK s : s = RemoveAt(J[a].slots, slot + 1)
  OBVIOUS
<1>1. Tree(J, root, {}, R) /\ NodesHold(J, {}) /\ Linked(J, {}, R)
  BY DEF Shape
<1>2. /\ a \in NodeId /\ a \in Allocated(J) /\ isleafnode(J, a) /\ J[a].slots \in Seq(Pair)
      /\ slotuse(J, a) = Len(J[a].slots) /\ slotuse(J, a) \in Nat
  BY LeafNode
<1>3. s \in Seq(Pair) /\ Len(s) = slotuse(J, a) - 1
  <2>1. slot + 1 \in 1 .. Len(J[a].slots)
    BY <1>2
  <2>2. s \in Seq(Pair) /\ Inserted(s, J[a].slots, slot + 1, J[a].slots[slot + 1])
    BY <1>a, <1>2, <2>1, RemoveAtIs
  <2>3. Len(s) \in Nat /\ Len(J[a].slots) = Len(s) + 1
    BY <2>2 DEF Inserted
  <2> QED
    BY <1>2, <2>2, <2>3
<1>4. Refilled(J, G, a, s)
  BY <1>a
<1>5. /\ G \in Heaps /\ SameNodes(J, G) /\ SameLinks(J, G) /\ Kept(J, G, 0)
      /\ slotuse(G, a) = Len(s)
      /\ \A n \in NodeId \ {a} : slotuse(G, n) = slotuse(J, n)
      /\ Leaves(G) = Leaves(J) /\ InnerNodes(G) = InnerNodes(J)
  BY <1>3, <1>4, RefillOne
<1>6. root \in Allocated(J)
  BY <1>1, RootIs
<1>7. Tree(G, root, {}, R) /\ Linked(G, {}, R)
  BY <1>1, <1>5, <1>6, SameTree, SameChain
<1>8. /\ Allocated(G) = Allocated(J)
      /\ \A n \in Allocated(J) : /\ n \in NodeId /\ slotuse(J, n) \in Nat
                                 /\ isleafnode(G, n) <=> isleafnode(J, n)
                                 /\ Kids(G, n) = Kids(J, n)
  BY <1>5, SameKinds, NodeIs DEF SameNodes
<1>9. NodesHold(G, {})
  <2> SUFFICES ASSUME NEW n \in Allocated(J)
               PROVE  IF isleafnode(G, n) THEN slotuse(G, n) <= leafslotmax
                      ELSE slotuse(G, n) <= innerslotmax /\ Len(Kids(G, n)) = slotuse(G, n) + 1
    BY <1>8 DEF NodesHold
  <2>1. CASE n = a
    <3>1. slotuse(J, a) <= leafslotmax
      BY <1>1, <1>2 DEF NodesHold
    <3> QED
      BY <1>2, <1>3, <1>5, <1>8, <2>1, <3>1, Sizes
  <2>2. CASE n # a
    BY <1>1, <1>5, <1>8, <2>2 DEF NodesHold
  <2> QED
    BY <2>1, <2>2
<1>10. Filled(G, {a}, root, 1)
  <2> SUFFICES ASSUME NEW n \in Allocated(J) \ {a}
               PROVE  slotuse(G, n) >= IF n # root THEN mininnerslots
                                       ELSE IF isleafnode(G, n) THEN 1 ELSE 1
    BY <1>8 DEF Filled
  <2>1. slotuse(J, n) >= IF n # root THEN mininnerslots ELSE IF isleafnode(J, n) THEN 1 ELSE 1
    BY DEF Filled
  <2> QED
    BY <1>5, <1>8, <2>1
<1>11. Cardinality(Pairs(G)) - Cardinality(Pairs(J)) = -1
  <2>1. a # NULL /\ Held(J, NULL) = 0 /\ Held(G, NULL) = 0 /\ NULL \notin NodeId
    BY <1>2, <1>5, NodeAssumption DEF Held, Leaves, Allocated
  <2>2. /\ Held(J, a) \in 0 .. leafslotmax /\ Held(G, a) \in 0 .. leafslotmax
        /\ Held(J, NULL) \in 0 .. leafslotmax /\ Held(G, NULL) \in 0 .. leafslotmax
    BY <1>1, <1>5, <1>9, HeldIs
  <2>3. Held(J, a) = slotuse(J, a) /\ Held(G, a) = slotuse(J, a) - 1
    BY <1>3, <1>5 DEF Held
  <2>4. \A n \in NodeId \ {a, NULL} :
          (n \in Leaves(G) <=> n \in Leaves(J)) /\ slotuse(G, n) = slotuse(J, n)
    BY <1>5
  <2>5. Cardinality(Pairs(G)) - Cardinality(Pairs(J))
          = (Held(G, a) + Held(G, NULL)) - (Held(J, a) + Held(J, NULL))
    BY <2>1, <2>2, <2>4, PairsChange
  <2> QED
    BY <1>2, <2>1, <2>3, <2>5
<1> QED
  BY <1>3, <1>5, <1>7, <1>9, <1>10, <1>11 DEF Thinned, Shape

\* A key that changes makes no difference.
LEMMA ThinnedRekeyed ==
  ASSUME NEW J \in Heaps, NEW G, NEW root, root # NULL, NEW R, NEW a, Thinned(J, G, root, R, a),
         NEW H \in Heaps, Rekeyed(G, H)
  PROVE  Thinned(J, H, root, R, a)
<1>1. /\ G \in Heaps /\ Shape(G, root, {}, {}, R) /\ Filled(G, {a}, root, 1)
      /\ SameNodes(J, G) /\ SameLinks(J, G) /\ Kept(J, G, 0) /\ a \in Leaves(G)
      /\ Leaves(G) = Leaves(J) /\ InnerNodes(G) = InnerNodes(J)
      /\ slotuse(G, a) = slotuse(J, a) - 1
      /\ \A n \in NodeId \ {a} : slotuse(G, n) = slotuse(J, n)
      /\ Cardinality(Pairs(G)) - Cardinality(Pairs(J)) = -1
  BY DEF Thinned
<1>2. /\ SameNodes(G, H) /\ SameSizes(G, H) /\ Pairs(H) = Pairs(G)
      /\ SameLinks(G, H) /\ Filled(H, {a}, root, 1)
  BY <1>1, RekeyedKeeps DEF Rekeyed
<1>3. root \in Allocated(G)
  BY <1>1, RootIs DEF Shape
<1>4. Shape(H, root, {}, {}, R)
  BY <1>1, <1>3, RekeyedShape
<1>5. SameNodes(J, H) /\ SameLinks(J, H)
  BY <1>1, <1>2 DEF SameNodes, SameLinks
<1>6. Kept(J, H, 0)
  <2>1. Kept(G, H, 0)
    BY KeptRekeyed
  <2>2. \A n \in Allocated(J) : J[n].level \in Int
    BY NodeIs
  <2> QED
    BY <1>1, <2>1, <2>2, KeptTwice
<1>7. Leaves(H) = Leaves(G) /\ InnerNodes(H) = InnerNodes(G)
  BY <1>2, SameKinds
<1>8. ASSUME NEW n \in NodeId PROVE slotuse(H, n) = slotuse(G, n)
  <2>1. CASE n \in Allocated(G)
    BY <1>2, <2>1 DEF SameSizes
  <2>2. CASE n \notin Allocated(G)
    <3>1. H[n] = NULL /\ G[n] = NULL
      BY <1>2, <2>2 DEF SameNodes, Allocated
    <3> QED
      BY <3>1 DEF slotuse, isleafnode
  <2> QED
    BY <2>1, <2>2
<1>9. a \in NodeId
  BY <1>1, LeafNode
<1>10. slotuse(H, a) = slotuse(J, a) - 1 /\ \A n \in NodeId \ {a} : slotuse(H, n) = slotuse(J, n)
  BY <1>1, <1>8, <1>9
<1>11. Cardinality(Pairs(H)) - Cardinality(Pairs(J)) = -1
  BY <1>1, <1>2
<1> QED
  BY <1>1, <1>2, <1>4, <1>5, <1>6, <1>7, <1>10, <1>11 DEF Thinned

-----------------------------------------------------------------------------
(* Two leaves are merged                                                   *)

\* What merge_leaves changes: all pairs are in a, and b is not in the chain.
LinksMerged(H, G, a, b) ==
  /\ G[a].next = H[b].next /\ \A n \in Leaves(H) \ {a} : G[n].next = H[n].next
  /\ \A n \in Leaves(H) : G[n].prev = IF n = H[b].next THEN a ELSE H[n].prev

LeavesMerged(H, G, a, b) ==
  /\ G \in Heaps /\ SameNodes(H, G) /\ LinksMerged(H, G, a, b)
  /\ Leaves(G) = Leaves(H) /\ InnerNodes(G) = InnerNodes(H)
  /\ slotuse(G, a) = slotuse(H, a) + slotuse(H, b) /\ slotuse(G, b) = 0
  /\ \A n \in NodeId \ {a, b} : slotuse(G, n) = slotuse(H, n)

LEMMA MergeLeavesIs ==
  ASSUME NEW H \in Heaps, NEW a \in Leaves(H), NEW b \in Leaves(H), a # b,
         NextOf(H, b), H[b].next # a, NEW G, G = merge_leaves(H, a, b)
  PROVE  LeavesMerged(H, G, a, b)
<1>a. PICK N : N = H[b].next
  OBVIOUS
<1>b. PICK s : s = H[a].slots \o H[b].slots
  OBVIOUS
<1> DEFINE x == [H[a] EXCEPT !.slots = s, !.next = N]
           y == [H[b] EXCEPT !.slots = <<>>]
           z == [H[N] EXCEPT !.prev = a]
           M == [H EXCEPT ![a].slots = s, ![a].next = N, ![b].slots = <<>>]
<1>1. /\ a \in NodeId /\ a \in Allocated(H) /\ H[a] \in Leaf /\ b \in NodeId /\ b \in Allocated(H)
      /\ H[b] \in Leaf /\ DOMAIN H = NodeId /\ N \in NodeId \cup {NULL}
      /\ H[a].slots \in Seq(Pair) /\ H[b].slots \in Seq(Pair)
      /\ slotuse(H, a) = Len(H[a].slots) /\ slotuse(H, b) = Len(H[b].slots)
  BY <1>a, LeafNode DEF Heaps
<1>2. N # NULL => N \in Leaves(H) /\ N # a /\ N # b /\ N \in NodeId /\ H[N] \in Leaf /\ N \in Allocated(H)
  <2>1. N # NULL => N \in Leaves(H) /\ N # b
    BY <1>a DEF NextOf
  <2> QED
    BY <1>a, <2>1, LeafNode
<1>3. s \in Seq(Pair) /\ Len(s) = slotuse(H, a) + slotuse(H, b)
  BY <1>1, <1>b, ConcatIs DEF Joins
<1>4. x \in Leaf /\ x.level = 0 /\ x.slots = s /\ x.next = N /\ x.prev = H[a].prev
  BY <1>1, <1>3 DEF Leaf
<1>5. y \in Leaf /\ y.level = 0 /\ y.slots = <<>> /\ y.next = N /\ y.prev = H[b].prev
  <2>1. <<>> \in Seq(Pair) /\ H[b].level = 0 /\ H[b].prev \in NodeId \cup {NULL}
    BY <1>1 DEF Leaf
  <2> QED
    BY <1>1, <1>a, <2>1 DEF Leaf
<1>6. N # NULL => z \in Leaf /\ z.level = 0 /\ z.slots = H[N].slots /\ z.next = H[N].next /\ z.prev = a
  BY <1>1, <1>2 DEF Leaf
<1>7. M[a] = x
  BY <1>1
<1>8. M[b] = y
  BY <1>1
<1>9. DOMAIN M = NodeId /\ M = [n \in NodeId |-> M[n]] /\ \A n \in NodeId \ {a, b} : M[n] = H[n]
  BY <1>1
<1>10. G = IF N = NULL THEN M ELSE [M EXCEPT ![N].prev = a]
  BY <1>a, <1>b, <1>1 DEF merge_leaves
<1> HIDE DEF x, y, z, M
<1>11. /\ G[a] = x /\ G[b] = y /\ G = [n \in NodeId |-> G[n]]
       /\ N # NULL => G[N] = z
       /\ \A n \in NodeId \ {a, b} : n # N \/ N = NULL => G[n] = H[n]
  <2>1. CASE N = NULL
    BY <1>1, <1>7, <1>8, <1>9, <1>10, <2>1
  <2>2. CASE N # NULL
    <3>1. G = [M EXCEPT ![N].prev = a]
      BY <1>10, <2>2
    <3>2. G[N] = [M[N] EXCEPT !.prev = a] /\ \A n \in NodeId \ {N} : G[n] = M[n]
      BY <1>2, <1>9, <2>2, <3>1
    <3>3. M[N] = H[N]
      BY <1>2, <1>9, <2>2
    <3>4. G = [n \in NodeId |-> G[n]]
      BY <1>9, <3>1
    <3>5. G[a] = x /\ G[b] = y
      BY <1>1, <1>2, <1>7, <1>8, <2>2, <3>2
    <3>6. G[N] = z
      BY <3>2, <3>3 DEF z
    <3> QED
      BY <1>9, <2>2, <3>2, <3>4, <3>5, <3>6
  <2> QED
    BY <2>1, <2>2
<1>12. x # NULL /\ y # NULL /\ (N # NULL => z # NULL)
  BY <1>4, <1>5, <1>6, NULLAssumption
<1>13. G \in Heaps
  <2>1. \A n \in NodeId : G[n] \in Leaf \cup Inner \cup {NULL}
    BY <1>1, <1>2, <1>4, <1>5, <1>6, <1>11 DEF Heaps
  <2> QED
    BY <1>11, <2>1 DEF Heaps
<1>14. Allocated(G) = Allocated(H)
  BY <1>1, <1>2, <1>11, <1>12, NodeIs DEF Allocated
<1>15. ASSUME NEW n \in Allocated(H)
       PROVE  /\ G[n].level = H[n].level /\ Kids(G, n) = Kids(H, n)
              /\ n \notin {a, b} => slotuse(G, n) = slotuse(H, n)
              /\ n # a /\ isleafnode(H, n) => G[n].next = H[n].next
              /\ isleafnode(H, n) => G[n].prev = IF n = N THEN a ELSE H[n].prev
  <2>1. n \in NodeId /\ n # NULL
    BY NodeIs
  <2>2. CASE n = a
    <3>1. H[a].level = 0 /\ n # N
      BY <1>1, <1>2, <2>1, <2>2 DEF Leaf
    <3> QED
      BY <1>4, <1>11, <2>2, <3>1 DEF Kids, isleafnode
  <2>3. CASE n = b
    <3>1. H[b].level = 0 /\ n # N
      BY <1>1, <1>2, <2>1, <2>3 DEF Leaf
    <3> QED
      BY <1>5, <1>11, <1>a, <2>3, <3>1 DEF Kids, isleafnode
  <2>4. CASE n = N
    <3>1. G[n] = z /\ H[n] \in Leaf /\ H[n].level = 0
      BY <1>2, <1>11, <2>1, <2>4, LeafNode
    <3> QED
      BY <1>6, <2>1, <2>4, <3>1 DEF Kids, slotuse, isleafnode
  <2>5. CASE n \notin {a, b, N}
    <3>1. G[n] = H[n]
      BY <1>11, <2>1, <2>5
    <3> QED
      BY <2>5, <3>1 DEF Kids, slotuse, isleafnode
  <2> QED
    BY <2>2, <2>3, <2>4, <2>5
<1>16. SameNodes(H, G)
  BY <1>14, <1>15 DEF SameNodes
<1>17. LinksMerged(H, G, a, b)
  <2>1. G[a].next = H[b].next
    BY <1>a, <1>4, <1>11
  <2>2. \A n \in Leaves(H) : n \in Allocated(H) /\ isleafnode(H, n)
    BY DEF Leaves
  <2> QED
    BY <1>a, <1>15, <2>1, <2>2 DEF LinksMerged
<1>18. Leaves(G) = Leaves(H) /\ InnerNodes(G) = InnerNodes(H)
  BY <1>16, SameKinds
<1>19. slotuse(G, a) = slotuse(H, a) + slotuse(H, b)
  BY <1>3, <1>4, <1>11 DEF slotuse, isleafnode
<1>20. slotuse(G, b) = 0
  BY <1>5, <1>11 DEF slotuse, isleafnode
<1>21. ASSUME NEW n \in NodeId \ {a, b} PROVE slotuse(G, n) = slotuse(H, n)
  <2>1. CASE n \in Allocated(H)
    BY <1>15, <2>1
  <2>2. CASE n \notin Allocated(H)
    <3>1. n # N \/ N = NULL
      BY <1>2, <2>2
    <3>2. G[n] = H[n]
      BY <1>11, <3>1
    <3> QED
      BY <3>2 DEF slotuse, isleafnode
  <2> QED
    BY <2>1, <2>2
<1> QED
  BY <1>13, <1>16, <1>17, <1>18, <1>19, <1>20, <1>21 DEF LeavesMerged

IsMerged(H, G, root, R, a, b) ==
  /\ G \in Heaps /\ Shape(G, root, {}, {b}, R) /\ Filled(G, {b}, root, 1)
  /\ SameNodes(H, G) /\ Kept(H, G, 0) /\ Leaves(G) = Leaves(H) /\ InnerNodes(G) = InnerNodes(H)
  /\ LinksMerged(H, G, a, b)
  /\ slotuse(G, a) = slotuse(H, a) + slotuse(H, b) /\ slotuse(G, b) = 0
  /\ \A n \in NodeId \ {a, b} : slotuse(G, n) = slotuse(H, n)
  /\ Cardinality(Pairs(G)) - Cardinality(Pairs(H)) = 0

LEMMA MergeLinks ==
  ASSUME NEW H \in Heaps, NEW root, NEW R, Tree(H, root, {}, R), Linked(H, {}, R),
         NEW a \in Leaves(H), NEW b \in Leaves(H), IsNext(Allocated(H), R, a, b),
         NEW G, Leaves(G) = Leaves(H), LinksMerged(H, G, a, b)
  PROVE  Linked(G, {b}, R)
<1>a. PICK L, nx, pv, ny, pw : L = Leaves(H) /\ nx = Nexts(H) /\ pv = Prevs(H) /\ ny = Nexts(G)
                               /\ pw = Prevs(G)
  OBVIOUS
<1>1. LineOrder(L, R) /\ NULL \notin L /\ Chained(L, R, nx, pv, NULL)
  <2>1. Leaves(H) \ {} = Leaves(H)
    OBVIOUS
  <2> QED
    BY <1>a, <2>1, LeafLine DEF Linked
<1>2. IsNext(L, R, a, b)
  BY <1>a DEF IsNext, Leaves
<1>3. /\ ny[a] = nx[b] /\ \A n \in L \ {a, b} : ny[n] = nx[n]
      /\ \A n \in L \ {b} : pw[n] = IF n = nx[b] THEN a ELSE pv[n]
  BY <1>a DEF LinksMerged, Nexts, Prevs
<1>4. LinkedOut(L, nx, pv, ny, pw, a, b)
  BY <1>3 DEF LinkedOut
<1>5. a \in L /\ b \in L
  BY <1>a
<1>6. Chained(L \ {b}, R, ny, pw, NULL)
  BY <1>1, <1>2, <1>4, <1>5, LinkOut
<1> QED
  BY <1>6, <1>a DEF Linked

\* The leaf after b is not the one before it.
LEMMA NextIsNew ==
  ASSUME NEW H \in Heaps, NEW root, NEW R, Tree(H, root, {}, R), Linked(H, {}, R),
         NEW a \in Leaves(H), NEW b \in Leaves(H), IsNext(Allocated(H), R, a, b)
  PROVE  a # b /\ NextOf(H, b) /\ H[b].next # a
<1>1. LineOrder(Leaves(H), R) /\ NULL \notin Leaves(H)
  <2>1. Leaves(H) \ {} = Leaves(H)
    OBVIOUS
  <2> QED
    BY <2>1, LeafLine
<1>2. b \in R[a] /\ a \notin R[b]
  BY <1>1 DEF IsNext, LineOrder
<1>3. NextOf(H, b)
  <2>1. b \in Leaves(H) \ {}
    OBVIOUS
  <2> QED
    BY <2>1, NextLeaf
<1>4. ASSUME H[b].next = a PROVE FALSE
  <2>1. Nexts(H)[b] = a /\ a # NULL
    BY <1>1, <1>4 DEF Nexts
  <2>2. Chained(Leaves(H) \ {}, R, Nexts(H), Prevs(H), NULL) /\ b \in Leaves(H) \ {}
    BY DEF Linked
  <2>3. IsNext(Leaves(H) \ {}, R, b, a)
    BY <2>1, <2>2 DEF Chained
  <2> QED
    BY <1>2, <2>3 DEF IsNext
<1>5. a # b
  BY <1>2
<1> QED
  BY <1>3, <1>4, <1>5

LEMMA MergeLeavesShape ==
  ASSUME NEW H \in Heaps, NEW root, root # NULL, NEW R, Shape(H, root, {}, {}, R),
         NEW a \in Leaves(H), NEW b \in Leaves(H), IsNext(Allocated(H), R, a, b),
         NEW E, E \subseteq {a, b}, Filled(H, E, root, 1),
         slotuse(H, a) + slotuse(H, b) <= leafslotmax,
         slotuse(H, a) + slotuse(H, b) >= mininnerslots,
         NEW G, G = merge_leaves(H, a, b)
  PROVE  IsMerged(H, G, root, R, a, b)
<1>1. Tree(H, root, {}, R) /\ NodesHold(H, {}) /\ Linked(H, {}, R)
  BY DEF Shape
<1>2. a # b /\ NextOf(H, b) /\ H[b].next # a
  BY <1>1, NextIsNew
<1>3. LeavesMerged(H, G, a, b)
  BY <1>2, MergeLeavesIs
<1>4. /\ G \in Heaps /\ SameNodes(H, G) /\ LinksMerged(H, G, a, b)
      /\ Leaves(G) = Leaves(H) /\ InnerNodes(G) = InnerNodes(H)
      /\ slotuse(G, a) = slotuse(H, a) + slotuse(H, b) /\ slotuse(G, b) = 0
      /\ \A n \in NodeId \ {a, b} : slotuse(G, n) = slotuse(H, n)
  BY <1>3 DEF LeavesMerged
<1>5. /\ a \in NodeId /\ b \in NodeId /\ a \in Allocated(H) /\ b \in Allocated(H)
      /\ slotuse(H, a) \in Nat /\ slotuse(H, b) \in Nat /\ H[a].level = 0 /\ H[b].level = 0
  BY LeafNode
<1>6. root \in Allocated(H)
  BY <1>1, RootIs
<1>7. Tree(G, root, {}, R)
  BY <1>1, <1>4, <1>6, SameTree
<1>8. Linked(G, {b}, R)
  BY <1>1, <1>4, MergeLinks
<1>9. /\ Allocated(G) = Allocated(H)
      /\ \A n \in Allocated(H) : /\ n \in NodeId /\ slotuse(H, n) \in Nat
                                 /\ isleafnode(G, n) <=> isleafnode(H, n)
                                 /\ Kids(G, n) = Kids(H, n) /\ G[n].level = H[n].level
                                 /\ isleafnode(H, n) <=> H[n].level = 0
  BY <1>4, SameKinds, NodeIs DEF SameNodes
<1>10. NodesHold(G, {b})
  <2>1. ASSUME NEW n \in Allocated(G) \ {b}
        PROVE  IF isleafnode(G, n) THEN slotuse(G, n) <= leafslotmax
               ELSE slotuse(G, n) <= innerslotmax /\ Len(Kids(G, n)) = slotuse(G, n) + 1
    <3>1. CASE n = a
      BY <1>4, <1>5, <1>9, <3>1
    <3>2. CASE n # a
      BY <1>1, <1>4, <1>9, <3>2 DEF NodesHold
    <3> QED
      BY <3>1, <3>2
  <2>2. b \in Allocated(G) /\ slotuse(G, b) = 0 /\ Kids(G, b) = <<>>
    BY <1>4, <1>5, <1>9 DEF Kids
  <2> QED
    BY <2>1, <2>2 DEF NodesHold
<1>11. Filled(G, {b}, root, 1)
  <2> SUFFICES ASSUME NEW n \in Allocated(G) \ {b}
               PROVE  slotuse(G, n) >= IF n # root THEN mininnerslots
                                       ELSE IF isleafnode(G, n) THEN 1 ELSE 1
    BY DEF Filled
  <2>1. CASE n = a
    <3>1. slotuse(G, n) >= mininnerslots /\ slotuse(G, n) \in Nat
      BY <1>4, <1>5, <2>1
    <3> QED
      BY <3>1, Sizes
  <2>2. CASE n # a
    <3>1. n \in Allocated(H) \ E /\ n \in NodeId \ {a, b}
      BY <1>9, <2>2
    <3>2. slotuse(H, n) >= IF n # root THEN mininnerslots ELSE IF isleafnode(H, n) THEN 1 ELSE 1
      BY <3>1 DEF Filled
    <3> QED
      BY <1>4, <3>1, <3>2
  <2> QED
    BY <2>1, <2>2
<1>12. Kept(H, G, 0)
  BY <1>4, <1>5, <1>9 DEF Kept
<1>13. Cardinality(Pairs(G)) - Cardinality(Pairs(H)) = 0
  <2>1. Held(H, a) \in 0 .. leafslotmax /\ Held(H, b) \in 0 .. leafslotmax
    BY <1>1, HeldIs
  <2>2. /\ Held(H, a) = slotuse(H, a) /\ Held(H, b) = slotuse(H, b)
        /\ Held(G, a) = slotuse(H, a) + slotuse(H, b) /\ Held(G, b) = 0
    BY <1>4 DEF Held
  <2>3. Held(G, a) \in 0 .. leafslotmax /\ Held(G, b) \in 0 .. leafslotmax
    BY <1>5, <2>2, Sizes
  <2>4. \A n \in NodeId \ {a, b} : (n \in Leaves(G) <=> n \in Leaves(H)) /\ slotuse(G, n) = slotuse(H, n)
    BY <1>4
  <2>5. Cardinality(Pairs(G)) - Cardinality(Pairs(H)) = (Held(G, a) + Held(G, b)) - (Held(H, a) + Held(H, b))
    BY <1>2, <2>1, <2>3, <2>4, PairsChange
  <2> QED
    BY <1>5, <2>2, <2>5
<1> QED
  BY <1>4, <1>7, <1>8, <1>10, <1>11, <1>12, <1>13 DEF IsMerged, Shape

-----------------------------------------------------------------------------
(* Pairs are shifted between two leaves                                    *)

IsShifted(H, G, root, R) ==
  /\ G \in Heaps /\ Shape(G, root, {}, {}, R) /\ Filled(G, {}, root, 1)
  /\ SameNodes(H, G) /\ SameLinks(H, G) /\ Kept(H, G, 0)
  /\ Leaves(G) = Leaves(H) /\ InnerNodes(G) = InnerNodes(H)
  /\ Cardinality(Pairs(G)) - Cardinality(Pairs(H)) = 0

LEMMA ShiftPairs ==
  ASSUME NEW H \in Heaps, NEW root, root # NULL, NEW R, Shape(H, root, {}, {}, R),
         NEW a \in Leaves(H), NEW b \in Leaves(H), a # b,
         NEW E, E \subseteq {a, b}, Filled(H, E, root, 1),
         NEW s \in Seq(Pair), NEW t \in Seq(Pair), Len(s) + Len(t) = slotuse(H, a) + slotuse(H, b),
         Len(s) \in mininnerslots .. leafslotmax, Len(t) \in mininnerslots .. leafslotmax,
         NEW M, NEW G, Refilled(H, M, a, s), Refilled(M, G, b, t)
  PROVE  IsShifted(H, G, root, R)
<1>1. Tree(H, root, {}, R) /\ NodesHold(H, {}) /\ Linked(H, {}, R)
  BY DEF Shape
<1>0. RefilledTwo(H, G, a, b, s, t)
  BY RefillTwo
<1>2. /\ G \in Heaps /\ SameNodes(H, G) /\ SameLinks(H, G) /\ Kept(H, G, 0)
      /\ slotuse(G, a) = Len(s) /\ slotuse(G, b) = Len(t)
      /\ \A n \in NodeId \ {a, b} : slotuse(G, n) = slotuse(H, n)
      /\ Leaves(G) = Leaves(H) /\ InnerNodes(G) = InnerNodes(H)
  BY <1>0 DEF RefilledTwo
<1>3. /\ a \in NodeId /\ b \in NodeId /\ a \in Allocated(H) /\ b \in Allocated(H)
      /\ slotuse(H, a) \in Nat /\ slotuse(H, b) \in Nat /\ isleafnode(H, a) /\ isleafnode(H, b)
  BY LeafNode
<1>4. root \in Allocated(H)
  BY <1>1, RootIs
<1>5. Tree(G, root, {}, R) /\ Linked(G, {}, R)
  BY <1>1, <1>2, <1>4, SameTree, SameChain
<1>6. /\ Allocated(G) = Allocated(H)
      /\ \A n \in Allocated(H) : /\ n \in NodeId /\ slotuse(H, n) \in Nat
                                 /\ isleafnode(G, n) <=> isleafnode(H, n)
                                 /\ Kids(G, n) = Kids(H, n)
  BY <1>2, SameKinds, NodeIs DEF SameNodes
<1>7. ASSUME NEW n \in {a, b} PROVE slotuse(G, n) \in mininnerslots .. leafslotmax /\ isleafnode(G, n)
  BY <1>2, <1>3, <1>6
<1>8. NodesHold(G, {})
  <2> SUFFICES ASSUME NEW n \in Allocated(G)
               PROVE  IF isleafnode(G, n) THEN slotuse(G, n) <= leafslotmax
                      ELSE slotuse(G, n) <= innerslotmax /\ Len(Kids(G, n)) = slotuse(G, n) + 1
    BY DEF NodesHold
  <2>1. CASE n \in {a, b}
    BY <1>7, <2>1, Sizes
  <2>2. CASE n \notin {a, b}
    BY <1>1, <1>2, <1>6, <2>2 DEF NodesHold
  <2> QED
    BY <2>1, <2>2
<1>9. Filled(G, {}, root, 1)
  <2> SUFFICES ASSUME NEW n \in Allocated(G)
               PROVE  slotuse(G, n) >= IF n # root THEN mininnerslots
                                       ELSE IF isleafnode(G, n) THEN 1 ELSE 1
    BY DEF Filled
  <2>1. CASE n \in {a, b}
    <3>1. slotuse(G, n) >= mininnerslots /\ slotuse(G, n) \in Nat
      BY <1>7, <2>1, Sizes
    <3> QED
      BY <3>1, Sizes
  <2>2. CASE n \notin {a, b}
    <3>1. n \in Allocated(H) \ E /\ n \in NodeId \ {a, b}
      BY <1>6, <2>2
    <3>2. slotuse(H, n) >= IF n # root THEN mininnerslots ELSE IF isleafnode(H, n) THEN 1 ELSE 1
      BY <3>1 DEF Filled
    <3> QED
      BY <1>2, <3>1, <3>2
  <2> QED
    BY <2>1, <2>2
<1>10. Cardinality(Pairs(G)) - Cardinality(Pairs(H)) = 0
  <2>1. /\ Held(H, a) \in 0 .. leafslotmax /\ Held(H, b) \in 0 .. leafslotmax
        /\ Held(G, a) \in 0 .. leafslotmax /\ Held(G, b) \in 0 .. leafslotmax
    BY <1>1, <1>2, <1>8, HeldIs
  <2>2. /\ Held(H, a) = slotuse(H, a) /\ Held(H, b) = slotuse(H, b)
        /\ Held(G, a) = Len(s) /\ Held(G, b) = Len(t)
    BY <1>2 DEF Held
  <2>3. \A n \in NodeId \ {a, b} : (n \in Leaves(G) <=> n \in Leaves(H)) /\ slotuse(G, n) = slotuse(H, n)
    BY <1>2
  <2>4. Cardinality(Pairs(G)) - Cardinality(Pairs(H)) = (Held(G, a) + Held(G, b)) - (Held(H, a) + Held(H, b))
    BY <2>1, <2>3, PairsChange
  <2> QED
    BY <1>3, <2>2, <2>4
<1> QED
  BY <1>2, <1>5, <1>8, <1>9, <1>10 DEF IsShifted, Shape

LEMMA ShiftedRekeyed ==
  ASSUME NEW H \in Heaps, NEW root, root # NULL, NEW R, NEW M, IsShifted(H, M, root, R),
         NEW G \in Heaps, Rekeyed(M, G)
  PROVE  IsShifted(H, G, root, R)
<1>1. /\ M \in Heaps /\ Shape(M, root, {}, {}, R) /\ Filled(M, {}, root, 1)
      /\ SameNodes(H, M) /\ SameLinks(H, M) /\ Kept(H, M, 0) /\ Leaves(M) = Leaves(H) /\ InnerNodes(M) = InnerNodes(H)
      /\ Cardinality(Pairs(M)) - Cardinality(Pairs(H)) = 0
  BY DEF IsShifted
<1>2. /\ SameNodes(M, G) /\ SameLinks(M, G) /\ Pairs(G) = Pairs(M) /\ Filled(G, {}, root, 1)
  BY <1>1, RekeyedKeeps
<1>3. root \in Allocated(M)
  BY <1>1, RootIs DEF Shape
<1>4. Shape(G, root, {}, {}, R)
  BY <1>1, <1>3, RekeyedShape
<1>5. SameNodes(H, G) /\ SameLinks(H, G)
  BY <1>1, <1>2 DEF SameNodes, SameLinks
<1>6. Kept(H, G, 0)
  <2>1. Kept(M, G, 0)
    BY KeptRekeyed
  <2>2. \A n \in Allocated(H) : H[n].level \in Int
    BY NodeIs
  <2> QED
    BY <1>1, <2>1, <2>2, KeptTwice
<1>7. Leaves(G) = Leaves(M) /\ InnerNodes(G) = InnerNodes(M)
  BY <1>2, SameKinds
<1> QED
  BY <1>1, <1>2, <1>4, <1>5, <1>6, <1>7 DEF IsShifted

\* What a shift moves, from a node with v slots to one with u.
LEMMA ShiftCounts ==
  ASSUME NEW m \in Nat, NEW c \in Nat, NEW u \in Nat, NEW v \in Nat,
         u + 1 = m, v >= m + 1, v <= c, NEW n, n = (v - u) \div 2
  PROVE  /\ n \in 1 .. v /\ n < v /\ u + n \in m .. c /\ v - n \in m .. c
OBVIOUS

\* From one that can spare a slot to one that is a slot short.
LEMMA ShiftLeftLeafIs ==
  ASSUME MergedFits, NEW H \in Heaps, NEW root, root # NULL, NEW R, Shape(H, root, {}, {}, R),
         NEW a \in Leaves(H), NEW b \in Leaves(H), a # b,
         NEW E, E \subseteq {a, b}, Filled(H, E, root, 1),
         slotuse(H, a) + 1 = mininnerslots, ~isfew(H, b), NEW G, G = shift_left_leaf(H, a, b)
  PROVE  IsShifted(H, G, root, R)
<1>a. PICK n, u, v : n = ShiftNum(H, b, a) /\ u = slotuse(H, a) /\ v = slotuse(H, b)
  OBVIOUS
<1>b. PICK x, y : x = H[a].slots /\ y = H[b].slots
  OBVIOUS
<1>c. PICK s, t : s = x \o SubSeq(y, 1, n) /\ t = SubSeq(y, n + 1, Len(y))
  OBVIOUS
<1>1. /\ a \in NodeId /\ b \in NodeId /\ DOMAIN H = NodeId /\ x \in Seq(Pair) /\ y \in Seq(Pair)
      /\ u = Len(x) /\ v = Len(y) /\ u \in Nat /\ v \in Nat /\ isleafnode(H, b) /\ b \in Allocated(H)
      /\ H[a] = [level |-> 0, slots |-> x, prev |-> H[a].prev, next |-> H[a].next]
      /\ H[b] = [level |-> 0, slots |-> y, prev |-> H[b].prev, next |-> H[b].next]
  BY <1>a, <1>b, LeafNode DEF Heaps
<1>2. v <= leafslotmax
  BY <1>1, <1>a DEF Shape, NodesHold
<1>3. v > minleafslots
  BY <1>1, <1>a, Sizes DEF isfew
<1>4. v >= mininnerslots + 1 /\ u + 1 = mininnerslots
  BY <1>1, <1>3, <1>a, Sizes DEF MergedFits
<1>5. n \in 1 .. v /\ n < v /\ u + n \in mininnerslots .. leafslotmax /\ v - n \in mininnerslots .. leafslotmax
  <2>1. n = (v - u) \div 2
    BY <1>a DEF ShiftNum
  <2> QED
    BY <1>1, <1>2, <1>4, <2>1, Sizes, ShiftCounts
<1>6. /\ SubSeq(y, 1, n) \in Seq(Pair) /\ Len(SubSeq(y, 1, n)) = n
      /\ t \in Seq(Pair) /\ Len(t) = v - n
  <2>1. n \in 0 .. Len(y)
    BY <1>1, <1>5
  <2> QED
    BY <1>1, <1>c, <2>1, CutIs
<1>7. s \in Seq(Pair) /\ Len(s) = u + n
  BY <1>1, <1>6, <1>c, ConcatIs DEF Joins
<1>8. PICK M : M = [H EXCEPT ![a].slots = s]
  OBVIOUS
<1>9. Refilled(H, M, a, s) /\ Refilled(M, G, b, t)
  <2>1. G = [H EXCEPT ![a].slots = s, ![b].slots = t]
    <3>1. G = [H EXCEPT ![a].slots = @ \o SubSeq(H[b].slots, 1, n),
                        ![b].slots = SubSeq(@, n + 1, Len(@))]
      BY <1>a DEF shift_left_leaf
    <3> QED
      BY <1>1, <1>b, <1>c, <3>1
  <2> QED
    BY <1>8, <2>1 DEF Refilled
<1>10. Len(s) + Len(t) = slotuse(H, a) + slotuse(H, b)
  BY <1>1, <1>5, <1>6, <1>7, <1>a
<1>11. Len(s) \in mininnerslots .. leafslotmax /\ Len(t) \in mininnerslots .. leafslotmax
  BY <1>5, <1>6, <1>7
<1> QED
  BY <1>6, <1>7, <1>9, <1>10, <1>11, ShiftPairs

\* ... and the other way; the leaf on the left keeps the first pairs.
ShiftedRight(H, a, b) ==
  LET keep == slotuse(H, a) - ShiftNum(H, a, b)
  IN [H EXCEPT ![a].slots = SubSeq(@, 1, keep),
               ![b].slots = SubSeq(H[a].slots, keep + 1, Len(H[a].slots)) \o @]

LEMMA ShiftRightLeafIs ==
  ASSUME MergedFits, NEW H \in Heaps, NEW root, root # NULL, NEW R, Shape(H, root, {}, {}, R),
         NEW a \in Leaves(H), NEW b \in Leaves(H), a # b,
         NEW E, E \subseteq {a, b}, Filled(H, E, root, 1),
         slotuse(H, b) + 1 = mininnerslots, ~isfew(H, a), NEW G, G = ShiftedRight(H, a, b)
  PROVE  IsShifted(H, G, root, R)
<1>a. PICK n, u, v : n = ShiftNum(H, a, b) /\ u = slotuse(H, b) /\ v = slotuse(H, a)
  OBVIOUS
<1>b. PICK x, y, k : x = H[a].slots /\ y = H[b].slots /\ k = v - n
  OBVIOUS
<1>c. PICK s, t : s = SubSeq(x, 1, k) /\ t = SubSeq(x, k + 1, Len(x)) \o y
  OBVIOUS
<1>1. /\ a \in NodeId /\ b \in NodeId /\ DOMAIN H = NodeId /\ x \in Seq(Pair) /\ y \in Seq(Pair)
      /\ v = Len(x) /\ u = Len(y) /\ u \in Nat /\ v \in Nat /\ isleafnode(H, a) /\ a \in Allocated(H)
      /\ H[a] = [level |-> 0, slots |-> x, prev |-> H[a].prev, next |-> H[a].next]
      /\ H[b] = [level |-> 0, slots |-> y, prev |-> H[b].prev, next |-> H[b].next]
  BY <1>a, <1>b, LeafNode DEF Heaps
<1>2. v <= leafslotmax
  BY <1>1, <1>a DEF Shape, NodesHold
<1>3. v > minleafslots
  BY <1>1, <1>a, Sizes DEF isfew
<1>4. v >= mininnerslots + 1 /\ u + 1 = mininnerslots
  BY <1>1, <1>3, <1>a, Sizes DEF MergedFits
<1>5. n \in 1 .. v /\ n < v /\ u + n \in mininnerslots .. leafslotmax /\ v - n \in mininnerslots .. leafslotmax
  <2>1. n = (v - u) \div 2
    BY <1>a DEF ShiftNum
  <2> QED
    BY <1>1, <1>2, <1>4, <2>1, Sizes, ShiftCounts
<1>6. /\ s \in Seq(Pair) /\ Len(s) = k
      /\ SubSeq(x, k + 1, Len(x)) \in Seq(Pair) /\ Len(SubSeq(x, k + 1, Len(x))) = v - k
  <2>1. k \in 0 .. Len(x)
    BY <1>1, <1>5, <1>b
  <2> QED
    BY <1>1, <1>c, <2>1, CutIs
<1>7. t \in Seq(Pair) /\ Len(t) = (v - k) + u
  BY <1>1, <1>6, <1>c, ConcatIs DEF Joins
<1>8. PICK M : M = [H EXCEPT ![a].slots = s]
  OBVIOUS
<1>9. Refilled(H, M, a, s) /\ Refilled(M, G, b, t)
  <2>1. G = [H EXCEPT ![a].slots = s, ![b].slots = t]
    <3>1. G = [H EXCEPT ![a].slots = SubSeq(@, 1, k),
                        ![b].slots = SubSeq(H[a].slots, k + 1, Len(H[a].slots)) \o @]
      BY <1>a, <1>b DEF ShiftedRight
    <3> QED
      BY <1>1, <1>b, <1>c, <3>1
  <2> QED
    BY <1>8, <2>1 DEF Refilled
<1>10. Len(s) = v - n /\ Len(t) = u + n
  BY <1>1, <1>5, <1>6, <1>7, <1>b
<1>11. Len(s) + Len(t) = slotuse(H, a) + slotuse(H, b)
  BY <1>1, <1>5, <1>10, <1>a
<1>12. Len(s) \in mininnerslots .. leafslotmax /\ Len(t) \in mininnerslots .. leafslotmax
  BY <1>5, <1>10
<1> QED
  BY <1>6, <1>7, <1>9, <1>11, <1>12, ShiftPairs

-----------------------------------------------------------------------------
(* An erase on a leaf                                                      *)

\* Without nodes.
IsEmptyTree(G, Q) ==
  /\ Shape(G, NULL, {}, {}, Q) /\ Filled(G, {}, NULL, 1)
  /\ Leaves(G) = {} /\ InnerNodes(G) = {} /\ Pairs(G) = {}

LEMMA EmptyTree ==
  ASSUME NEW G, Allocated(G) = {}, NEW Q, Q = [n \in {} |-> {}]
  PROVE  IsEmptyTree(G, Q)
<1>1. Leaves(G) = {} /\ InnerNodes(G) = {} /\ Pairs(G) = {}
  BY DEF Leaves, InnerNodes, Pairs
<1>2. Forest(Allocated(G), LevelsOf(G), KidsOf(G), {}, Q)
  <2>1. ForestKids(Allocated(G), LevelsOf(G), KidsOf(G), {})
    BY DEF ForestKids, LevelsOf, KidsOf
  <2>2. HasParent(Allocated(G), KidsOf(G), {})
    BY DEF HasParent
  <2>3. LevelOrder(Allocated(G), LevelsOf(G), Q)
    BY DEF LevelOrder
  <2>4. KidsOrder(Allocated(G), KidsOf(G), Q)
    BY DEF KidsOrder
  <2> QED
    BY <2>1, <2>2, <2>3, <2>4 DEF Forest
<1>3. Tree(G, NULL, {}, Q)
  <2>1. ({NULL} \ {NULL}) \cup {} = {}
    OBVIOUS
  <2> QED
    BY <1>2, <2>1 DEF Tree
<1>4. NodesHold(G, {}) /\ Filled(G, {}, NULL, 1)
  BY DEF NodesHold, Filled
<1>5. Linked(G, {}, Q)
  BY <1>1 DEF Linked, Chained
<1> QED
  BY <1>1, <1>3, <1>4, <1>5 DEF IsEmptyTree, Shape

\* A root that is a leaf is the only node.
LEMMA OnlyLeaf ==
  ASSUME NEW H \in Heaps, NEW a \in Leaves(H), NEW R, Tree(H, a, {}, R)
  PROVE  Allocated(H) = {a} /\ Leaves(H) = {a} /\ InnerNodes(H) = {}
<1>1. a \in Allocated(H) /\ H[a].level = 0 /\ isleafnode(H, a)
  BY LeafNode
<1>2. \A n \in Allocated(H) : n = a \/ H[n].level < 0
  BY <1>1 DEF Tree
<1>3. \A n \in Allocated(H) : n = a
  BY <1>2, NodeIs
<1> QED
  BY <1>1, <1>3 DEF Leaves, InnerNodes

\* The leaves in two slots next to each other.
NextLeaves(H, root, R, a, b) ==
  /\ a \in Leaves(H) /\ b \in Leaves(H) /\ IsNext(Allocated(H), R, a, b) /\ a # b
  /\ a # root /\ b # root

LEMMA NextLeavesAre ==
  ASSUME NEW H \in Heaps, NEW root, root # NULL, NEW R, Shape(H, root, {}, {}, R),
         NEW p \in Allocated(H), H[p].level = 1, NEW s \in 0 .. slotuse(H, p), s < slotuse(H, p),
         NEW a, a = childid(H, p, s), NEW b, b = childid(H, p, s + 1)
  PROVE  NextLeaves(H, root, R, a, b)
<1>1. Tree(H, root, {}, R) /\ NodesHold(H, {}) /\ Linked(H, {}, R)
  BY DEF Shape
<1>2. p \in Allocated(H) \ {} /\ H[p].level > 0 /\ slotuse(H, p) \in Nat
  BY NodeIs
<1>3. a \in Allocated(H) /\ H[a].level = 0 /\ a # root
  BY <1>1, <1>2, ChildOf
<1>4. s + 1 \in 0 .. slotuse(H, p)
  BY <1>2
<1>5. PICK k : k = s + 1
  OBVIOUS
<1>6. b \in Allocated(H) /\ H[b].level = 0 /\ b # root
  BY <1>1, <1>2, <1>4, <1>5, ChildOf
<1>7. IsNext(Allocated(H), R, a, b)
  BY <1>1, <1>2, SiblingNext
<1>8. a \in Leaves(H) /\ b \in Leaves(H)
  BY <1>3, <1>6 DEF Leaves, isleafnode
<1>9. a # b
  BY <1>1, <1>7, <1>8, NextIsNew
<1> QED
  BY <1>3, <1>6, <1>7, <1>8, <1>9 DEF NextLeaves

\* The arithmetic of a merge.
LEMMA MergeCounts ==
  ASSUME MergedFits, NEW u \in Nat, NEW v \in Nat, u + 1 = mininnerslots, v <= minleafslots, v >= 1
  PROVE  u + v <= leafslotmax /\ u + v >= mininnerslots /\ v + u <= leafslotmax /\ v + u >= mininnerslots
BY Sizes DEF MergedFits

\* The leaf that got pairs has a last key.
LEMMA ShiftedLastKey ==
  ASSUME NEW H, NEW G, NEW root, NEW R, IsShifted(H, G, root, R), NEW a \in Leaves(G)
  PROVE  LastKey(G, a) \in Key
<1>1. G \in Heaps /\ Filled(G, {}, root, 1)
  BY DEF IsShifted
<1>2. a \in Allocated(G) /\ isleafnode(G, a) /\ slotuse(G, a) \in Nat
  BY <1>1, LeafNode
<1>3. slotuse(G, a) >= IF a # root THEN mininnerslots ELSE IF isleafnode(G, a) THEN 1 ELSE 1
  BY <1>1, <1>2 DEF Filled
<1>4. slotuse(G, a) >= 1
  BY <1>2, <1>3, Sizes
<1> QED
  BY <1>1, <1>2, <1>4, SlotKey

\* A shift, and the key for it in the node above.
LEMMA ShiftedSetKey ==
  ASSUME NEW H \in Heaps, NEW root, root # NULL, NEW R, NEW M, IsShifted(H, M, root, R),
         NEW a \in Leaves(M), NEW p \in Allocated(H), H[p].level > 0, NEW s,
         NEW G, G = SetKey(M, p, s, LastKey(M, a))
  PROVE  IsShifted(H, G, root, R)
<1>a. PICK k : k = LastKey(M, a)
  OBVIOUS
<1>1. k \in Key
  BY <1>a, ShiftedLastKey
<1>2. M \in Heaps /\ SameNodes(H, M)
  BY DEF IsShifted
<1>3. p \in Allocated(M) /\ M[p].level > 0
  BY <1>2 DEF SameNodes
<1>4. SetKey(M, p, s, k) \in Heaps /\ Rekeyed(M, SetKey(M, p, s, k))
  BY <1>1, <1>2, <1>3, SetKeyIs
<1>5. G \in Heaps /\ Rekeyed(M, G)
  BY <1>4, <1>a
<1> QED
  BY <1>5, ShiftedRekeyed

-----------------------------------------------------------------------------
(* A key of an inner node is replaced                                     *)

LEMMA RekeyedNode ==
  ASSUME NEW J \in Heaps, NEW U \in Heaps, Rekeyed(J, U), NEW c \in InnerNodes(J)
  PROVE  /\ c \in InnerNodes(U) /\ U[c].level = J[c].level /\ slotuse(U, c) = slotuse(J, c)
         /\ U[c].child = J[c].child /\ \A s : childid(U, c, s) = childid(J, c, s)
<1>1. c \in Allocated(J) /\ Kids(J, c) = J[c].child
  BY InnerNode
<1>2. SameNodes(J, U) /\ SameSizes(J, U)
  BY DEF Rekeyed
<1>3. c \in InnerNodes(U)
  BY <1>2, SameKinds
<1>4. Kids(U, c) = U[c].child
  BY <1>3, InnerNode
<1>5. Kids(U, c) = Kids(J, c) /\ U[c].level = J[c].level /\ slotuse(U, c) = slotuse(J, c)
  BY <1>1, <1>2 DEF SameNodes, SameSizes
<1> QED
  BY <1>1, <1>3, <1>4, <1>5 DEF childid

-----------------------------------------------------------------------------
(* Two inner nodes exchange keys and children                              *)

\* The inner nodes in two slots next to each other.
NextInners(H, root, R, a, b) ==
  /\ a \in InnerNodes(H) /\ b \in InnerNodes(H) /\ IsNext(Allocated(H), R, a, b) /\ a # b
  /\ a # root /\ b # root /\ H[a].level = H[b].level

\* A join of three, taken together from the left or from the right.
LEMMA JoinOnLeft ==
  ASSUME NEW S, NEW s \in Seq(S), NEW l \in Seq(S), NEW r \in Seq(S), Joins(s, l, r),
         NEW p \in Seq(S), NEW q \in Seq(S), Joins(r, p, q), NEW h, h = l \o p
  PROVE  h \in Seq(S) /\ Joins(s, h, q)
<1>1. h \in Seq(S) /\ Joins(h, l, p)
  BY ConcatIs
<1>2. PICK i, j, k : i = Len(l) /\ j = Len(p) /\ k = Len(q)
  OBVIOUS
<1>3. i \in Nat /\ j \in Nat /\ k \in Nat
  BY <1>2
<1>4. Len(h) = i + j /\ Len(r) = j + k /\ Len(s) = i + (j + k)
  BY <1>1, <1>2 DEF Joins
<1>5. Len(s) = Len(h) + Len(q)
  BY <1>2, <1>3, <1>4
<1>6. ASSUME NEW n \in 1 .. Len(h) PROVE s[n] = h[n]
  <2>1. CASE n <= i
    <3>1. n \in 1 .. Len(l)
      BY <1>2, <1>3, <1>4, <2>1
    <3> QED
      BY <1>1, <3>1 DEF Joins
  <2>2. CASE n > i
    <3>1. PICK m : m = n - i
      OBVIOUS
    <3>2. m \in 1 .. j /\ m + i = n /\ m \in 1 .. j + k
      BY <1>3, <1>4, <2>2, <3>1
    <3>3. s[m + Len(l)] = r[m]
      BY <1>4, <3>2 DEF Joins
    <3>4. h[m + Len(l)] = p[m]
      BY <1>1, <1>2, <3>2 DEF Joins
    <3>5. r[m] = p[m]
      BY <1>2, <3>2 DEF Joins
    <3> QED
      BY <1>2, <3>2, <3>3, <3>4, <3>5
  <2> QED
    BY <1>3, <1>4, <2>1, <2>2, SMTT(30)
<1>7. ASSUME NEW n \in 1 .. Len(q) PROVE s[n + Len(h)] = q[n]
  <2>1. PICK m : m = n + j
    OBVIOUS
  <2>2. m \in 1 .. j + k /\ m + i = n + (i + j)
    BY <1>2, <1>3, <2>1
  <2>3. s[m + Len(l)] = r[m]
    BY <1>4, <2>2 DEF Joins
  <2>4. r[n + Len(p)] = q[n]
    BY DEF Joins
  <2> QED
    BY <1>2, <1>4, <2>1, <2>2, <2>3, <2>4
<1> QED
  BY <1>1, <1>5, <1>6, <1>7 DEF Joins

LEMMA JoinOnRight ==
  ASSUME NEW S, NEW s \in Seq(S), NEW l \in Seq(S), NEW r \in Seq(S), Joins(s, l, r),
         NEW p \in Seq(S), NEW q \in Seq(S), Joins(l, p, q), NEW h, h = q \o r
  PROVE  h \in Seq(S) /\ Joins(s, p, h)
<1>1. h \in Seq(S) /\ Joins(h, q, r)
  BY ConcatIs
<1>2. PICK i, j, k : i = Len(p) /\ j = Len(q) /\ k = Len(r)
  OBVIOUS
<1>3. i \in Nat /\ j \in Nat /\ k \in Nat
  BY <1>2
<1>4. Len(l) = i + j /\ Len(h) = j + k /\ Len(s) = (i + j) + k
  BY <1>1, <1>2 DEF Joins
<1>5. Len(s) = Len(p) + Len(h)
  BY <1>2, <1>3, <1>4
<1>6. ASSUME NEW n \in 1 .. Len(p) PROVE s[n] = p[n]
  <2>1. n \in 1 .. i + j
    BY <1>2, <1>3
  <2> QED
    BY <1>4, <2>1 DEF Joins
<1>7. ASSUME NEW n \in 1 .. Len(h) PROVE s[n + Len(p)] = h[n]
  <2>1. CASE n <= j
    <3>1. n \in 1 .. j /\ n + i \in 1 .. i + j
      BY <1>3, <1>4, <2>1
    <3>2. s[n + i] = l[n + i]
      BY <1>4, <3>1 DEF Joins
    <3>3. l[n + i] = q[n]
      BY <1>2, <3>1 DEF Joins
    <3>4. h[n] = q[n]
      BY <1>1, <1>2, <3>1 DEF Joins
    <3> QED
      BY <1>2, <3>2, <3>3, <3>4
  <2>2. CASE n > j
    <3>1. PICK m : m = n - j
      OBVIOUS
    <3>2. m \in 1 .. k /\ m + j = n /\ m + (i + j) = n + i
      BY <1>3, <1>4, <2>2, <3>1
    <3>3. s[m + Len(l)] = r[m]
      BY <1>2, <3>2 DEF Joins
    <3>4. h[m + Len(q)] = r[m]
      BY <1>1, <1>2, <3>2 DEF Joins
    <3> QED
      BY <1>2, <1>4, <3>2, <3>3, <3>4
  <2> QED
    BY <1>3, <1>4, <2>1, <2>2
<1> QED
  BY <1>1, <1>5, <1>6, <1>7 DEF Joins

\* G is H with other keys and children in a and b.
RewrittenTwo(H, G, a, b, ka, ca, kb, cb) ==
  G = [H EXCEPT ![a].keys = ka, ![a].child = ca, ![b].keys = kb, ![b].child = cb]

IsTwo(H, G, a, b, ka, ca, kb, cb) ==
  /\ SameFrame(H, G, {a, b}) /\ G[a].keys = ka /\ G[a].child = ca
  /\ G[b].keys = kb /\ G[b].child = cb

LEMMA RewriteTwoIs ==
  ASSUME NEW H \in Heaps, NEW a \in InnerNodes(H), NEW b \in InnerNodes(H), a # b,
         NEW ka \in Seq(Key), NEW kb \in Seq(Key), NEW ca \in Seq(NodeId), NEW cb \in Seq(NodeId),
         NEW G, RewrittenTwo(H, G, a, b, ka, ca, kb, cb)
  PROVE  IsTwo(H, G, a, b, ka, ca, kb, cb)
<1>1. /\ a \in NodeId /\ b \in NodeId /\ DOMAIN H = NodeId /\ H[a] \in Inner /\ H[b] \in Inner
  BY InnerNode DEF Heaps
<1>2. /\ G[a] = [H[a] EXCEPT !.keys = ka, !.child = ca]
      /\ G[b] = [H[b] EXCEPT !.keys = kb, !.child = cb]
      /\ \A n \in NodeId \ {a, b} : G[n] = H[n]
      /\ G = [n \in NodeId |-> G[n]]
  BY <1>1 DEF RewrittenTwo
<1>3. G[a] \in Inner /\ G[a].level = H[a].level /\ G[a].keys = ka /\ G[a].child = ca
  BY <1>1, <1>2 DEF Inner
<1>4. G[b] \in Inner /\ G[b].level = H[b].level /\ G[b].keys = kb /\ G[b].child = cb
  BY <1>1, <1>2 DEF Inner
<1>5. InnerWrites(H, G, {a, b})
  BY <1>2, <1>3, <1>4 DEF InnerWrites
<1> QED
  BY <1>3, <1>4, <1>5, InnerWritesAre DEF IsTwo

LEMMA KeyBetween ==
  ASSUME NEW S, NEW x \in Seq(S), NEW y \in Seq(S), NEW k \in S, NEW z, z = Append(x, k) \o y
  PROVE  z \in Seq(S) /\ Len(z) = (Len(x) + Len(y)) + 1
<1>1. PICK w : w = Append(x, k)
  OBVIOUS
<1>2. w \in Seq(S) /\ Len(w) = Len(x) + 1
  BY <1>1
<1>3. z \in Seq(S) /\ Len(z) = Len(w) + Len(y)
  BY <1>1, <1>2, ConcatIs DEF Joins
<1> QED
  BY <1>2, <1>3

\* What is known of the two nodes.
AreTwo(H, a, b, x, y, c, d) ==
  /\ x \in Seq(Key) /\ y \in Seq(Key) /\ c \in Seq(NodeId) /\ d \in Seq(NodeId)
  /\ Len(x) = slotuse(H, a) /\ Len(y) = slotuse(H, b)
  /\ Len(c) = Len(x) + 1 /\ Len(d) = Len(y) + 1
  /\ slotuse(H, a) \in 0 .. innerslotmax /\ slotuse(H, b) \in 0 .. innerslotmax
  /\ a \in NodeId /\ b \in NodeId /\ DOMAIN H = NodeId /\ ~isleafnode(H, a) /\ ~isleafnode(H, b)
  /\ H[a] \in Inner /\ H[b] \in Inner /\ a # b /\ a \in Allocated(H) /\ b \in Allocated(H)

LEMMA TwoInners ==
  ASSUME NEW H \in Heaps, NEW root, root # NULL, NEW R, Shape(H, root, {}, {}, R),
         NEW a, NEW b, NextInners(H, root, R, a, b),
         NEW x, x = H[a].keys, NEW y, y = H[b].keys, NEW c, c = H[a].child, NEW d, d = H[b].child
  PROVE  AreTwo(H, a, b, x, y, c, d)
<1>1. a \in InnerNodes(H) /\ b \in InnerNodes(H) /\ a # b
  BY DEF NextInners
<1>2. /\ a \in NodeId /\ a \in Allocated(H) /\ ~isleafnode(H, a) /\ H[a] \in Inner
      /\ H[a].keys \in Seq(Key) /\ H[a].child \in Seq(NodeId)
      /\ slotuse(H, a) = Len(H[a].keys) /\ slotuse(H, a) \in Nat /\ Kids(H, a) = H[a].child
  BY <1>1, InnerNode
<1>3. /\ b \in NodeId /\ b \in Allocated(H) /\ ~isleafnode(H, b) /\ H[b] \in Inner
      /\ H[b].keys \in Seq(Key) /\ H[b].child \in Seq(NodeId)
      /\ slotuse(H, b) = Len(H[b].keys) /\ slotuse(H, b) \in Nat /\ Kids(H, b) = H[b].child
  BY <1>1, InnerNode
<1>4. NodesHold(H, {})
  BY DEF Shape
<1>5. slotuse(H, a) <= innerslotmax /\ Len(Kids(H, a)) = slotuse(H, a) + 1
  BY <1>2, <1>4 DEF NodesHold
<1>6. slotuse(H, b) <= innerslotmax /\ Len(Kids(H, b)) = slotuse(H, b) + 1
  BY <1>3, <1>4 DEF NodesHold
<1>7. slotuse(H, a) \in 0 .. innerslotmax /\ slotuse(H, b) \in 0 .. innerslotmax
  BY <1>2, <1>3, <1>5, <1>6, Sizes
<1>8. DOMAIN H = NodeId
  BY DEF Heaps
<1> QED
  BY <1>1, <1>2, <1>3, <1>5, <1>6, <1>7, <1>8 DEF AreTwo

-----------------------------------------------------------------------------
(* Neighbours on a level                                                   *)

LEMMA NextIsNext ==
  ASSUME NEW H \in Heaps, NEW root, NEW R, Shape(H, root, {}, {}, R),
         NEW a \in Allocated(H), NEW b \in Allocated(H), IsNext(Allocated(H), R, a, b),
         H[a].level = 0, H[b].level = 0
  PROVE  H[a].next = b
<1>1. Tree(H, root, {}, R) /\ Linked(H, {}, R)
  BY DEF Shape
<1>2. LineOrder(Leaves(H), R) /\ NULL \notin Leaves(H)
  BY <1>1, LeafLine
<1>3. Chained(Leaves(H), R, Nexts(H), Prevs(H), NULL)
  BY <1>1 DEF Linked
<1>4. a \in Leaves(H) /\ b \in Leaves(H) /\ Leaves(H) \subseteq Allocated(H)
  BY NodeIs DEF Leaves
<1>5. IsNext(Leaves(H), R, a, b)
  BY <1>4 DEF IsNext
<1>6. Nexts(H)[a] = H[a].next
  BY <1>4 DEF Nexts
<1>7. H[a].next # NULL
  BY <1>3, <1>4, <1>5, <1>6 DEF Chained, IsNext
<1>8. H[a].next \in Leaves(H) /\ IsNext(Leaves(H), R, a, H[a].next)
  BY <1>3, <1>4, <1>6, <1>7 DEF Chained
<1> QED
  BY <1>2, <1>4, <1>5, <1>8, NextUnique

-----------------------------------------------------------------------------
(* Where the searches end                                                  *)

\* Left of the place a search ends on is no element to go left at, and the
\* place is one, unless it is behind the last.
LEMMA SearchPlace ==
  ASSUME NEW n \in Nat, NEW L, NEW f, IsSearch(n, L, f), NEW r, r = f[<<0, n>>]
  PROVE  (r > 0 => r \notin L) /\ (r < n => r + 1 \in L)
<1> DEFINE D == 0 .. n
           Good(r1) == (r1 > 0 => r1 \notin L) /\ (r1 < n => r1 + 1 \in L)
           S == {k \in Nat : \A lo, hi \in D :
                   /\ lo <= hi /\ hi - lo <= k
                   /\ lo > 0 => lo \notin L
                   /\ hi < n => hi + 1 \in L
                   => Good(f[<<lo, hi>>])}
<1>1. \A lo, hi \in D : f[<<lo, hi>>] = SearchStep(L, f, lo, hi)
  BY DEF IsSearch
<1>2. 0 \in S
  <2> SUFFICES ASSUME NEW lo \in D, NEW hi \in D, lo <= hi, hi - lo <= 0,
                      lo > 0 => lo \notin L, hi < n => hi + 1 \in L
               PROVE  Good(f[<<lo, hi>>])
    OBVIOUS
  <2>1. lo >= hi /\ lo = hi
    OBVIOUS
  <2>2. f[<<lo, hi>>] = lo
    BY <1>1, <2>1 DEF SearchStep
  <2> QED
    BY <2>1, <2>2
<1>3. ASSUME NEW k \in Nat, k \in S
      PROVE  k + 1 \in S
  <2> SUFFICES ASSUME NEW lo \in D, NEW hi \in D, lo <= hi, hi - lo <= k + 1,
                      lo > 0 => lo \notin L, hi < n => hi + 1 \in L
               PROVE  Good(f[<<lo, hi>>])
    OBVIOUS
  <2>1. CASE lo >= hi
    <3>1. lo = hi
      BY <2>1
    <3>2. f[<<lo, hi>>] = lo
      BY <1>1, <2>1 DEF SearchStep
    <3> QED
      BY <3>1, <3>2
  <2>2. CASE lo < hi
    <3> DEFINE mid == (lo + hi) \div 2
    <3>1. mid \in lo .. hi - 1
      BY <2>2, Halves
    <3>4. f[<<lo, hi>>] = IF mid + 1 \in L THEN f[<<lo, mid>>] ELSE f[<<mid + 1, hi>>]
      BY <1>1, <2>2 DEF SearchStep
    <3> HIDE DEF mid
    <3>2. mid \in D /\ mid + 1 \in D /\ mid - lo <= k /\ hi - (mid + 1) <= k
          /\ lo <= mid /\ mid + 1 <= hi
      BY <3>1
    <3>5. CASE mid + 1 \in L
      <4>1. Good(f[<<lo, mid>>])
        BY <1>3, <3>2, <3>5
      <4> QED
        BY <4>1, <3>4, <3>5
    <3>6. CASE mid + 1 \notin L
      <4>1. Good(f[<<mid + 1, hi>>])
        BY <1>3, <3>2, <3>6
      <4> QED
        BY <4>1, <3>4, <3>6
    <3> QED
      BY <3>5, <3>6
  <2> QED
    BY <2>1, <2>2
<1> HIDE DEF S
<1>4. n \in S
  BY <1>2, <1>3, SetInduction
<1>5. 0 \in D /\ n \in D /\ 0 <= n /\ n - 0 <= n
  OBVIOUS
<1>6. Good(f[<<0, n>>])
  BY <1>4, <1>5 DEF S
<1> QED
  BY <1>6

\* The first slot with a key that is not less.
LEMMA FindLowerPlace ==
  ASSUME NEW H \in Heaps, NEW n \in Allocated(H), NEW key, NEW slot, slot = find_lower(H, n, key)
  PROVE  /\ slot \in 0 .. slotuse(H, n)
         /\ slot > 0 => ~(key <= SlotKeys(H, n)[slot])
         /\ slot < slotuse(H, n) => key <= SlotKeys(H, n)[slot + 1]
<1> DEFINE keys == SlotKeys(H, n)
           N == Len(keys)
           L == {i \in 1 .. N : key <= keys[i]}
<1>1. N = slotuse(H, n) /\ N \in Nat
  BY SlotKey, NodeIs
<1>2. \E g : IsSearch(N, L, g)
  BY <1>1, SearchExists
<1> DEFINE body(g, r) == IF r[1] >= r[2] THEN r[1]
                         ELSE IF key <= keys[(r[1] + r[2]) \div 2 + 1]
                           THEN g[<<r[1], (r[1] + r[2]) \div 2>>]
                           ELSE g[<<(r[1] + r[2]) \div 2 + 1, r[2]>>]
<1>3. ASSUME NEW g, NEW r \in (0 .. N) \X (0 .. N)
      PROVE  body(g, r) = SearchStep(L, g, r[1], r[2])
  <2> DEFINE m == (r[1] + r[2]) \div 2
  <2>1. r[1] \in Nat /\ r[2] \in 0 .. N
    OBVIOUS
  <2>2. r[1] < r[2] => m \in r[1] .. r[2] - 1
    BY <2>1, Halves
  <2>3. r[1] < r[2] => m + 1 \in 1 .. N
    BY <1>1, <2>1, <2>2
  <2>4. ~(r[1] >= r[2]) => (m + 1 \in L <=> key <= keys[m + 1])
    BY <2>1, <2>3
  <2> HIDE DEF L, keys
  <2> QED
    BY <2>4 DEF SearchStep
<1> HIDE DEF body
<1>4. \A g : IsSearch(N, L, g) <=> g = [r \in (0 .. N) \X (0 .. N) |-> body(g, r)]
  BY <1>3 DEF IsSearch
<1> DEFINE f == CHOOSE g : g = [r \in (0 .. N) \X (0 .. N) |-> body(g, r)]
<1>5. find_lower(H, n, key) = f[<<0, N>>]
  BY DEF find_lower, BinarySearch, body
<1>6. IsSearch(N, L, f)
  BY <1>2, <1>4
<1>7. slot = f[<<0, N>>]
  BY <1>5
<1> HIDE DEF f
<1>8. (slot > 0 => slot \notin L) /\ (slot < N => slot + 1 \in L) /\ slot \in 0 .. N
  <2>1. f[<<0, N>>] \in 0 .. N
    BY <1>1, <1>6, SearchInRange
  <2> HIDE DEF L, keys
  <2>2. PICK M \in Nat : M = N
    BY <1>1
  <2>3. (slot > 0 => slot \notin L) /\ (slot < M => slot + 1 \in L)
    BY <2>2, <1>6, <1>7, SearchPlace
  <2> QED
    BY <2>1, <2>2, <2>3, <1>7
<1>9. (slot > 0 => slot \in 1 .. N) /\ (slot < N => slot + 1 \in 1 .. N)
  BY <1>1, <1>8
<1> QED
  BY <1>1, <1>8, <1>9

-----------------------------------------------------------------------------
(* The order of the keys in the tree                                       *)

\* What node n holds is in order and within b and m, m being the last of it.
NodeKeyed(H, lo, up, n, b, m) ==
  IF isleafnode(H, n) THEN Run(H[n].slots, b, m)
  ELSE Row(H[n].keys, H[n].child, lo, up, b, m)

\* All nodes but those of E are in order: node n holds keys from lo[n] to hi[n],
\* the last one.  up is hi, but for a node whose parent does not know yet.
Keyed(H, E, lo, hi, up) ==
  /\ lo \in [NodeId -> Int] /\ hi \in [NodeId -> Int] /\ up \in [NodeId -> Int]
  /\ \A n \in Allocated(H) \ E : NodeKeyed(H, lo, up, n, lo[n], hi[n])
  /\ \A n \in Allocated(H) : lo[n] <= up[n]

SameContent(H, G, n) ==
  /\ n \in Allocated(H) /\ G[n].level = H[n].level
  /\ IF isleafnode(H, n) THEN G[n].slots = H[n].slots
     ELSE G[n].keys = H[n].keys /\ G[n].child = H[n].child

LEMMA PairsHaveKeys == HasKeys(Pair)
BY KeyAssumption DEF HasKeys, Pair

LEMMA KeysAreInts == Key \subseteq Int
BY KeyAssumption

\* A node that is not empty.
LEMMA NodeSpan ==
  ASSUME NEW H \in Heaps, NEW root, NEW S, NEW R, Tree(H, root, S, R),
         NEW lo \in [NodeId -> Int], NEW up \in [NodeId -> Int],
         \A n \in Allocated(H) : lo[n] <= up[n],
         NEW n \in Allocated(H), NEW b \in Int, NEW m, NodeKeyed(H, lo, up, n, b, m),
         slotuse(H, n) >= 1
  PROVE  b <= m /\ m \in Int
<1>1. CASE isleafnode(H, n)
  <2>1. H[n].slots \in Seq(Pair) /\ slotuse(H, n) = Len(H[n].slots)
    BY <1>1, NodeIs
  <2>2. H[n].slots # <<>>
    BY <2>1
  <2>3. Run(H[n].slots, b, m)
    BY <1>1 DEF NodeKeyed
  <2>4. PICK s \in Seq(Pair) : s = H[n].slots
    BY <2>1
  <2>5. s # <<>> /\ Run(s, b, m)
    BY <2>2, <2>3, <2>4
  <2>6. m \in Int /\ b <= m
    BY <2>5, PairsHaveKeys, RunIs
  <2> QED
    BY <2>6
<1>2. CASE ~isleafnode(H, n)
  <2>1. H[n].keys \in Seq(Key) /\ H[n].child \in Seq(NodeId)
    BY <1>2, NodeIs
  <2>2. Row(H[n].keys, H[n].child, lo, up, b, m)
    BY <1>2 DEF NodeKeyed
  <2>3. Bounds(NodeId, lo, up)
    BY DEF Bounds
  <2>4. Spanned(H[n].child, lo, up)
    <3>0. Forest(Allocated(H), LevelsOf(H), KidsOf(H), ({root} \ {NULL}) \cup S, R)
      BY TreeIs
    <3>1. Kids(H, n) = H[n].child /\ \A i \in 1 .. Len(Kids(H, n)) : Kids(H, n)[i] \in Allocated(H)
      BY <1>2, <3>0, KidsAre
    <3> QED
      BY <3>1 DEF Spanned
  <2>5. PICK ks \in Seq(Key), cs \in Seq(NodeId) : ks = H[n].keys /\ cs = H[n].child
    BY <2>1
  <2>6. Row(ks, cs, lo, up, b, m) /\ Spanned(cs, lo, up)
    BY <2>2, <2>4, <2>5
  <2> QED
    BY <2>3, <2>6, RowGrows
<1> QED
  BY <1>1, <1>2

\* The bounds of the children decide whether a node is in order.
LEMMA NodeKeyedSame ==
  ASSUME NEW H \in Heaps, NEW G, NEW n \in Allocated(H), SameContent(H, G, n),
         NEW lo, NEW up, NEW lp, NEW uq, NEW b, NEW m, NodeKeyed(H, lo, up, n, b, m),
         \A i \in 1 .. Len(Kids(H, n)) :
           lp[Kids(H, n)[i]] = lo[Kids(H, n)[i]] /\ uq[Kids(H, n)[i]] = up[Kids(H, n)[i]]
  PROVE  NodeKeyed(G, lp, uq, n, b, m)
<1>1. isleafnode(G, n) <=> isleafnode(H, n)
  BY DEF SameContent, isleafnode
<1>2. CASE isleafnode(H, n)
  BY <1>1, <1>2 DEF NodeKeyed, SameContent
<1>3. CASE ~isleafnode(H, n)
  <2>1. PICK ks, cs : ks = H[n].keys /\ cs = H[n].child
    OBVIOUS
  <2>2. Kids(H, n) = cs /\ G[n].keys = ks /\ G[n].child = cs /\ Row(ks, cs, lo, up, b, m)
    BY <1>3, <2>1 DEF Kids, SameContent, NodeKeyed
  <2>3. ks \in Seq(Key) /\ cs \in Seq(NodeId)
    BY <1>3, <2>1, NodeIs
  <2>4. \A i \in 1 .. Len(cs) : lp[cs[i]] = lo[cs[i]] /\ uq[cs[i]] = up[cs[i]]
    BY <2>2
  <2>5. Len(ks) \in Nat /\ Len(cs) = Len(ks) + 1
    BY <2>2, <2>3 DEF Row
  <2>6. 1 \in 1 .. Len(cs) /\ Len(cs) \in 1 .. Len(cs)
        /\ \A i \in 1 .. Len(ks) : i \in 1 .. Len(cs) /\ i + 1 \in 1 .. Len(cs)
    BY <2>5
  <2>7. Row(ks, cs, lp, uq, b, m)
    BY <2>2, <2>4, <2>6 DEF Row
  <2> QED
    BY <1>1, <1>3, <2>2, <2>7 DEF NodeKeyed
<1> QED
  BY <1>2, <1>3

\* The nodes D change, and bounds of nodes X: none of these is the child of
\* another node than those of D.
Hung(H, root, S, D, X) ==
  \A x \in X : x = root \/ x \in S \/ \E p \in D \cap Allocated(H) : \E i \in 1 .. Len(Kids(H, p)) : Kids(H, p)[i] = x

LEMMA HungElsewhere ==
  ASSUME NEW H \in Heaps, NEW root, NEW S, NEW R, Tree(H, root, S, R), NEW D, NEW X,
         Hung(H, root, S, D, X), NEW n \in Allocated(H), n \notin D,
         NEW i \in 1 .. Len(Kids(H, n))
  PROVE  Kids(H, n)[i] \notin X
<1>1. Forest(Allocated(H), LevelsOf(H), KidsOf(H), ({root} \ {NULL}) \cup S, R)
  BY TreeIs
<1>2. /\ KidsOf(H)[n] = Kids(H, n) /\ Kids(H, n)[i] \in Allocated(H)
      /\ Kids(H, n)[i] \notin ({root} \ {NULL}) \cup S
  BY <1>1, KidsAre
<1>3. Kids(H, n)[i] # NULL
  BY <1>2, NodeAssumption DEF Allocated
<1>4. SUFFICES ASSUME Kids(H, n)[i] \in X
               PROVE  FALSE
  OBVIOUS
<1>5. PICK p \in D \cap Allocated(H) : \E j \in 1 .. Len(Kids(H, p)) : Kids(H, p)[j] = Kids(H, n)[i]
  BY <1>2, <1>3, <1>4 DEF Hung
<1>6. PICK j \in 1 .. Len(Kids(H, p)) : Kids(H, p)[j] = Kids(H, n)[i]
  BY <1>5
<1>7. KidsOf(H)[p] = Kids(H, p)
  BY <1>1, KidsAre
<1>8. p = n
  BY <1>1, <1>2, <1>6, <1>7, OneParent
<1> QED
  BY <1>8

LEMMA KeyedChange ==
  ASSUME NEW H \in Heaps, NEW root, NEW S, NEW R, Tree(H, root, S, R),
         NEW E, NEW lo, NEW hi, NEW up, Keyed(H, E, lo, hi, up),
         NEW G, NEW F, NEW D, NEW X, Hung(H, root, S, D, X),
         NEW lp \in [NodeId -> Int], NEW hp \in [NodeId -> Int], NEW uq \in [NodeId -> Int],
         \A n \in Allocated(G) \ (F \cup D) :
           n \notin E /\ SameContent(H, G, n) /\ lp[n] = lo[n] /\ hp[n] = hi[n],
         \A n \in Allocated(H) \ X : lp[n] = lo[n] /\ uq[n] = up[n],
         \A n \in Allocated(G) : n \in X \/ n \notin Allocated(H) => lp[n] <= uq[n],
         \A n \in Allocated(G) : n \in D /\ n \notin F => NodeKeyed(G, lp, uq, n, lp[n], hp[n])
  PROVE  Keyed(G, F, lp, hp, uq)
<1>1. ASSUME NEW n \in Allocated(G) \ F
      PROVE  NodeKeyed(G, lp, uq, n, lp[n], hp[n])
  <2>1. CASE n \in D
    BY <2>1
  <2>2. CASE n \notin D
    <3>1. n \notin E /\ SameContent(H, G, n) /\ lp[n] = lo[n] /\ hp[n] = hi[n] /\ n \in Allocated(H)
      BY <2>2 DEF SameContent
    <3>2. NodeKeyed(H, lo, up, n, lo[n], hi[n])
      BY <3>1 DEF Keyed
    <3>3. \A i \in 1 .. Len(Kids(H, n)) : Kids(H, n)[i] \in Allocated(H) /\ Kids(H, n)[i] \notin X
      BY <2>2, <3>1, HungElsewhere, KidsAre, TreeIs
    <3>4. \A i \in 1 .. Len(Kids(H, n)) :
            lp[Kids(H, n)[i]] = lo[Kids(H, n)[i]] /\ uq[Kids(H, n)[i]] = up[Kids(H, n)[i]]
      BY <3>3
    <3>5. NodeKeyed(G, lp, uq, n, lo[n], hi[n])
      BY <3>1, <3>2, <3>4, NodeKeyedSame
    <3> QED
      BY <3>1, <3>5
  <2> QED
    BY <2>1, <2>2
<1>2. \A n \in Allocated(G) : lp[n] <= uq[n]
  <2>1. TAKE n \in Allocated(G)
  <2>2. CASE n \in X \/ n \notin Allocated(H)
    BY <2>2
  <2>3. CASE n \notin X /\ n \in Allocated(H)
    BY <2>3 DEF Keyed
  <2> QED
    BY <2>2, <2>3
<1> QED
  BY <1>1, <1>2 DEF Keyed

\* The order after a change of the nodes D and of the bounds of the nodes X.
Moved(H, root, S, E, lo, hi, up, G, F, D, X, lp, hp, uq) ==
  /\ Keyed(H, E, lo, hi, up) /\ Hung(H, root, S, D, X)
  /\ lp \in [NodeId -> Int] /\ hp \in [NodeId -> Int] /\ uq \in [NodeId -> Int]
  /\ \A n \in Allocated(G) \ (F \cup D) :
       n \notin E /\ SameContent(H, G, n) /\ lp[n] = lo[n] /\ hp[n] = hi[n]
  /\ \A n \in Allocated(H) \ X : lp[n] = lo[n] /\ uq[n] = up[n]
  /\ \A n \in Allocated(G) : n \in X \/ n \notin Allocated(H) => lp[n] <= uq[n]
  /\ \A n \in Allocated(G) : n \in D /\ n \notin F => NodeKeyed(G, lp, uq, n, lp[n], hp[n])

LEMMA MovedKeyed ==
  ASSUME NEW H \in Heaps, NEW root, NEW S, NEW R, Tree(H, root, S, R),
         NEW E, NEW lo, NEW hi, NEW up, NEW G, NEW F, NEW D, NEW X, NEW lp, NEW hp, NEW uq,
         Moved(H, root, S, E, lo, hi, up, G, F, D, X, lp, hp, uq)
  PROVE  Keyed(G, F, lp, hp, uq)
<1>1. Keyed(H, E, lo, hi, up) /\ Hung(H, root, S, D, X)
  BY DEF Moved
<1>2. lp \in [NodeId -> Int] /\ hp \in [NodeId -> Int] /\ uq \in [NodeId -> Int]
  BY DEF Moved
<1>3. \A n \in Allocated(G) \ (F \cup D) :
        n \notin E /\ SameContent(H, G, n) /\ lp[n] = lo[n] /\ hp[n] = hi[n]
  BY DEF Moved
<1>4. \A n \in Allocated(H) \ X : lp[n] = lo[n] /\ uq[n] = up[n]
  BY DEF Moved
<1>5. \A n \in Allocated(G) : n \in X \/ n \notin Allocated(H) => lp[n] <= uq[n]
  BY DEF Moved
<1>6. \A n \in Allocated(G) : n \in D /\ n \notin F => NodeKeyed(G, lp, uq, n, lp[n], hp[n])
  BY DEF Moved
<1> QED
  BY <1>1, <1>2, <1>3, <1>4, <1>5, <1>6, KeyedChange

\* A child is in one place.
LEMMA KidOnce ==
  ASSUME NEW H \in Heaps, NEW root, NEW S, NEW R, Tree(H, root, S, R), NEW n \in Allocated(H),
         NEW i \in 1 .. Len(Kids(H, n)), NEW j \in 1 .. Len(Kids(H, n)), i # j
  PROVE  Kids(H, n)[i] # Kids(H, n)[j]
<1>1. Forest(Allocated(H), LevelsOf(H), KidsOf(H), ({root} \ {NULL}) \cup S, R)
  BY TreeIs
<1>2. KidsOf(H)[n] = Kids(H, n)
  BY <1>1, KidsAre
<1> QED
  BY <1>1, <1>2, OneParent

\* The keys and children of an inner node.
RowOf(H, p, ks, cs, lo, up, b, m) ==
  /\ ks = H[p].keys /\ cs = H[p].child /\ Kids(H, p) = cs
  /\ ks \in Seq(Key) /\ cs \in Seq(NodeId) /\ Len(ks) = slotuse(H, p) /\ Len(ks) \in Nat
  /\ Len(cs) = Len(ks) + 1
  /\ Row(ks, cs, lo, up, b, m)
  /\ \A i \in 1 .. Len(cs) : cs[i] \in Allocated(H) /\ cs[i] \in NodeId /\ cs[i] # p
  /\ \A i, j \in 1 .. Len(cs) : i # j => cs[i] # cs[j]

LEMMA RowOfNode ==
  ASSUME NEW H \in Heaps, NEW root, NEW S, NEW R, Tree(H, root, S, R), NEW p \in InnerNodes(H),
         NEW lo, NEW up, NEW b, NEW m, NodeKeyed(H, lo, up, p, b, m)
  PROVE  \E ks, cs : RowOf(H, p, ks, cs, lo, up, b, m)
<1>1. PICK ks, cs : ks = H[p].keys /\ cs = H[p].child
  OBVIOUS
<1>2. /\ p \in Allocated(H) /\ ~isleafnode(H, p) /\ Kids(H, p) = cs
      /\ ks \in Seq(Key) /\ cs \in Seq(NodeId) /\ Len(ks) = slotuse(H, p) /\ Len(ks) \in Nat
  BY <1>1, InnerNode
<1>3. Row(ks, cs, lo, up, b, m) /\ Len(cs) = Len(ks) + 1
  BY <1>1, <1>2 DEF NodeKeyed, Row
<1>4. Forest(Allocated(H), LevelsOf(H), KidsOf(H), ({root} \ {NULL}) \cup S, R)
  BY TreeIs
<1>5. ASSUME NEW i \in 1 .. Len(cs)
      PROVE  cs[i] \in Allocated(H) /\ cs[i] \in NodeId /\ cs[i] # p
  <2>1. Kids(H, p)[i] \in Allocated(H) /\ H[Kids(H, p)[i]].level = H[p].level - 1
    BY <1>2, <1>4, KidsAre
  <2>2. H[p].level \in Nat
    BY <1>2, NodeIs
  <2>3. cs[i] \in Allocated(H) /\ H[cs[i]].level = H[p].level - 1
    BY <2>1, <1>2
  <2> QED
    BY <2>2, <2>3 DEF Allocated
<1>6. \A i, j \in 1 .. Len(cs) : i # j => cs[i] # cs[j]
  BY <1>2, KidOnce
<1> QED
  BY <1>1, <1>2, <1>3, <1>5, <1>6 DEF RowOf

LEMMA RowNode ==
  ASSUME NEW H, NEW p, ~isleafnode(H, p), NEW lo, NEW up, NEW b, NEW m,
         Row(H[p].keys, H[p].child, lo, up, b, m)
  PROVE  NodeKeyed(H, lo, up, p, b, m)
BY DEF NodeKeyed

=============================================================================
