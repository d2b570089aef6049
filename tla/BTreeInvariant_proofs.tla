----------------------- MODULE BTreeInvariant_proofs -----------------------
(***************************************************************************)
(* The inductive invariant of BTree: the shape of the tree in each phase of *)
(* a call.  The actions of an insert and those of an erase on a leaf keep  *)
(* it.  Then the order of the keys: what it is in each phase, and what the *)
(* changes of a heap do to it.                                             *)
(***************************************************************************)
EXTENDS BTreeLemmas

-----------------------------------------------------------------------------
(* FlattenSeq                                                              *)

\* f[i] are the first i sequences of ss, one after the other.
Joinings(ss, f) ==
  /\ f[0] = <<>>
  /\ \A i \in 1 .. Len(ss) : f[i] = f[i - 1] \o ss[i]

IsFlatten(ss, f) ==
  f = [i \in 1 .. Len(ss) |-> IF i = 1 THEN ss[i] ELSE f[i - 1] \o ss[i]]

FlattensUpto(ss, n, f, k) ==
  /\ f = [i \in 1 .. n |-> f[i]]
  /\ \A i \in 1 .. n : i <= k => f[i] = IF i = 1 THEN ss[i] ELSE f[i - 1] \o ss[i]

LEMMA FlattenExists ==
  ASSUME NEW ss, Len(ss) \in Nat
  PROVE  \E f : IsFlatten(ss, f)
<1>n. PICK n \in Nat : n = Len(ss)
  OBVIOUS
<1> DEFINE S == {k \in Nat : \E f : FlattensUpto(ss, n, f, k)}
<1>1. 0 \in S
  <2>1. PICK f : f = [i \in 1 .. n |-> 0]
    OBVIOUS
  <2>2. f = [i \in 1 .. n |-> f[i]]
    BY <2>1
  <2>3. \A i \in 1 .. n : ~(i <= 0)
    OBVIOUS
  <2>4. FlattensUpto(ss, n, f, 0)
    BY <2>2, <2>3 DEF FlattensUpto
  <2> QED
    BY <2>4
<1>2. ASSUME NEW k \in Nat, k \in S PROVE k + 1 \in S
  <2>1. PICK f : FlattensUpto(ss, n, f, k)
    BY <1>2
  <2> DEFINE g == [i \in 1 .. n |-> IF i <= k THEN f[i] ELSE IF i = 1 THEN ss[i] ELSE f[i - 1] \o ss[i]]
  <2>2. \A i \in 1 .. n : g[i] = IF i <= k THEN f[i] ELSE IF i = 1 THEN ss[i] ELSE f[i - 1] \o ss[i]
    OBVIOUS
  <2>3. g = [i \in 1 .. n |-> g[i]]
    OBVIOUS
  <2> HIDE DEF g
  <2>4. ASSUME NEW i \in 1 .. n, i <= k + 1
        PROVE  g[i] = IF i = 1 THEN ss[i] ELSE g[i - 1] \o ss[i]
    <3>1. i # 1 => i - 1 \in 1 .. n /\ i - 1 <= k
      BY <2>4
    <3>2. i # 1 => g[i - 1] = f[i - 1]
      BY <2>2, <3>1
    <3>3. g[i] = IF i = 1 THEN ss[i] ELSE f[i - 1] \o ss[i]
      <4>1. CASE i <= k
        BY <2>1, <2>2, <4>1 DEF FlattensUpto
      <4>2. CASE ~(i <= k)
        BY <2>2, <4>2
      <4> QED
        BY <4>1, <4>2
    <3> QED
      BY <3>2, <3>3
  <2>5. FlattensUpto(ss, n, g, k + 1)
    BY <2>3, <2>4 DEF FlattensUpto
  <2> QED
    BY <2>5
<1> HIDE DEF S
<1>3. n \in S
  BY <1>1, <1>2, SetInduction
<1>4. PICK f : FlattensUpto(ss, n, f, n)
  BY <1>3 DEF S
<1>5. \A i \in 1 .. n : i <= n
  OBVIOUS
<1>6. f = [i \in 1 .. n |-> IF i = 1 THEN ss[i] ELSE f[i - 1] \o ss[i]]
  BY <1>4, <1>5 DEF FlattensUpto
<1>7. IsFlatten(ss, f)
  BY <1>n, <1>6 DEF IsFlatten
<1> QED
  BY <1>7

LEMMA FlattenIs ==
  ASSUME NEW S, NEW ss \in Seq(Seq(S))
  PROVE  \E f : Joinings(ss, f) /\ f[Len(ss)] = FlattenSeq(ss) /\ f \in [0 .. Len(ss) -> Seq(S)]
<1>1. Len(ss) \in Nat /\ \A i \in 1 .. Len(ss) : ss[i] \in Seq(S)
  OBVIOUS
<1> DEFINE g == CHOOSE f : IsFlatten(ss, f)
<1>2. IsFlatten(ss, g)
  BY <1>1, FlattenExists
<1>3. FlattenSeq(ss) = IF Len(ss) = 0 THEN ss ELSE g[Len(ss)]
  BY DEF FlattenSeq, IsFlatten
<1> HIDE DEF g
<1>4. \A i \in 1 .. Len(ss) : g[i] = IF i = 1 THEN ss[i] ELSE g[i - 1] \o ss[i]
  BY <1>2 DEF IsFlatten
<1> DEFINE f == [i \in 0 .. Len(ss) |-> IF i = 0 THEN <<>> ELSE g[i]]
<1>5. f[0] = <<>> /\ (\A i \in 1 .. Len(ss) : f[i] = g[i]) /\ f = [i \in 0 .. Len(ss) |-> f[i]]
  BY <1>1
<1> HIDE DEF f
<1>6. ASSUME NEW i \in 1 .. Len(ss) PROVE f[i] = f[i - 1] \o ss[i]
  <2>1. CASE i = 1
    <3>1. ss[1] \in Seq(S) /\ i - 1 = 0
      BY <1>1, <2>1
    <3>2. <<>> \o ss[1] = ss[1]
      BY <3>1
    <3> QED
      BY <1>4, <1>5, <2>1, <3>1, <3>2
  <2>2. CASE i # 1
    <3>1. i - 1 \in 1 .. Len(ss)
      BY <1>1, <2>2
    <3> QED
      BY <1>4, <1>5, <2>2, <3>1
  <2> QED
    BY <2>1, <2>2
<1>7. \A i \in 0 .. Len(ss) : f[i] \in Seq(S)
  <2>n. PICK n \in Nat : n = Len(ss)
    BY <1>1
  <2>s. PICK Q : Q = Seq(S)
    OBVIOUS
  <2> DEFINE T == {i \in 0 .. n : f[i] \in Q}
  <2>1. 0 \in T
    <3>1. <<>> \in Seq(S)
      OBVIOUS
    <3>2. f[0] = <<>>
      BY <1>5
    <3>3. f[0] \in Q
      BY <2>s, <3>1, <3>2
    <3> QED
      BY <3>3
  <2>2. ASSUME NEW i \in 0 .. n - 1, i \in T PROVE i + 1 \in T
    <3>1. i + 1 \in 1 .. Len(ss) /\ (i + 1) - 1 = i /\ i + 1 \in 0 .. n
      BY <2>n
    <3>2. f[i + 1] = f[i] \o ss[i + 1]
      BY <1>6, <3>1
    <3>3. f[i] \in Seq(S)
      BY <2>2, <2>s
    <3>4. ss[i + 1] \in Seq(S)
      BY <1>1, <3>1
    <3>5. f[i + 1] \in Seq(S)
      BY <3>2, <3>3, <3>4
    <3> QED
      BY <2>s, <3>1, <3>5
  <2> HIDE DEF T
  <2>3. \A i \in 0 .. n : i \in T
    BY <2>1, <2>2, RangeInduction
  <2> QED
    BY <2>3, <2>s, <2>n DEF T
<1>8. f[Len(ss)] = FlattenSeq(ss)
  <2>1. CASE Len(ss) = 0
    <3>1. ss = <<>>
      BY <2>1
    <3> QED
      BY <1>3, <1>5, <2>1, <3>1
  <2>2. CASE Len(ss) # 0
    <3>1. Len(ss) \in 1 .. Len(ss)
      BY <1>1, <2>2
    <3> QED
      BY <1>3, <1>5, <2>2, <3>1
  <2> QED
    BY <2>1, <2>2
<1>9. Joinings(ss, f)
  BY <1>5, <1>6 DEF Joinings
<1>10. f \in [0 .. Len(ss) -> Seq(S)]
  BY <1>5, <1>7
<1> QED
  BY <1>8, <1>9, <1>10

-----------------------------------------------------------------------------
(* Lists one after the other                                               *)

LEMMA ListsEmpty ==
  ASSUME NEW R
  PROVE  Lists(<<>>, {}, R)
BY DEF Lists

LEMMA ListsJoin ==
  ASSUME NEW R, NEW s, NEW L, Lists(s, L, R), NEW t, NEW M, Lists(t, M, R),
         \A x \in L, y \in M : y \in R[x]
  PROVE  Lists(s \o t, L \cup M, R)
<1>1. s \in Seq(L) /\ t \in Seq(M) /\ Len(s) \in Nat /\ Len(t) \in Nat
  BY ListIs
<1>s. /\ \A i \in 1 .. Len(s) : s[i] \in L
      /\ \A n \in L : \E i \in 1 .. Len(s) : s[i] = n
      /\ \A i, j \in 1 .. Len(s) : i < j => s[j] \in R[s[i]]
  BY ListIs
<1>t. /\ \A i \in 1 .. Len(t) : t[i] \in M
      /\ \A n \in M : \E i \in 1 .. Len(t) : t[i] = n
      /\ \A i, j \in 1 .. Len(t) : i < j => t[j] \in R[t[i]]
  BY ListIs
<1>2. s \in Seq(L \cup M) /\ t \in Seq(L \cup M)
  BY <1>1
<1> DEFINE u == s \o t
<1>3. u \in Seq(L \cup M) /\ Joins(u, s, t)
  BY <1>2, ConcatIs
<1> HIDE DEF u
<1>4. /\ Len(u) \in Nat
      /\ \A j \in 1 .. Len(s) : j \in 1 .. Len(u) /\ u[j] = s[j]
      /\ \A j \in 1 .. Len(t) : j + Len(s) \in 1 .. Len(u) /\ u[j + Len(s)] = t[j]
      /\ \A j \in 1 .. Len(u) : j > Len(s) => j - Len(s) \in 1 .. Len(t) /\ u[j] = t[j - Len(s)]
  BY <1>2, <1>3, JoinsElements
<1>5. ASSUME NEW n \in L \cup M PROVE \E i \in 1 .. Len(u) : u[i] = n
  <2>1. CASE n \in L
    BY <1>4, <1>s, <2>1
  <2>2. CASE n \in M
    <3>1. PICK j \in 1 .. Len(t) : t[j] = n
      BY <1>t, <2>2
    <3> QED
      BY <1>4, <3>1
  <2> QED
    BY <2>1, <2>2
<1>6. ASSUME NEW i \in 1 .. Len(u), NEW j \in 1 .. Len(u), i < j PROVE u[j] \in R[u[i]]
  <2>1. CASE j <= Len(s)
    <3>1. i \in 1 .. Len(s) /\ j \in 1 .. Len(s)
      BY <1>1, <1>4, <1>6, <2>1
    <3> QED
      BY <1>4, <1>6, <1>s, <3>1
  <2>2. CASE i > Len(s)
    <3>1. /\ i - Len(s) \in 1 .. Len(t) /\ u[i] = t[i - Len(s)]
          /\ j - Len(s) \in 1 .. Len(t) /\ u[j] = t[j - Len(s)]
      BY <1>1, <1>4, <1>6, <2>2
    <3>2. i - Len(s) < j - Len(s)
      BY <1>1, <1>4, <1>6
    <3> QED
      BY <1>t, <3>1, <3>2
  <2>3. CASE i <= Len(s) /\ j > Len(s)
    <3>1. i \in 1 .. Len(s) /\ u[i] = s[i] /\ u[i] \in L
      BY <1>1, <1>4, <1>s, <2>3
    <3>2. j - Len(s) \in 1 .. Len(t) /\ u[j] = t[j - Len(s)] /\ u[j] \in M
      BY <1>1, <1>4, <1>t, <2>3
    <3> QED
      BY <3>1, <3>2
  <2> QED
    BY <1>1, <1>4, <1>6, <2>1, <2>2, <2>3
<1>7. Lists(u, L \cup M, R)
  BY <1>3, <1>5, <1>6 DEF Lists
<1> QED
  BY <1>7 DEF u

\* Lists of sets that are in the order R one after the other.
LEMMA ListsFlatten ==
  ASSUME NEW R, NEW S, NEW ss \in Seq(Seq(S)), NEW LL,
         \A i \in 1 .. Len(ss) : Lists(ss[i], LL[i], R),
         \A i, j \in 1 .. Len(ss) : i < j => \A x \in LL[i], y \in LL[j] : y \in R[x]
  PROVE  Lists(FlattenSeq(ss), UNION {LL[i] : i \in 1 .. Len(ss)}, R)
<1>1. PICK f : Joinings(ss, f) /\ f[Len(ss)] = FlattenSeq(ss)
  BY FlattenIs
<1>2. PICK m \in Nat : m = Len(ss)
  OBVIOUS
<1> DEFINE U(k) == UNION {LL[i] : i \in 1 .. k}
           T == {k \in 0 .. m : Lists(f[k], U(k), R)}
<1>3. 0 \in T
  <2>1. U(0) = {}
    OBVIOUS
  <2>2. Lists(f[0], {}, R)
    BY <1>1, ListsEmpty DEF Joinings
  <2>3. Lists(f[0], U(0), R)
    BY <2>1, <2>2
  <2> HIDE DEF U
  <2> QED
    BY <2>3
<1>4. ASSUME NEW k \in 0 .. m - 1, k \in T PROVE k + 1 \in T
  <2>1. k + 1 \in 1 .. Len(ss) /\ k + 1 \in 0 .. m /\ (k + 1) - 1 = k
    BY <1>2
  <2>2. f[k + 1] = f[k] \o ss[k + 1]
    BY <1>1, <2>1 DEF Joinings
  <2>3. U(k + 1) = U(k) \cup LL[k + 1]
    <3>1. 1 .. k + 1 = (1 .. k) \cup {k + 1}
      BY <1>2
    <3> QED
      BY <3>1
  <2>4. \A x \in U(k), y \in LL[k + 1] : y \in R[x]
    <3> SUFFICES ASSUME NEW i \in 1 .. k, NEW x \in LL[i], NEW y \in LL[k + 1] PROVE y \in R[x]
      OBVIOUS
    <3>1. i \in 1 .. Len(ss) /\ i < k + 1
      BY <1>2
    <3> QED
      BY <2>1, <3>1
  <2>5. Lists(f[k], U(k), R)
    BY <1>4
  <2>6. Lists(ss[k + 1], LL[k + 1], R)
    BY <2>1
  <2> HIDE DEF U
  <2>7. Lists(f[k] \o ss[k + 1], U(k) \cup LL[k + 1], R)
    BY <2>4, <2>5, <2>6, ListsJoin
  <2> QED
    BY <2>1, <2>2, <2>3, <2>7
<1> HIDE DEF T
<1>5. \A k \in 0 .. m : k \in T
  BY <1>3, <1>4, RangeInduction
<1>6. m \in T
  BY <1>5
<1> QED
  BY <1>1, <1>2, <1>6 DEF T

-----------------------------------------------------------------------------
(* What is below a node                                                    *)

\* f[n] are n and the nodes below it, when the children of n are C[n].
IsBelow(A, C, f) == f = [n \in A |-> {n} \cup UNION {f[c] : c \in C[n]}]

\* Children are on lower levels, so there is such a function.
LEMMA BelowExists ==
  ASSUME NEW A, NEW lv \in [A -> Nat], NEW C \in [A -> SUBSET A],
         \A n \in A : \A c \in C[n] : lv[c] < lv[n], NEW m \in Nat, \A n \in A : lv[n] <= m
  PROVE  \E f : IsBelow(A, C, f)
<1> DEFINE Upto(f, k) == /\ f = [n \in A |-> f[n]]
                         /\ \A n \in A : lv[n] <= k => f[n] = {n} \cup UNION {f[c] : c \in C[n]}
           S == {k \in Nat : \E f : Upto(f, k)}
<1>1. 0 \in S
  <2> DEFINE f == [n \in A |-> {n}]
  <2>1. ASSUME NEW n \in A, lv[n] <= 0 PROVE f[n] = {n} \cup UNION {f[c] : c \in C[n]}
    <3>1. C[n] = {}
      <4> SUFFICES ASSUME NEW c \in C[n] PROVE FALSE
        OBVIOUS
      <4>1. c \in A /\ lv[c] < lv[n]
        OBVIOUS
      <4>2. lv[c] \in Nat /\ lv[n] \in Nat
        BY <4>1
      <4> QED
        BY <2>1, <4>1, <4>2
    <3> QED
      BY <3>1
  <2>2. f = [n \in A |-> f[n]]
    OBVIOUS
  <2> HIDE DEF f
  <2>3. Upto(f, 0)
    BY <2>1, <2>2
  <2> QED
    BY <2>3
<1>2. ASSUME NEW k \in Nat, k \in S
      PROVE  k + 1 \in S
  <2>1. PICK f : Upto(f, k)
    BY <1>2
  <2> DEFINE g == [n \in A |-> IF lv[n] <= k THEN f[n] ELSE {n} \cup UNION {f[c] : c \in C[n]}]
  <2>2. \A n \in A : g[n] = IF lv[n] <= k THEN f[n] ELSE {n} \cup UNION {f[c] : c \in C[n]}
    OBVIOUS
  <2>3. g = [n \in A |-> g[n]]
    OBVIOUS
  <2> HIDE DEF g
  <2>4. ASSUME NEW n \in A, lv[n] <= k + 1
        PROVE  g[n] = {n} \cup UNION {g[c] : c \in C[n]}
    <3>1. \A c \in C[n] : g[c] = f[c]
      <4> SUFFICES ASSUME NEW c \in C[n] PROVE g[c] = f[c]
        OBVIOUS
      <4>1. c \in A /\ lv[c] < lv[n]
        OBVIOUS
      <4>2. lv[c] \in Nat /\ lv[n] \in Nat
        BY <4>1
      <4>3. lv[c] <= k
        BY <2>4, <4>1, <4>2
      <4> QED
        BY <2>2, <4>1, <4>3
    <3>2. {g[c] : c \in C[n]} = {f[c] : c \in C[n]}
      BY <3>1
    <3>3. g[n] = {n} \cup UNION {f[c] : c \in C[n]}
      BY <2>1, <2>2
    <3> QED
      BY <3>2, <3>3
  <2>5. Upto(g, k + 1)
    BY <2>3, <2>4
  <2> QED
    BY <2>5
<1> HIDE DEF S
<1>3. m \in S
  BY <1>1, <1>2, SetInduction
<1>4. PICK f : Upto(f, m)
  BY <1>3 DEF S
<1>5. \A n \in A : f[n] = {n} \cup UNION {f[c] : c \in C[n]}
  BY <1>4
<1>6. f = [n \in A |-> f[n]]
  BY <1>4
<1>7. IsBelow(A, C, f)
  BY <1>5, <1>6 DEF IsBelow
<1> QED
  BY <1>7

\* All of them are nodes.
LEMMA BelowWithin ==
  ASSUME NEW A, NEW lv \in [A -> Nat], NEW C \in [A -> SUBSET A],
         \A n \in A : \A c \in C[n] : lv[c] < lv[n], NEW f, IsBelow(A, C, f)
  PROVE  \A m \in A : f[m] \subseteq A
<1>1. \A n \in A : f[n] = {n} \cup UNION {f[c] : c \in C[n]}
  BY DEF IsBelow
<1> DEFINE S == {lv[m] : m \in {n \in A : ~(f[n] \subseteq A)}}
<1>2. SUFFICES ASSUME S # {} PROVE FALSE
  OBVIOUS
<1>3. S \in SUBSET Nat
  OBVIOUS
<1>4. PICK k \in S : \A j \in S : k <= j
  <2> HIDE DEF S
  <2> QED
    BY <1>2, <1>3, LeastElement
<1>5. PICK m \in A : lv[m] = k /\ ~(f[m] \subseteq A)
  OBVIOUS
<1>6. ASSUME NEW c \in C[m] PROVE f[c] \subseteq A
  <2>1. c \in A /\ lv[c] < k
    BY <1>5
  <2>2. lv[c] \in Nat /\ k \in Nat
    BY <1>3, <2>1
  <2>3. lv[c] \notin S
    <3> HIDE DEF S
    <3> QED
      BY <1>4, <2>1, <2>2
  <2> QED
    BY <2>1, <2>3
<1>7. f[m] \subseteq A
  BY <1>1, <1>5, <1>6
<1> QED
  BY <1>5, <1>7

\* With the node that f[m] has, it has its children.
LEMMA BelowClosed ==
  ASSUME NEW A, NEW lv \in [A -> Nat], NEW C \in [A -> SUBSET A],
         \A n \in A : \A c \in C[n] : lv[c] < lv[n], NEW f, IsBelow(A, C, f)
  PROVE  \A m, n \in A : \A c \in C[n] : n \in f[m] => c \in f[m]
<1>1. \A n \in A : f[n] = {n} \cup UNION {f[c] : c \in C[n]}
  BY DEF IsBelow
<1> DEFINE S == {k \in Nat : \A m \in A : lv[m] <= k =>
                               \A n \in A : \A c \in C[n] : n \in f[m] => c \in f[m]}
<1>2. ASSUME NEW m \in A, NEW n \in A, NEW c \in C[n], n \in f[m],
             \A d \in C[m] : n \in f[d] => c \in f[d]
      PROVE  c \in f[m]
  <2>1. CASE n = m
    <3>1. c \in A
      OBVIOUS
    <3>2. c \in f[c]
      BY <1>1, <3>1
    <3> QED
      BY <1>1, <2>1, <3>2
  <2>2. CASE n # m
    <3>1. PICK d \in C[m] : n \in f[d]
      BY <1>1, <1>2, <2>2
    <3>2. c \in f[d]
      BY <1>2, <3>1
    <3> QED
      BY <1>1, <3>2
  <2> QED
    BY <2>1, <2>2
<1>3. 0 \in S
  <2> SUFFICES ASSUME NEW m \in A, lv[m] <= 0, NEW n \in A, NEW c \in C[n], n \in f[m] PROVE c \in f[m]
    OBVIOUS
  <2>1. ASSUME NEW d \in C[m] PROVE FALSE
    <3>1. d \in A /\ lv[d] < lv[m]
      BY <2>1
    <3>2. lv[d] \in Nat /\ lv[m] \in Nat
      BY <3>1
    <3> QED
      BY <3>1, <3>2
  <2> QED
    BY <1>2, <2>1
<1>4. ASSUME NEW k \in Nat, k \in S
      PROVE  k + 1 \in S
  <2> SUFFICES ASSUME NEW m \in A, lv[m] <= k + 1, NEW n \in A, NEW c \in C[n], n \in f[m] PROVE c \in f[m]
    OBVIOUS
  <2>1. ASSUME NEW d \in C[m], n \in f[d] PROVE c \in f[d]
    <3>1. d \in A /\ lv[d] < lv[m]
      BY <2>1
    <3>2. lv[d] \in Nat /\ lv[m] \in Nat
      BY <3>1
    <3>3. lv[d] <= k
      BY <3>1, <3>2
    <3> QED
      BY <1>4, <2>1, <3>1, <3>3
  <2> QED
    BY <1>2, <2>1
<1> HIDE DEF S
<1>5. \A k \in Nat : k \in S
  BY <1>3, <1>4, SetInduction
<1>6. \A m \in A : lv[m] \in S
  BY <1>5
<1>7. ASSUME NEW m \in A PROVE \A n \in A : \A c \in C[n] : n \in f[m] => c \in f[m]
  <2>1. lv[m] \in S /\ lv[m] \in Nat /\ lv[m] <= lv[m]
    BY <1>6
  <2> QED
    BY <2>1 DEF S
<1> QED
  BY <1>7

\* When every node but root is a child, all are below root.
LEMMA BelowRoot ==
  ASSUME NEW A, NEW lv \in [A -> Nat], NEW C \in [A -> SUBSET A],
         \A n \in A : \A c \in C[n] : lv[c] < lv[n], NEW f, IsBelow(A, C, f),
         NEW root \in A, \A n \in A : lv[n] <= lv[root],
         \A n \in A \ {root} : \E p \in A : n \in C[p]
  PROVE  A \subseteq f[root]
<1> DEFINE S == {k \in Nat : \A n \in A : lv[root] - k <= lv[n] => n \in f[root]}
<1>1. \A m, n \in A : \A c \in C[n] : n \in f[m] => c \in f[m]
  BY BelowClosed
<1>2. root \in f[root]
  BY DEF IsBelow
<1>3. ASSUME NEW n \in A, n # root PROVE \E p \in A : n \in C[p] /\ lv[n] < lv[p]
  BY <1>3
<1>4. 0 \in S
  <2> SUFFICES ASSUME NEW n \in A, lv[root] - 0 <= lv[n] PROVE n \in f[root]
    OBVIOUS
  <2>1. CASE n = root
    BY <1>2, <2>1
  <2>2. CASE n # root
    <3>1. PICK p \in A : n \in C[p] /\ lv[n] < lv[p]
      BY <1>3, <2>2
    <3>2. lv[p] <= lv[root] /\ lv[p] \in Nat /\ lv[n] \in Nat /\ lv[root] \in Nat
      OBVIOUS
    <3> QED
      BY <3>1, <3>2
  <2> QED
    BY <2>1, <2>2
<1>5. ASSUME NEW k \in Nat, k \in S
      PROVE  k + 1 \in S
  <2> SUFFICES ASSUME NEW n \in A, lv[root] - (k + 1) <= lv[n] PROVE n \in f[root]
    OBVIOUS
  <2>1. CASE n = root
    BY <1>2, <2>1
  <2>2. CASE n # root
    <3>1. PICK p \in A : n \in C[p] /\ lv[n] < lv[p]
      BY <1>3, <2>2
    <3>2. lv[p] \in Nat /\ lv[n] \in Nat /\ lv[root] \in Nat
      OBVIOUS
    <3>3. lv[root] - k <= lv[p]
      BY <3>1, <3>2
    <3>4. p \in f[root]
      BY <1>5, <3>3
    <3> QED
      BY <1>1, <3>1, <3>4
  <2> QED
    BY <2>1, <2>2
<1> HIDE DEF S
<1>6. \A k \in Nat : k \in S
  BY <1>4, <1>5, SetInduction
<1>7. lv[root] \in S /\ lv[root] \in Nat
  BY <1>6
<1> SUFFICES ASSUME NEW n \in A PROVE n \in f[root]
  OBVIOUS
<1>8. lv[n] \in Nat /\ lv[root] - lv[root] <= lv[n]
  BY <1>7
<1> QED
  BY <1>7, <1>8 DEF S

-----------------------------------------------------------------------------
(* The leaves below the nodes of a forest                                  *)

\* V[n] are the leaves below n.
LeafSets(A, lv, K, V) ==
  \A n \in A : V[n] = IF lv[n] = 0 THEN {n} ELSE UNION {V[K[n][i]] : i \in 1 .. Len(K[n])}

\* f[n] are the leaves below n, from left to right.
IsLeafLists(A, lv, K, f) ==
  f = [n \in A |-> IF lv[n] = 0 THEN <<n>> ELSE FlattenSeq([i \in DOMAIN K[n] |-> f[K[n][i]]])]

KidSets(A, K) == [n \in A |-> {K[n][i] : i \in 1 .. Len(K[n])}]

LEMMA KidSetsAre ==
  ASSUME NEW A, NEW lv, NEW K, NEW X, NEW R, Forest(A, lv, K, X, R), NEW C, C = KidSets(A, K)
  PROVE  /\ lv \in [A -> Nat] /\ C \in [A -> SUBSET A]
         /\ \A n \in A : C[n] = {K[n][i] : i \in 1 .. Len(K[n])}
         /\ \A n \in A : \A c \in C[n] : lv[c] < lv[n]
<1>1. lv \in [A -> Nat] /\ \A n \in A : \A i \in 1 .. Len(K[n]) : K[n][i] \in A
  BY ForestTypes DEF Forest, ForestKids
<1>2. \A n \in A : C[n] = {K[n][i] : i \in 1 .. Len(K[n])}
  BY DEF KidSets
<1>3. C \in [A -> SUBSET A]
  BY <1>1 DEF KidSets
<1>4. ASSUME NEW n \in A, NEW c \in C[n] PROVE lv[c] < lv[n]
  <2>1. PICK i \in 1 .. Len(K[n]) : c = K[n][i]
    BY <1>2, <1>4
  <2>2. lv[c] = lv[n] - 1
    BY <2>1 DEF Forest, ForestKids
  <2>3. lv[n] \in Nat
    BY <1>1
  <2> QED
    BY <2>2, <2>3
<1> QED
  BY <1>1, <1>2, <1>3, <1>4

\* The sets from the nodes below.
LEMMA LeafSetsExist ==
  ASSUME NEW A, NEW lv, NEW K, NEW root \in A, NEW R, Forest(A, lv, K, {root}, R),
         \A n \in A : lv[n] <= lv[root]
  PROVE  \E V : LeafSets(A, lv, K, V) /\ V[root] = {n \in A : lv[n] = 0} /\ V \in [A -> SUBSET A]
<1>c. PICK C : C = KidSets(A, K)
  OBVIOUS
<1>1. /\ lv \in [A -> Nat] /\ C \in [A -> SUBSET A]
      /\ \A n \in A : C[n] = {K[n][i] : i \in 1 .. Len(K[n])}
      /\ \A n \in A : \A c \in C[n] : lv[c] < lv[n]
  BY <1>c, KidSetsAre
<1>2. lv[root] \in Nat
  BY <1>1
<1>3. PICK g : IsBelow(A, C, g)
  BY <1>1, <1>2, BelowExists
<1>4. \A m \in A : g[m] \subseteq A
  BY <1>1, <1>3, BelowWithin
<1>5. A \subseteq g[root]
  <2>1. \A n \in A \ {root} : \E p \in A : n \in C[p]
    BY <1>1 DEF Forest, HasParent
  <2> QED
    BY <1>1, <1>3, <2>1, BelowRoot
<1>6. \A n \in A : g[n] = {n} \cup UNION {g[c] : c \in C[n]}
  BY <1>3 DEF IsBelow
<1> DEFINE V == [n \in A |-> {m \in g[n] : lv[m] = 0}]
<1>7. \A n \in A : V[n] = {m \in g[n] : lv[m] = 0}
  OBVIOUS
<1>8. V \in [A -> SUBSET A]
  BY <1>4
<1> HIDE DEF V
<1>9. ASSUME NEW n \in A
      PROVE  V[n] = IF lv[n] = 0 THEN {n} ELSE UNION {V[K[n][i]] : i \in 1 .. Len(K[n])}
  <2>1. CASE lv[n] = 0
    <3>1. C[n] = {}
      <4> SUFFICES ASSUME NEW c \in C[n] PROVE FALSE
        OBVIOUS
      <4>1. c \in A /\ lv[c] < lv[n] /\ lv[c] \in Nat
        BY <1>1
      <4> QED
        BY <2>1, <4>1
    <3>2. g[n] = {n}
      BY <1>6, <3>1
    <3> QED
      BY <1>7, <2>1, <3>2
  <2>2. CASE lv[n] # 0
    <3>1. \A c \in C[n] : c \in A
      BY <1>1
    <3>2. V[n] = UNION {V[c] : c \in C[n]}
      BY <1>6, <1>7, <2>2, <3>1
    <3>3. {V[c] : c \in C[n]} = {V[K[n][i]] : i \in 1 .. Len(K[n])}
      BY <1>1
    <3> QED
      BY <2>2, <3>2, <3>3
  <2> QED
    BY <2>1, <2>2
<1>10. V[root] = {n \in A : lv[n] = 0}
  BY <1>4, <1>5, <1>7
<1> QED
  BY <1>8, <1>9, <1>10 DEF LeafSets

\* A node on the bottom level has no children.
LEMMA NoKids ==
  ASSUME NEW A, NEW lv, NEW K, NEW X, NEW R, Forest(A, lv, K, X, R), NEW n \in A, lv[n] = 0
  PROVE  Len(K[n]) = 0
<1>1. Len(K[n]) \in Nat /\ \A i \in 1 .. Len(K[n]) : K[n][i] \in A
  BY ForestTypes
<1>2. ASSUME Len(K[n]) # 0 PROVE FALSE
  <2>1. 1 \in 1 .. Len(K[n])
    BY <1>1, <1>2
  <2>2. lv[K[n][1]] = lv[n] - 1 /\ K[n][1] \in A
    BY <1>1, <2>1 DEF Forest, ForestKids
  <2>3. lv[K[n][1]] \in Nat
    BY <2>2, ForestTypes
  <2> QED
    BY <2>2, <2>3
<1> QED
  BY <1>2

\* The leaves below a node right of another are right of those of that one.
LEMMA LeavesOrder ==
  ASSUME NEW A, NEW lv, NEW K, NEW X, NEW R, Forest(A, lv, K, X, R),
         NEW V, LeafSets(A, lv, K, V)
  PROVE  \A a, b \in A : b \in R[a] => \A x \in V[a], y \in V[b] : y \in R[x]
<1> DEFINE T == {k \in Nat : \A a, b \in A : lv[a] = k /\ b \in R[a] =>
                               \A x \in V[a], y \in V[b] : y \in R[x]}
<1>0. \A n \in A : lv[n] \in Nat
  BY ForestTypes
<1>o. \A a, b \in A : b \in R[a] => lv[b] = lv[a]
  BY DEF Forest, LevelOrder
<1>1. 0 \in T
  <2> SUFFICES ASSUME NEW a \in A, NEW b \in A, lv[a] = 0, b \in R[a], NEW x \in V[a], NEW y \in V[b]
               PROVE  y \in R[x]
    OBVIOUS
  <2>1. lv[b] = 0
    BY <1>o
  <2>2. x = a /\ y = b
    BY <2>1 DEF LeafSets
  <2> QED
    BY <2>2
<1>2. ASSUME NEW k \in Nat, k \in T PROVE k + 1 \in T
  <2> SUFFICES ASSUME NEW a \in A, NEW b \in A, lv[a] = k + 1, b \in R[a], NEW x \in V[a], NEW y \in V[b]
               PROVE  y \in R[x]
    OBVIOUS
  <2>1. lv[b] = k + 1 /\ k + 1 # 0
    BY <1>o
  <2>2. PICK i \in 1 .. Len(K[a]) : x \in V[K[a][i]]
    <3>1. V[a] = UNION {V[K[a][h]] : h \in 1 .. Len(K[a])}
      BY <2>1 DEF LeafSets
    <3> QED
      BY <3>1
  <2>3. PICK j \in 1 .. Len(K[b]) : y \in V[K[b][j]]
    <3>1. V[b] = UNION {V[K[b][h]] : h \in 1 .. Len(K[b])}
      BY <2>1 DEF LeafSets
    <3> QED
      BY <3>1
  <2>4. K[a][i] \in A /\ K[b][j] \in A
    BY ForestTypes
  <2>5. lv[K[a][i]] = lv[a] - 1
    BY DEF Forest, ForestKids
  <2>6. lv[K[a][i]] = k
    BY <2>5
  <2>7. K[b][j] \in R[K[a][i]]
    BY DEF Forest, KidsOrder
  <2> QED
    BY <1>2, <2>2, <2>3, <2>4, <2>6, <2>7
<1> HIDE DEF T
<1>3. \A k \in Nat : k \in T
  BY <1>1, <1>2, SetInduction
<1> SUFFICES ASSUME NEW a \in A, NEW b \in A, b \in R[a]
             PROVE  \A x \in V[a], y \in V[b] : y \in R[x]
  OBVIOUS
<1>4. lv[a] \in T
  BY <1>0, <1>3
<1> QED
  BY <1>4 DEF T

\* The lists of leaves below the children of n.
KidLists(K, f, n) == [i \in DOMAIN K[n] |-> f[K[n][i]]]

LeafListsUpto(A, lv, K, f, k) ==
  /\ f = [n \in A |-> f[n]]
  /\ \A n \in A : lv[n] <= k => f[n] = IF lv[n] = 0 THEN <<n>> ELSE FlattenSeq(KidLists(K, f, n))

LEMMA LeafListsExist ==
  ASSUME NEW A, NEW lv, NEW K, NEW X, NEW R, Forest(A, lv, K, X, R),
         NEW m \in Nat, \A n \in A : lv[n] <= m
  PROVE  \E f : IsLeafLists(A, lv, K, f)
<1> DEFINE T == {k \in Nat : \E f : LeafListsUpto(A, lv, K, f, k)}
<1>0. \A n \in A : lv[n] \in Nat
  BY ForestTypes
<1>1. 0 \in T
  <2>1. PICK f : f = [n \in A |-> <<n>>]
    OBVIOUS
  <2>2. f = [n \in A |-> f[n]] /\ \A n \in A : f[n] = <<n>>
    BY <2>1
  <2>3. \A n \in A : lv[n] <= 0 => lv[n] = 0
    BY <1>0
  <2>4. LeafListsUpto(A, lv, K, f, 0)
    BY <2>2, <2>3 DEF LeafListsUpto
  <2> QED
    BY <2>4
<1>2. ASSUME NEW k \in Nat, k \in T PROVE k + 1 \in T
  <2>1. PICK f : LeafListsUpto(A, lv, K, f, k)
    BY <1>2
  <2> DEFINE g == [n \in A |-> IF lv[n] <= k THEN f[n] ELSE FlattenSeq(KidLists(K, f, n))]
  <2>2. \A n \in A : g[n] = IF lv[n] <= k THEN f[n] ELSE FlattenSeq(KidLists(K, f, n))
    OBVIOUS
  <2>3. g = [n \in A |-> g[n]]
    OBVIOUS
  <2> HIDE DEF g
  <2>4. ASSUME NEW n \in A, lv[n] <= k + 1
        PROVE  g[n] = IF lv[n] = 0 THEN <<n>> ELSE FlattenSeq(KidLists(K, g, n))
    <3>1. \A i \in DOMAIN K[n] : g[K[n][i]] = f[K[n][i]]
      <4> SUFFICES ASSUME NEW i \in DOMAIN K[n] PROVE g[K[n][i]] = f[K[n][i]]
        OBVIOUS
      <4>1. i \in 1 .. Len(K[n])
        BY ForestTypes
      <4>2. K[n][i] \in A
        BY <4>1, ForestTypes
      <4>3. lv[K[n][i]] = lv[n] - 1
        BY <4>1 DEF Forest, ForestKids
      <4>4. lv[K[n][i]] <= k
        BY <1>0, <2>4, <4>2, <4>3
      <4> QED
        BY <2>2, <4>2, <4>4
    <3>2. KidLists(K, g, n) = KidLists(K, f, n)
      BY <3>1 DEF KidLists
    <3>3. g[n] = IF lv[n] = 0 THEN <<n>> ELSE FlattenSeq(KidLists(K, f, n))
      <4>1. CASE lv[n] <= k
        BY <2>1, <2>2, <4>1 DEF LeafListsUpto
      <4>2. CASE ~(lv[n] <= k)
        <5>1. lv[n] # 0
          BY <4>2
        <5> QED
          BY <2>2, <4>2, <5>1
      <4> QED
        BY <4>1, <4>2
    <3> QED
      BY <3>2, <3>3
  <2>5. LeafListsUpto(A, lv, K, g, k + 1)
    BY <2>3, <2>4 DEF LeafListsUpto
  <2> QED
    BY <2>5
<1> HIDE DEF T
<1>3. m \in T
  BY <1>1, <1>2, SetInduction
<1>4. PICK f : LeafListsUpto(A, lv, K, f, m)
  BY <1>3 DEF T
<1>5. f = [n \in A |-> IF lv[n] = 0 THEN <<n>> ELSE FlattenSeq(KidLists(K, f, n))]
  BY <1>4 DEF LeafListsUpto
<1>6. IsLeafLists(A, lv, K, f)
  BY <1>5 DEF IsLeafLists, KidLists
<1> QED
  BY <1>6

LEMMA ListOfOne ==
  ASSUME NEW R, NEW n
  PROVE  Lists(<<n>>, {n}, R)
<1>1. <<n>> \in Seq({n}) /\ Len(<<n>>) = 1 /\ <<n>>[1] = n
  OBVIOUS
<1>2. \A m \in {n} : \E i \in 1 .. Len(<<n>>) : <<n>>[i] = m
  <2>1. 1 \in 1 .. Len(<<n>>)
    BY <1>1
  <2> QED
    BY <1>1, <2>1
<1>3. \A i, j \in 1 .. Len(<<n>>) : ~(i < j)
  BY <1>1
<1> QED
  BY <1>1, <1>2, <1>3 DEF Lists

\* They are the leaves below n, in their order.
LEMMA LeafListsAre ==
  ASSUME NEW A, NEW lv, NEW K, NEW X, NEW R, Forest(A, lv, K, X, R),
         NEW V, LeafSets(A, lv, K, V), V \in [A -> SUBSET A], NEW f, IsLeafLists(A, lv, K, f)
  PROVE  \A n \in A : Lists(f[n], V[n], R)
<1> DEFINE T == {k \in Nat : \A n \in A : lv[n] = k => Lists(f[n], V[n], R)}
<1>0. \A n \in A : lv[n] \in Nat
  BY ForestTypes
<1>o. \A a, b \in A : b \in R[a] => \A x \in V[a], y \in V[b] : y \in R[x]
  BY LeavesOrder
<1>a. \A n \in A : f[n] = IF lv[n] = 0 THEN <<n>> ELSE FlattenSeq(KidLists(K, f, n))
  BY DEF IsLeafLists, KidLists
<1>1. 0 \in T
  <2> SUFFICES ASSUME NEW n \in A, lv[n] = 0 PROVE Lists(f[n], V[n], R)
    OBVIOUS
  <2>1. f[n] = <<n>>
    BY <1>a
  <2>2. V[n] = {n}
    BY DEF LeafSets
  <2> QED
    BY <2>1, <2>2, ListOfOne
<1>2. ASSUME NEW k \in Nat, k \in T PROVE k + 1 \in T
  <2> SUFFICES ASSUME NEW n \in A, lv[n] = k + 1 PROVE Lists(f[n], V[n], R)
    OBVIOUS
  <2>0. lv[n] # 0
    OBVIOUS
  <2>1. f[n] = FlattenSeq(KidLists(K, f, n))
    BY <1>a, <2>0
  <2>2. V[n] = UNION {V[K[n][i]] : i \in 1 .. Len(K[n])}
    BY DEF LeafSets
  <2>3. Len(K[n]) \in Nat /\ DOMAIN K[n] = 1 .. Len(K[n])
    BY ForestTypes
  <2>4. ASSUME NEW i \in 1 .. Len(K[n]) PROVE K[n][i] \in A /\ Lists(f[K[n][i]], V[K[n][i]], R)
    <3>1. K[n][i] \in A
      BY ForestTypes
    <3>2. lv[K[n][i]] = lv[n] - 1
      BY DEF Forest, ForestKids
    <3>3. lv[K[n][i]] = k
      BY <3>2
    <3> QED
      BY <1>2, <3>1, <3>3
  <2> DEFINE ss == KidLists(K, f, n)
             LL == [i \in 1 .. Len(K[n]) |-> V[K[n][i]]]
  <2>5. ss \in Seq(Seq(A)) /\ Len(ss) = Len(K[n]) /\ \A i \in 1 .. Len(K[n]) : ss[i] = f[K[n][i]]
    <3>1. \A i \in 1 .. Len(K[n]) : f[K[n][i]] \in Seq(A)
      <4> SUFFICES ASSUME NEW i \in 1 .. Len(K[n]) PROVE f[K[n][i]] \in Seq(A)
        OBVIOUS
      <4>1. f[K[n][i]] \in Seq(V[K[n][i]]) /\ V[K[n][i]] \subseteq A
        BY <2>4 DEF Lists
      <4> QED
        BY <4>1
    <3>2. ss = [i \in 1 .. Len(K[n]) |-> f[K[n][i]]]
      BY <2>3 DEF KidLists
    <3> HIDE DEF ss
    <3>3. PICK h \in Nat : h = Len(K[n])
      BY <2>3
    <3>4. PICK Q : Q = Seq(A)
      OBVIOUS
    <3>5. ss \in [1 .. h -> Q]
      BY <3>1, <3>2, <3>3, <3>4
    <3>6. ss \in Seq(Q) /\ Len(ss) = h
      BY <3>5
    <3> QED
      BY <3>2, <3>3, <3>4, <3>6
  <2>6. \A i \in 1 .. Len(K[n]) : LL[i] = V[K[n][i]]
    OBVIOUS
  <2> HIDE DEF ss, LL
  <2>7. \A i \in 1 .. Len(ss) : Lists(ss[i], LL[i], R)
    BY <2>4, <2>5, <2>6
  <2>8. ASSUME NEW i \in 1 .. Len(ss), NEW j \in 1 .. Len(ss), i < j
        PROVE  \A x \in LL[i], y \in LL[j] : y \in R[x]
    <3>1. K[n][j] \in R[K[n][i]]
      BY <2>5, <2>8 DEF Forest, KidsOrder
    <3> QED
      BY <1>o, <2>4, <2>5, <2>6, <3>1
  <2>9. Lists(FlattenSeq(ss), UNION {LL[i] : i \in 1 .. Len(ss)}, R)
    <3>1. ss \in Seq(Seq(A))
      BY <2>5
    <3>2. \A i, j \in 1 .. Len(ss) : i < j => \A x \in LL[i], y \in LL[j] : y \in R[x]
      BY <2>8
    <3> QED
      BY <2>7, <3>1, <3>2, ListsFlatten
  <2>10. UNION {LL[i] : i \in 1 .. Len(ss)} = V[n]
    <3>1. Len(ss) = Len(K[n])
      BY <2>5
    <3>2. {LL[i] : i \in 1 .. Len(K[n])} = {V[K[n][i]] : i \in 1 .. Len(K[n])}
      BY <2>6
    <3> QED
      BY <2>2, <3>1, <3>2
  <2> QED
    BY <2>1, <2>9, <2>10 DEF ss
<1> HIDE DEF T
<1>3. \A k \in Nat : k \in T
  BY <1>1, <1>2, SetInduction
<1> SUFFICES ASSUME NEW n \in A PROVE Lists(f[n], V[n], R)
  OBVIOUS
<1>4. lv[n] \in T
  BY <1>0, <1>3
<1> QED
  BY <1>4 DEF T

-----------------------------------------------------------------------------
(* Following the links                                                     *)

\* from[<<k, n>>] are the first k nodes of L from n on.
ChainStep(L, nx, from, k, n) ==
  IF k = 0 \/ n \notin L THEN <<>> ELSE <<n>> \o from[<<k - 1, nx[n]>>]

IsChain(L, D, nx, C, from) ==
  from = [r \in (0 .. C) \X D |-> ChainStep(L, nx, from, r[1], r[2])]

ChainUpto(L, D, nx, C, from, m) ==
  /\ from = [r \in (0 .. C) \X D |-> from[r]]
  /\ \A k \in 0 .. C, n \in D : k <= m => from[<<k, n>>] = ChainStep(L, nx, from, k, n)

LEMMA ChainExists ==
  ASSUME NEW L, NEW D, NEW nx, NEW C \in Nat, \A n \in L : nx[n] \in D
  PROVE  \E from : IsChain(L, D, nx, C, from)
<1> DEFINE T == {m \in Nat : \E f : ChainUpto(L, D, nx, C, f, m)}
<1>1. 0 \in T
  <2>1. PICK f : f = [r \in (0 .. C) \X D |-> <<>>]
    OBVIOUS
  <2>2. f = [r \in (0 .. C) \X D |-> f[r]] /\ \A k \in 0 .. C, n \in D : f[<<k, n>>] = <<>>
    BY <2>1
  <2>3. \A k \in 0 .. C : k <= 0 => k = 0
    OBVIOUS
  <2>4. ChainUpto(L, D, nx, C, f, 0)
    BY <2>2, <2>3 DEF ChainUpto, ChainStep
  <2> QED
    BY <2>4
<1>2. ASSUME NEW m \in Nat, m \in T PROVE m + 1 \in T
  <2>1. PICK f : ChainUpto(L, D, nx, C, f, m)
    BY <1>2
  <2> DEFINE g == [r \in (0 .. C) \X D |-> IF r[1] <= m THEN f[r] ELSE ChainStep(L, nx, f, r[1], r[2])]
  <2>2. \A k \in 0 .. C, n \in D :
          g[<<k, n>>] = IF k <= m THEN f[<<k, n>>] ELSE ChainStep(L, nx, f, k, n)
    OBVIOUS
  <2>3. g = [r \in (0 .. C) \X D |-> g[r]]
    OBVIOUS
  <2> HIDE DEF g
  <2>4. ASSUME NEW k \in 0 .. C, NEW n \in D, k <= m + 1
        PROVE  g[<<k, n>>] = ChainStep(L, nx, g, k, n)
    <3>1. k # 0 /\ n \in L => g[<<k - 1, nx[n]>>] = f[<<k - 1, nx[n]>>]
      <4> SUFFICES ASSUME k # 0, n \in L PROVE g[<<k - 1, nx[n]>>] = f[<<k - 1, nx[n]>>]
        OBVIOUS
      <4>1. k - 1 \in 0 .. C /\ k - 1 <= m
        BY <2>4
      <4>2. nx[n] \in D
        OBVIOUS
      <4> QED
        BY <2>2, <4>1, <4>2
    <3>2. ChainStep(L, nx, g, k, n) = ChainStep(L, nx, f, k, n)
      BY <3>1 DEF ChainStep
    <3>3. k <= m => f[<<k, n>>] = ChainStep(L, nx, f, k, n)
      BY <2>1 DEF ChainUpto
    <3> QED
      BY <2>2, <3>2, <3>3
  <2>5. ChainUpto(L, D, nx, C, g, m + 1)
    BY <2>3, <2>4 DEF ChainUpto
  <2> QED
    BY <2>5
<1> HIDE DEF T
<1>3. C \in T
  BY <1>1, <1>2, SetInduction
<1>4. PICK f : ChainUpto(L, D, nx, C, f, C)
  BY <1>3 DEF T
<1>5. \A k \in 0 .. C, n \in D : f[<<k, n>>] = ChainStep(L, nx, f, k, n)
  <2>1. \A k \in 0 .. C : k <= C
    OBVIOUS
  <2> QED
    BY <1>4, <2>1 DEF ChainUpto
<1>6. \A r \in (0 .. C) \X D : f[r] = ChainStep(L, nx, f, r[1], r[2])
  BY <1>5
<1>7. f = [r \in (0 .. C) \X D |-> f[r]]
  BY <1>4 DEF ChainUpto
<1>8. f = [r \in (0 .. C) \X D |-> ChainStep(L, nx, f, r[1], r[2])]
  BY <1>6, <1>7
<1> QED
  BY <1>8 DEF IsChain

Follows(from, C, s) == from[<<C, s[1]>>] = s

\* From the first element of a linked list on they are the list.
LEMMA ChainFrom ==
  ASSUME NEW L, NEW D, L \subseteq D, NEW nx, NEW pv, NEW z \in D, z \notin L, NEW C \in Nat,
         NEW from, IsChain(L, D, nx, C, from),
         NEW s \in Seq(L), LinkedList(s, nx, pv, z), Len(s) <= C, s # <<>>
  PROVE  Follows(from, C, s)
<1>n. PICK n \in Nat : n = Len(s)
  OBVIOUS
<1>s. \A i \in 1 .. n : s[i] \in L
  BY <1>n
<1>1. \A k \in 0 .. C, m \in D : from[<<k, m>>] = ChainStep(L, nx, from, k, m)
  BY DEF IsChain
<1>2. \A i \in 1 .. n : nx[s[i]] = IF i = n THEN z ELSE s[i + 1]
  BY <1>n DEF LinkedList
<1> DEFINE T == {i \in 1 .. n : from[<<C + 1 - i, s[i]>>] = SubSeq(s, i, n)}
<1>3. ASSUME NEW i \in 1 .. n, \A j \in i + 1 .. n : j \in T PROVE i \in T
  <2>1. C + 1 - i \in 0 .. C /\ C + 1 - i # 0 /\ (C + 1 - i) - 1 = C - i /\ C - i \in 0 .. C
    BY <1>n
  <2>2. s[i] \in L /\ s[i] \in D
    BY <1>s
  <2>3. from[<<C + 1 - i, s[i]>>] = <<s[i]>> \o from[<<C - i, nx[s[i]]>>]
    BY <1>1, <2>1, <2>2 DEF ChainStep
  <2>4. CASE i = n
    <3>1. from[<<C - i, z>>] = <<>>
      BY <1>1, <2>1 DEF ChainStep
    <3>2. from[<<C + 1 - i, s[i]>>] = <<s[i]>> \o <<>>
      BY <1>2, <2>3, <2>4, <3>1
    <3>3. <<s[i]>> \o <<>> = SubSeq(s, i, n)
      BY <1>n, <2>2, <2>4
    <3> QED
      BY <3>2, <3>3
  <2>5. CASE i # n
    <3>1. i + 1 \in i + 1 .. n /\ i + 1 \in 1 .. n /\ C + 1 - (i + 1) = C - i
      BY <2>5
    <3>2. from[<<C - i, s[i + 1]>>] = SubSeq(s, i + 1, n)
      BY <1>3, <3>1
    <3>3. from[<<C + 1 - i, s[i]>>] = <<s[i]>> \o SubSeq(s, i + 1, n)
      BY <1>2, <2>3, <2>5, <3>2
    <3>4. <<s[i]>> \o SubSeq(s, i + 1, n) = SubSeq(s, i, n)
      BY <1>n, <2>2, <2>5, <3>1
    <3> QED
      BY <3>3, <3>4
  <2> QED
    BY <2>4, <2>5
<1> HIDE DEF T
<1>4. \A i \in 1 .. n : i \in T
  <2>1. \A i \in 1 .. n : (\A j \in i + 1 .. n : j \in T) => i \in T
    BY <1>3
  <2>2. 1 \in Int /\ n \in Int
    OBVIOUS
  <2> QED
    BY <2>1, <2>2, DownwardInduction
<1>5. 1 \in 1 .. n
  BY <1>n
<1>6. from[<<C + 1 - 1, s[1]>>] = SubSeq(s, 1, n)
  BY <1>4, <1>5 DEF T
<1>7. SubSeq(s, 1, n) = s
  BY <1>n
<1> QED
  BY <1>6, <1>7 DEF Follows

\* A list is not longer than the set its elements are from.
LEMMA ListLength ==
  ASSUME NEW s, NEW L, NEW R, Lists(s, L, R), LineOrder(L, R), IsFiniteSet(L)
  PROVE  Len(s) = Cardinality(L) /\ Cardinality(L) \in Nat
<1>n. PICK n \in Nat : n = Len(s)
  BY ListIs
<1>1. s \in Bijection(1 .. n, L)
  <2>1. s \in [1 .. n -> L]
    BY <1>n, ListIs
  <2>2. \A i, j \in 1 .. n : s[i] = s[j] => i = j
    BY <1>n, ListOnce
  <2>3. \A m \in L : \E i \in 1 .. n : s[i] = m
    BY <1>n, ListIs
  <2> QED
    BY <2>1, <2>2, <2>3 DEF Bijection, Injection, Surjection, IsInjective
<1>2. IsFiniteSet(1 .. n) /\ Cardinality(1 .. n) = n
  BY FS_Interval
<1>3. ExistsBijection(1 .. n, L)
  BY <1>1 DEF ExistsBijection
<1>4. Cardinality(1 .. n) = Cardinality(L)
  BY <1>2, <1>3, FS_Bijection
<1> QED
  BY <1>n, <1>2, <1>4

-----------------------------------------------------------------------------
(* Positions in sequences that are joined                                  *)

\* The first k sequences of ss have o[k] elements together.
Offsets(ss, o) ==
  /\ o \in [0 .. Len(ss) -> Nat] /\ o[0] = 0
  /\ \A k \in 1 .. Len(ss) : Len(ss[k]) \in Nat /\ o[k] = o[k - 1] + Len(ss[k])

\* t is the first m sequences of ss, one after the other.
JoinedTo(ss, o, t, m) ==
  /\ Len(t) = o[m]
  /\ \A k \in 1 .. m : \A j \in 1 .. Len(ss[k]) : t[o[k - 1] + j] = ss[k][j]
  /\ \A p \in 1 .. o[m] : \E k \in 1 .. m : p - o[k - 1] \in 1 .. Len(ss[k])

LEMMA OffsetsGrow ==
  ASSUME NEW ss, Len(ss) \in Nat, NEW o, Offsets(ss, o),
         NEW i \in 0 .. Len(ss), NEW j \in i .. Len(ss)
  PROVE  o[i] <= o[j]
<1>n. PICK n \in Nat : n = Len(ss)
  OBVIOUS
<1>1. o \in [0 .. n -> Nat] /\ \A k \in 1 .. n : Len(ss[k]) \in Nat /\ o[k] = o[k - 1] + Len(ss[k])
  BY <1>n DEF Offsets
<1> DEFINE T == {k \in i .. n : o[i] <= o[k]}
<1>2. i \in T
  BY <1>1, <1>n
<1>3. ASSUME NEW k \in i .. n - 1, k \in T PROVE k + 1 \in T
  <2>1. k + 1 \in 1 .. n /\ (k + 1) - 1 = k /\ k \in 0 .. n /\ k + 1 \in i .. n /\ i \in 0 .. n
    BY <1>n
  <2>2. o[k + 1] = o[k] + Len(ss[k + 1]) /\ Len(ss[k + 1]) \in Nat
    BY <1>1, <2>1
  <2>3. o[k] \in Nat /\ o[i] \in Nat /\ o[k + 1] \in Nat /\ o[i] <= o[k]
    BY <1>1, <1>3, <2>1
  <2> QED
    BY <2>1, <2>2, <2>3
<1> HIDE DEF T
<1>4. \A k \in i .. n : k \in T
  <2>1. i \in Int /\ n \in Int
    OBVIOUS
  <2> QED
    BY <1>2, <1>3, <2>1, RangeInduction
<1> QED
  BY <1>4, <1>n DEF T

LEMMA JoinNext ==
  ASSUME NEW S, NEW ss \in Seq(Seq(S)), NEW o, Offsets(ss, o), NEW m \in 0 .. Len(ss) - 1,
         NEW t \in Seq(S), JoinedTo(ss, o, t, m)
  PROVE  JoinedTo(ss, o, t \o ss[m + 1], m + 1)
<1>n. PICK n \in Nat : n = Len(ss)
  OBVIOUS
<1>u. PICK u \in Seq(S) : u = ss[m + 1]
  OBVIOUS
<1>w. t \o u \in Seq(S) /\ Len(t \o u) = Len(t) + Len(u)
      /\ \A p \in 1 .. Len(t) + Len(u) : (t \o u)[p] = IF p <= Len(t) THEN t[p] ELSE u[p - Len(t)]
  BY ConcatProperties
<1>v. PICK v \in Seq(S) : v = t \o u
  BY <1>w
<1>1. /\ o \in [0 .. n -> Nat]
      /\ \A k \in 1 .. n : Len(ss[k]) \in Nat /\ o[k] = o[k - 1] + Len(ss[k])
  BY <1>n DEF Offsets
<1>2. m \in 0 .. n /\ m + 1 \in 1 .. n /\ (m + 1) - 1 = m /\ m + 1 \in 0 .. n
  BY <1>n
<1>3. /\ o[m] \in Nat /\ o[m + 1] \in Nat /\ o[m + 1] = o[m] + Len(u) /\ Len(u) \in Nat /\ Len(t) = o[m]
  BY <1>1, <1>2, <1>u DEF JoinedTo
<1>4. /\ Len(v) = o[m + 1]
      /\ \A p \in 1 .. o[m] : v[p] = t[p]
      /\ \A p \in 1 .. Len(u) : v[o[m] + p] = u[p]
  <2>1. Len(v) = o[m] + Len(u)
    BY <1>3, <1>v, <1>w
  <2>2. ASSUME NEW p \in 1 .. o[m] PROVE v[p] = t[p]
    <3>1. p \in 1 .. Len(t) + Len(u) /\ p <= Len(t)
      BY <1>3
    <3> QED
      BY <1>v, <1>w, <3>1
  <2>3. ASSUME NEW p \in 1 .. Len(u) PROVE v[o[m] + p] = u[p]
    <3>1. o[m] + p \in 1 .. Len(t) + Len(u) /\ ~(o[m] + p <= Len(t)) /\ (o[m] + p) - Len(t) = p
      BY <1>3
    <3> QED
      BY <1>v, <1>w, <3>1
  <2> QED
    BY <1>3, <2>1, <2>2, <2>3
<1>5. ASSUME NEW k \in 1 .. m + 1, NEW j \in 1 .. Len(ss[k]) PROVE v[o[k - 1] + j] = ss[k][j]
  <2>1. CASE k = m + 1
    BY <1>2, <1>4, <1>5, <1>u, <2>1
  <2>2. CASE k # m + 1
    <3>1. k \in 1 .. m /\ k \in 1 .. n /\ k \in 0 .. n /\ m \in k .. n /\ k - 1 \in 0 .. n
      BY <1>2, <2>2
    <3>2. o[k] <= o[m]
      BY <1>n, <3>1, OffsetsGrow
    <3>3. o[k] = o[k - 1] + Len(ss[k]) /\ Len(ss[k]) \in Nat /\ o[k - 1] \in Nat
      BY <1>1, <3>1
    <3>4. o[k - 1] + j \in 1 .. o[m]
      <4>1. PICK x \in Nat, y \in Nat, z \in Nat : x = o[k - 1] /\ y = o[m] /\ z = Len(ss[k])
        BY <1>3, <3>3
      <4>2. j \in 1 .. z /\ x + z <= y
        BY <1>5, <3>2, <3>3, <4>1
      <4>3. x + j \in 1 .. y
        BY <4>2
      <4> QED
        BY <4>1, <4>3
    <3>5. t[o[k - 1] + j] = ss[k][j]
      BY <3>1, <1>5 DEF JoinedTo
    <3> QED
      BY <1>4, <3>4, <3>5
  <2> QED
    BY <2>1, <2>2
<1>6. ASSUME NEW p \in 1 .. o[m + 1] PROVE \E k \in 1 .. m + 1 : p - o[k - 1] \in 1 .. Len(ss[k])
  <2>1. CASE p \in 1 .. o[m]
    <3>1. PICK k \in 1 .. m : p - o[k - 1] \in 1 .. Len(ss[k])
      BY <2>1 DEF JoinedTo
    <3>2. k \in 1 .. m + 1
      BY <1>2
    <3> QED
      BY <3>1, <3>2
  <2>2. CASE p \notin 1 .. o[m]
    <3>1. p - o[m] \in 1 .. Len(u)
      BY <1>3, <1>6, <2>2
    <3>2. p - o[(m + 1) - 1] \in 1 .. Len(ss[m + 1]) /\ m + 1 \in 1 .. m + 1
      BY <1>2, <1>u, <3>1
    <3> QED
      BY <3>2
  <2> QED
    BY <2>1, <2>2
<1>7. JoinedTo(ss, o, v, m + 1)
  BY <1>4, <1>5, <1>6 DEF JoinedTo
<1> QED
  BY <1>7, <1>u, <1>v

\* Where the elements of sequences are when the sequences are joined.
LEMMA FlattenOffsets ==
  ASSUME NEW S, NEW ss \in Seq(Seq(S))
  PROVE  \E o : /\ Offsets(ss, o) /\ FlattenSeq(ss) \in Seq(S)
                /\ JoinedTo(ss, o, FlattenSeq(ss), Len(ss))
                /\ \A k \in 0 .. Len(ss) : Len(FlattenSeq([i \in 1 .. k |-> ss[i]])) = o[k]
<1>n. PICK n \in Nat : n = Len(ss)
  OBVIOUS
<1>1. PICK f : Joinings(ss, f) /\ f[n] = FlattenSeq(ss) /\ f \in [0 .. n -> Seq(S)]
  BY <1>n, FlattenIs
<1>2. f[0] = <<>> /\ \A i \in 1 .. n : f[i] = f[i - 1] \o ss[i]
  BY <1>1, <1>n DEF Joinings
<1> DEFINE o == [k \in 0 .. n |-> Len(f[k])]
<1>3. \A k \in 0 .. n : f[k] \in Seq(S) /\ o[k] = Len(f[k]) /\ o[k] \in Nat
  BY <1>1
<1>4. o \in [0 .. n -> Nat] /\ o[0] = 0
  BY <1>2, <1>3
<1> HIDE DEF o
<1>5. ASSUME NEW k \in 1 .. n PROVE Len(ss[k]) \in Nat /\ o[k] = o[k - 1] + Len(ss[k])
  <2>1. k - 1 \in 0 .. n /\ k \in 0 .. n
    OBVIOUS
  <2>2. ss[k] \in Seq(S) /\ f[k - 1] \in Seq(S) /\ f[k] = f[k - 1] \o ss[k]
    <3>1. ss[k] \in Seq(S)
      BY <1>n
    <3>2. f[k] = f[k - 1] \o ss[k]
      BY <1>2
    <3> QED
      BY <1>3, <2>1, <3>1, <3>2
  <2>3. Len(f[k]) = Len(f[k - 1]) + Len(ss[k]) /\ Len(ss[k]) \in Nat
    BY <2>2
  <2> QED
    BY <1>3, <2>1, <2>3
<1>6. Offsets(ss, o)
  BY <1>4, <1>5, <1>n DEF Offsets
<1> DEFINE T == {k \in 0 .. n : JoinedTo(ss, o, f[k], k)}
<1>7. 0 \in T
  <2>1. Len(f[0]) = o[0] /\ o[0] = 0 /\ 1 .. 0 = {}
    BY <1>3, <1>4
  <2>2. JoinedTo(ss, o, f[0], 0)
    BY <2>1 DEF JoinedTo
  <2> QED
    BY <2>2
<1>8. ASSUME NEW k \in 0 .. n - 1, k \in T PROVE k + 1 \in T
  <2>1. k + 1 \in 1 .. n /\ (k + 1) - 1 = k /\ k \in 0 .. n /\ k + 1 \in 0 .. n /\ k \in 0 .. Len(ss) - 1
    BY <1>n
  <2>2. f[k] \in Seq(S) /\ f[k + 1] = f[k] \o ss[k + 1] /\ JoinedTo(ss, o, f[k], k)
    BY <1>2, <1>3, <1>8, <2>1
  <2>3. JoinedTo(ss, o, f[k + 1], k + 1)
    BY <1>6, <2>1, <2>2, JoinNext
  <2> QED
    BY <2>1, <2>3
<1> HIDE DEF T
<1>9. \A k \in 0 .. n : k \in T
  BY <1>7, <1>8, RangeInduction
<1>10. JoinedTo(ss, o, FlattenSeq(ss), n)
  BY <1>1, <1>9 DEF T
<1>11. FlattenSeq(ss) \in Seq(S)
  BY <1>1, <1>3
<1>12. ASSUME NEW k \in 0 .. n PROVE Len(FlattenSeq([i \in 1 .. k |-> ss[i]])) = o[k]
  <2>p. PICK pp : pp = [i \in 1 .. k |-> ss[i]]
    OBVIOUS
  <2>1. \A i \in 1 .. k : ss[i] \in Seq(S)
    BY <1>n
  <2>2. pp \in Seq(Seq(S)) /\ Len(pp) = k
    BY <2>1, <2>p
  <2>3. \A i \in 1 .. k : pp[i] = ss[i]
    BY <2>p
  <2>4. PICK g : Joinings(pp, g) /\ g[k] = FlattenSeq(pp)
    BY <2>2, FlattenIs
  <2>5. g[0] = <<>> /\ \A i \in 1 .. k : g[i] = g[i - 1] \o ss[i]
    BY <2>2, <2>3, <2>4 DEF Joinings
  <2> DEFINE U == {i \in 0 .. k : g[i] = f[i]}
  <2>6. 0 \in U
    BY <1>2, <2>5
  <2>7. ASSUME NEW i \in 0 .. k - 1, i \in U PROVE i + 1 \in U
    <3>1. i + 1 \in 1 .. k /\ i + 1 \in 1 .. n /\ (i + 1) - 1 = i /\ i + 1 \in 0 .. k
      OBVIOUS
    <3>2. g[i + 1] = g[i] \o ss[i + 1] /\ f[i + 1] = f[i] \o ss[i + 1]
      BY <1>2, <2>5, <3>1
    <3> QED
      BY <2>7, <3>1, <3>2
  <2> HIDE DEF U
  <2>8. \A i \in 0 .. k : i \in U
    BY <2>6, <2>7, RangeInduction
  <2>9. g[k] = f[k]
    BY <2>8 DEF U
  <2> QED
    BY <1>3, <2>4, <2>9, <2>p
<1> QED
  BY <1>6, <1>10, <1>11, <1>12, <1>n

-----------------------------------------------------------------------------
(* Walks                                                                   *)

WalkUpto(a, adv, f, k) ==
  /\ f = [i \in Nat |-> f[i]]
  /\ \A i \in Nat : i <= k => f[i] = IF i = 0 THEN a ELSE adv[f[i - 1]]

\* There is a function that goes from a on, step by step.
LEMMA WalkExists ==
  ASSUME NEW P, NEW a \in P, NEW adv \in [P -> P]
  PROVE  \E f \in [Nat -> P] : \A i \in Nat : f[i] = IF i = 0 THEN a ELSE adv[f[i - 1]]
<1> DEFINE T == {k \in Nat : \E f : WalkUpto(a, adv, f, k)}
<1>1. 0 \in T
  <2>1. PICK f : f = [i \in Nat |-> a]
    OBVIOUS
  <2>2. f = [i \in Nat |-> f[i]] /\ \A i \in Nat : i <= 0 => i = 0 /\ f[i] = a
    BY <2>1
  <2>3. WalkUpto(a, adv, f, 0)
    BY <2>2 DEF WalkUpto
  <2> QED
    BY <2>3
<1>2. ASSUME NEW k \in Nat, k \in T PROVE k + 1 \in T
  <2>1. PICK f : WalkUpto(a, adv, f, k)
    BY <1>2
  <2> DEFINE g == [i \in Nat |-> IF i <= k THEN f[i] ELSE adv[f[i - 1]]]
  <2>2. \A i \in Nat : g[i] = IF i <= k THEN f[i] ELSE adv[f[i - 1]]
    OBVIOUS
  <2>3. g = [i \in Nat |-> g[i]]
    OBVIOUS
  <2> HIDE DEF g
  <2>4. ASSUME NEW i \in Nat, i <= k + 1 PROVE g[i] = IF i = 0 THEN a ELSE adv[g[i - 1]]
    <3>1. i # 0 => i - 1 \in Nat /\ i - 1 <= k /\ g[i - 1] = f[i - 1]
      BY <2>2, <2>4
    <3>2. CASE i <= k
      <4>1. f[i] = IF i = 0 THEN a ELSE adv[f[i - 1]]
        BY <2>1, <3>2 DEF WalkUpto
      <4> QED
        BY <2>2, <3>1, <3>2, <4>1
    <3>3. CASE ~(i <= k)
      <4>1. i # 0 /\ g[i] = adv[f[i - 1]]
        BY <2>2, <3>3
      <4> QED
        BY <3>1, <4>1
    <3> QED
      BY <3>2, <3>3
  <2>5. WalkUpto(a, adv, g, k + 1)
    BY <2>3, <2>4 DEF WalkUpto
  <2> QED
    BY <2>5
<1> HIDE DEF T
<1>3. \A k \in Nat : k \in T
  BY <1>1, <1>2, SetInduction
<1> DEFINE F(k) == CHOOSE f : WalkUpto(a, adv, f, k)
<1>4. \A k \in Nat : WalkUpto(a, adv, F(k), k)
  BY <1>3 DEF T
<1> HIDE DEF F
<1> DEFINE g == [i \in Nat |-> F(i)[i]]
<1>5. ASSUME NEW k \in Nat, NEW i \in 0 .. k PROVE F(k)[i] = F(k + 1)[i]
  <2>1. /\ \A j \in Nat : j <= k => F(k)[j] = IF j = 0 THEN a ELSE adv[F(k)[j - 1]]
        /\ \A j \in Nat : j <= k + 1 => F(k + 1)[j] = IF j = 0 THEN a ELSE adv[F(k + 1)[j - 1]]
    BY <1>4 DEF WalkUpto
  <2> DEFINE U == {j \in 0 .. k : F(k)[j] = F(k + 1)[j]}
  <2>2. 0 \in U
    BY <2>1
  <2>3. ASSUME NEW j \in 0 .. k - 1, j \in U PROVE j + 1 \in U
    <3>1. j + 1 \in Nat /\ j + 1 # 0 /\ (j + 1) - 1 = j /\ j + 1 <= k /\ j + 1 <= k + 1 /\ j + 1 \in 0 .. k
      OBVIOUS
    <3>2. F(k)[j + 1] = adv[F(k)[j]] /\ F(k + 1)[j + 1] = adv[F(k + 1)[j]]
      BY <2>1, <3>1
    <3> QED
      BY <2>3, <3>1, <3>2
  <2> HIDE DEF U
  <2>4. \A j \in 0 .. k : j \in U
    BY <2>2, <2>3, RangeInduction
  <2> QED
    BY <2>4 DEF U
<1>6. \A i \in Nat : g[i] = F(i)[i]
  OBVIOUS
<1>7. g = [i \in Nat |-> g[i]]
  OBVIOUS
<1> HIDE DEF g
<1>8. ASSUME NEW i \in Nat PROVE g[i] = IF i = 0 THEN a ELSE adv[g[i - 1]]
  <2>1. F(i)[i] = IF i = 0 THEN a ELSE adv[F(i)[i - 1]]
    <3>1. i <= i
      OBVIOUS
    <3> QED
      BY <1>4, <3>1 DEF WalkUpto
  <2>2. i # 0 => F(i)[i - 1] = g[i - 1]
    <3>1. i # 0 => i - 1 \in Nat /\ i - 1 \in 0 .. i - 1 /\ (i - 1) + 1 = i
      OBVIOUS
    <3> QED
      BY <1>5, <1>6, <3>1
  <2> QED
    BY <1>6, <2>1, <2>2
<1> DEFINE V == {i \in Nat : g[i] \in P}
<1>9. 0 \in V
  BY <1>8
<1>10. ASSUME NEW i \in Nat, i \in V PROVE i + 1 \in V
  <2>1. i + 1 \in Nat /\ i + 1 # 0 /\ (i + 1) - 1 = i
    OBVIOUS
  <2>2. g[i + 1] = adv[g[i]]
    BY <1>8, <2>1
  <2> QED
    BY <1>10, <2>2
<1> HIDE DEF V
<1>11. \A i \in Nat : i \in V
  BY <1>9, <1>10, SetInduction
<1>12. \A i \in Nat : g[i] \in P
  BY <1>11 DEF V
<1>13. g \in [Nat -> P]
  BY <1>7, <1>12
<1> QED
  BY <1>8, <1>13

-----------------------------------------------------------------------------
(* The inductive invariant                                                 *)

AtRest(R) ==
  /\ op = NULL /\ stack = <<>> /\ ret = NULL
  /\ Shape(heap, m_root, {}, {}, R) /\ Filled(heap, {}, m_root, 1)
  /\ Counted(heap, m_stats, 0)

\* insert goes down; the root of a tree that was empty is empty.
InsertDown(R) ==
  /\ Going(InsertKinds) /\ ret = NULL /\ m_root # NULL
  /\ stack \in Seq(InsertFrame) /\ stack # <<>> /\ Path(heap, m_root, stack)
  /\ Shape(heap, m_root, {}, {}, R) /\ Filled(heap, {}, m_root, 0)
  /\ Counted(heap, m_stats, 0)

\* ... and comes back with nothing to add.
InsertUp(R) ==
  /\ Going(InsertKinds) /\ ret \in InsertResult /\ ret.newchild = NULL /\ m_root # NULL
  /\ stack \in Seq(InsertFrame) /\ Path(heap, m_root, stack) /\ Paused(heap, stack)
  /\ Shape(heap, m_root, {}, {}, R) /\ Filled(heap, {}, m_root, 1)
  /\ Counted(heap, m_stats, -1)

\* ... or with a node that belongs next to the child it went down to.
InsertSplit(R) ==
  /\ Going(InsertKinds) /\ ret \in InsertResult /\ ret.newchild # NULL /\ m_root # NULL
  /\ ret.newkey \in Key
  /\ stack \in Seq(InsertFrame) /\ Path(heap, m_root, stack) /\ Paused(heap, stack)
  /\ Shape(heap, m_root, {ret.newchild}, {}, R)
  /\ Filled(heap, {}, IF stack = <<>> THEN NULL ELSE m_root, 1)
  /\ IsNext(Allocated(heap), R,
            IF stack = <<>> THEN m_root ELSE childid(heap, Top.curr, Top.slot), ret.newchild)
  /\ Counted(heap, m_stats, -1)

EraseDown(R) ==
  /\ Going(EraseKinds) /\ ret = NULL
  /\ stack \in Seq(EraseFrame) /\ stack # <<>> /\ Path(heap, m_root, stack)
  /\ Surrounded(heap, R, stack)
  /\ Shape(heap, m_root, {}, {}, R) /\ Filled(heap, {}, m_root, 1)
  /\ Counted(heap, m_stats, 0)

EraseUp(R) ==
  /\ Going(EraseKinds) /\ ret \in EraseResult /\ ~ret.fixmerge
  /\ stack \in Seq(EraseFrame) /\ Path(heap, m_root, stack) /\ Paused(heap, stack)
  /\ Surrounded(heap, R, stack)
  /\ Shape(heap, m_root, {}, {}, R) /\ Filled(heap, {}, m_root, 1)
  /\ Counted(heap, m_stats, IF ret.notFound THEN 0 ELSE 1)

EraseMerged(R) ==
  /\ Going(EraseKinds) /\ ret \in EraseResult /\ ret.fixmerge /\ ~ret.notFound
  /\ stack \in Seq(EraseFrame) /\ stack # <<>> /\ Path(heap, m_root, stack)
  /\ Paused(heap, stack) /\ Surrounded(heap, R, stack)
  /\ EmptySlot(heap, Top) \in 1 .. slotuse(heap, Top.curr)
  /\ Shape(heap, m_root, {}, Hollow(heap, Top), R)
  /\ Filled(heap, Hollow(heap, Top), m_root, 1)
  /\ Counted(heap, m_stats, 1)

Phase(R) ==
  \/ AtRest(R)
  \/ InsertDown(R) \/ InsertUp(R) \/ InsertSplit(R)
  \/ EraseDown(R) \/ EraseUp(R) \/ EraseMerged(R)

-----------------------------------------------------------------------------
(* The phases of a call                                                    *)

IInv == TypeOK /\ \E R : Phase(R)

LEMMA PhaseIs ==
  ASSUME NEW R, Phase(R)
  PROVE  /\ Idle => AtRest(R)
         /\ Calling(InsertKinds) => InsertDown(R)
         /\ (Returning(InsertKinds) \/ Returned(InsertKinds)) /\ ret.newchild = NULL => InsertUp(R)
         /\ (Returning(InsertKinds) \/ Returned(InsertKinds)) /\ ret.newchild # NULL => InsertSplit(R)
         /\ Calling(EraseKinds) => EraseDown(R)
         /\ Returning(EraseKinds) /\ ~ret.fixmerge => EraseUp(R)
         /\ Returning(EraseKinds) /\ ret.fixmerge => EraseMerged(R)
         /\ Returned(EraseKinds) => EraseUp(R)
<1>1. AtRest(R) => op = NULL /\ stack = <<>> /\ ret = NULL
  BY DEF AtRest
<1>2. InsertDown(R) => op # NULL /\ op.kind \in InsertKinds /\ ret = NULL /\ stack # <<>>
  BY DEF InsertDown, Going
<1>3. InsertUp(R) => op # NULL /\ op.kind \in InsertKinds /\ ret # NULL /\ ret.newchild = NULL
  BY NULLAssumption DEF InsertUp, Going
<1>4. InsertSplit(R) => op # NULL /\ op.kind \in InsertKinds /\ ret # NULL /\ ret.newchild # NULL
  BY NULLAssumption DEF InsertSplit, Going
<1>5. EraseDown(R) => op # NULL /\ op.kind \in EraseKinds /\ ret = NULL /\ stack # <<>>
  BY DEF EraseDown, Going
<1>6. EraseUp(R) => op # NULL /\ op.kind \in EraseKinds /\ ret # NULL /\ ~ret.fixmerge
  BY NULLAssumption DEF EraseUp, Going
<1>7. EraseMerged(R) => op # NULL /\ op.kind \in EraseKinds /\ ret # NULL /\ ret.fixmerge /\ stack # <<>>
  BY NULLAssumption DEF EraseMerged, Going
<1>8. \A k : ~(k \in InsertKinds /\ k \in EraseKinds)
  BY DEF InsertKinds, EraseKinds, KeyKinds
<1> QED
  BY <1>1, <1>2, <1>3, <1>4, <1>5, <1>6, <1>7, <1>8
     DEF Phase, Idle, Calling, Returning, Returned, Going

\* What is known of a call from its kind.
LEMMA CallIs ==
  ASSUME TypeOK
  PROVE  /\ Going(InsertKinds) => op \in Call /\ op.key \in Key /\ op.data \in Data
         /\ Going(EraseKinds) => op \in Call /\ op.key \in Key
         /\ heap \in Heaps
BY DEF TypeOK, Going, Call, InsertKinds, KeyKinds, EraseKinds, Heaps

LEMMA TopIs ==
  ASSUME NEW F, stack \in Seq(F), stack # <<>>, NEW H \in Heaps, NEW root, Path(H, root, stack)
  PROVE  /\ Top \in F /\ Top.curr \in Allocated(H) /\ H[Top.curr].level \in Nat
         /\ Front(stack) \in Seq(F) /\ Top = Last(stack)
         /\ root \in Allocated(H)
<1>1. /\ Front(stack) \in Seq(F) /\ Len(stack) \in Nat \ {0} /\ Last(stack) = stack[Len(stack)]
      /\ Last(stack) \in F
  BY FrontIs
<1>2. Len(stack) \in 1 .. Len(stack) /\ 1 \in 1 .. Len(stack)
  BY <1>1
<1>3. Top.curr \in Allocated(H) /\ root \in Allocated(H)
  BY <1>1, <1>2 DEF Path, Top
<1> QED
  BY <1>1, <1>3, NodeIs DEF Top

LEMMA InsertDescendKeeps ==
  ASSUME TypeOK, NEW R, Phase(R), InsertDescend
  PROVE  TypeOK' /\ Phase(R)'
<1>1. InsertDown(R)
  BY PhaseIs DEF InsertDescend
<1>2. heap \in Heaps
  BY CallIs
<1> DEFINE slot == find_lower(heap, Top.curr, op.key)
           f == [Top EXCEPT !.slot = slot]
           g == [curr |-> childid(heap, Top.curr, slot), slot |-> 0]
<1>3. /\ stack \in Seq(InsertFrame) /\ stack # <<>> /\ Path(heap, m_root, stack)
      /\ Tree(heap, m_root, {}, R) /\ NodesHold(heap, {})
  BY <1>1 DEF InsertDown, Shape
<1>4. Top \in InsertFrame /\ Top.curr \in Allocated(heap) /\ Top = Last(stack)
  BY <1>2, <1>3, TopIs
<1>5. slot \in 0 .. slotuse(heap, Top.curr)
  BY <1>2, <1>4, FindLowerIs
<1>6. heap[Top.curr].level > 0 /\ slot \in Nat
  BY <1>2, <1>4, <1>5, NodeIs DEF InsertDescend, isleafnode
<1>7. childid(heap, Top.curr, slot) \in NodeId
  BY <1>2, <1>3, <1>4, <1>5, <1>6, ChildOf, NodeIs
<1> HIDE DEF slot
<1>8. f \in InsertFrame /\ g \in InsertFrame /\ f.curr = Top.curr /\ f.slot = slot
      /\ g.curr = childid(heap, f.curr, f.slot)
  BY <1>4, <1>6, <1>7 DEF InsertFrame
<1>9. AtChild(heap, f)
  BY <1>5, <1>6, <1>8 DEF AtChild
<1>10. stack' = Append(Front(stack), f) \o <<g>>
  BY DEF InsertDescend, slot
<1> HIDE DEF f, g
<1>11. stack' \in Seq(InsertFrame) /\ stack' # <<>> /\ Path(heap, m_root, stack')
  BY <1>2, <1>3, <1>4, <1>8, <1>9, <1>10, PathPush
<1>12. UNCHANGED <<treeVars, op, ret>>
  BY DEF InsertDescend
<1>13. TypeOK'
  BY <1>11, <1>12 DEF TypeOK, treeVars
<1>14. InsertDown(R)'
  BY <1>1, <1>11, <1>12 DEF InsertDown, treeVars, Going
<1> QED
  BY <1>13, <1>14 DEF Phase

LEMMA InsertPassKeeps ==
  ASSUME TypeOK, NEW R, Phase(R), InsertPass
  PROVE  TypeOK' /\ Phase(R)'
<1>1. InsertUp(R)
  BY PhaseIs DEF InsertPass
<1>2. heap \in Heaps
  BY CallIs
<1>3. stack \in Seq(InsertFrame) /\ stack # <<>> /\ Path(heap, m_root, stack)
  BY <1>1 DEF InsertUp, InsertPass, Returning
<1>4. Kept(heap, heap, heap[Last(stack).curr].level)
  BY RekeyedSelf, KeptRekeyed
<1>5. Path(heap, m_root, Front(stack)) /\ Paused(heap, Front(stack)) /\ Front(stack) \in Seq(InsertFrame)
  BY <1>2, <1>3, <1>4, PathKept, FrontIs
<1>6. stack' = Front(stack) /\ UNCHANGED <<treeVars, op, ret>>
  BY DEF InsertPass
<1>7. TypeOK'
  BY <1>5, <1>6 DEF TypeOK, treeVars
<1>8. InsertUp(R)'
  BY <1>1, <1>5, <1>6 DEF InsertUp, treeVars, Going
<1> QED
  BY <1>7, <1>8 DEF Phase

LEMMA InsertIntoLeafKeeps ==
  ASSUME TypeOK, NEW R, Phase(R), InsertIntoLeaf
  PROVE  TypeOK' /\ Phase(R)'
<1> DEFINE a == Top.curr
           slot == find_lower(heap, a, op.key)
           s == InsertAt(heap[a].slots, slot + 1, NewPair)
<1>1. InsertDown(R)
  BY PhaseIs DEF InsertIntoLeaf
<1>2. heap \in Heaps /\ op.key \in Key /\ op.data \in Data
  BY <1>1, CallIs DEF InsertDown
<1>3. /\ stack \in Seq(InsertFrame) /\ stack # <<>> /\ Path(heap, m_root, stack)
      /\ Shape(heap, m_root, {}, {}, R) /\ Tree(heap, m_root, {}, R) /\ NodesHold(heap, {})
      /\ Linked(heap, {}, R) /\ Filled(heap, {}, m_root, 0) /\ Counted(heap, m_stats, 0)
  BY <1>1 DEF InsertDown, Shape
<1>4. /\ Top \in InsertFrame /\ Top = Last(stack) /\ a \in Allocated(heap)
      /\ m_root \in Allocated(heap)
  BY <1>2, <1>3, TopIs
<1>5. /\ isleafnode(heap, a) /\ ~isfull(heap, a) /\ a \in Leaves(heap) /\ a \in NodeId
      /\ heap[a].slots \in Seq(Pair) /\ slotuse(heap, a) = Len(heap[a].slots)
      /\ slotuse(heap, a) \in Nat /\ heap[a].level = 0
  BY <1>2, <1>4, LeafNode, ZenonT(40) DEF InsertIntoLeaf, Leaves
<1>6. slotuse(heap, a) < leafslotmax
  <2>1. slotuse(heap, a) <= leafslotmax /\ slotuse(heap, a) # leafslotmax
    BY <1>3, <1>4, <1>5 DEF NodesHold, isfull
  <2> QED
    BY <1>5, <2>1, Sizes
<1>7. slot \in 0 .. slotuse(heap, a)
  BY <1>2, <1>4, FindLowerIs
<1>8. NewPair \in Pair
  BY <1>2 DEF NewPair, Pair
<1> HIDE DEF slot
<1>9. s \in Seq(Pair) /\ Len(s) = slotuse(heap, a) + 1
  <2>1. slot + 1 \in 1 .. Len(heap[a].slots) + 1
    BY <1>5, <1>7
  <2> QED
    BY <1>5, <1>8, <2>1, InsertAtIs DEF Inserted
<1>10. Refilled(heap, heap', a, s)
  BY DEF InsertIntoLeaf, Refilled, slot
<1> HIDE DEF s
<1>11. /\ heap' \in Heaps /\ SameNodes(heap, heap') /\ SameLinks(heap, heap') /\ Kept(heap, heap', 0)
       /\ slotuse(heap', a) = slotuse(heap, a) + 1
       /\ \A n \in NodeId \ {a} : slotuse(heap', n) = slotuse(heap, n)
       /\ Leaves(heap') = Leaves(heap) /\ InnerNodes(heap') = InnerNodes(heap)
  <2> DEFINE G == heap'
  <2>1. Refilled(heap, G, a, s)
    BY <1>10
  <2> HIDE DEF a, G
  <2>2. /\ G \in Heaps /\ SameNodes(heap, G) /\ SameLinks(heap, G) /\ Kept(heap, G, 0)
        /\ slotuse(G, a) = Len(s)
        /\ \A n \in NodeId \ {a} : G[n] = heap[n] /\ slotuse(G, n) = slotuse(heap, n)
        /\ Leaves(G) = Leaves(heap) /\ InnerNodes(G) = InnerNodes(heap)
    BY <1>2, <1>5, <1>9, <2>1, RefillOne
  <2> QED
    BY <1>9, <2>2 DEF G
<1>12. Tree(heap', m_root, {}, R) /\ Linked(heap', {}, R)
  BY <1>3, <1>4, <1>11, SameTree, SameChain
<1>13. /\ Allocated(heap') = Allocated(heap)
       /\ \A n \in Allocated(heap) : /\ n \in NodeId /\ slotuse(heap, n) \in Nat
                                     /\ isleafnode(heap', n) <=> isleafnode(heap, n)
                                     /\ Kids(heap', n) = Kids(heap, n)
  BY <1>2, <1>11, SameKinds, NodeIs DEF SameNodes
<1>14. NodesHold(heap', {})
  <2> SUFFICES ASSUME NEW n \in Allocated(heap)
               PROVE  IF isleafnode(heap', n) THEN slotuse(heap', n) <= leafslotmax
                      ELSE slotuse(heap', n) <= innerslotmax /\ Len(Kids(heap', n)) = slotuse(heap', n) + 1
    BY <1>13 DEF NodesHold
  <2>1. CASE n = a
    BY <1>5, <1>6, <1>11, <1>13, <2>1, Sizes
  <2>2. CASE n # a
    BY <1>3, <1>11, <1>13, <2>2 DEF NodesHold
  <2> QED
    BY <2>1, <2>2
<1>15. Filled(heap', {}, m_root, 1)
  <2> SUFFICES ASSUME NEW n \in Allocated(heap)
               PROVE  slotuse(heap', n) >= IF n # m_root THEN mininnerslots
                                           ELSE IF isleafnode(heap', n) THEN 1 ELSE 1
    BY <1>13 DEF Filled
  <2>1. slotuse(heap, n) >= IF n # m_root THEN mininnerslots
                            ELSE IF isleafnode(heap, n) THEN 0 ELSE 1
    BY <1>3 DEF Filled
  <2>2. CASE n = a
    BY <1>5, <1>11, <1>13, <2>1, <2>2, Sizes
  <2>3. CASE n # a
    <3>1. n = m_root => ~isleafnode(heap, n)
      <4> SUFFICES ASSUME n = m_root, isleafnode(heap, n) PROVE FALSE
        OBVIOUS
      <4>1. a = m_root \/ heap[a].level < heap[m_root].level
        BY <1>3, <1>4 DEF Tree
      <4> QED
        BY <1>5, <2>3, <4>1 DEF isleafnode
    <3> QED
      BY <1>11, <1>13, <2>1, <2>3, <3>1
  <2> QED
    BY <2>2, <2>3
<1>16. Cardinality(Pairs(heap')) - Cardinality(Pairs(heap)) = 1
  <2>1. a # NULL /\ Held(heap, NULL) = 0 /\ Held(heap', NULL) = 0 /\ NULL \notin NodeId
    BY <1>5, <1>11, NodeAssumption DEF Held, Leaves, Allocated
  <2>2. /\ Held(heap, a) \in 0 .. leafslotmax /\ Held(heap', a) \in 0 .. leafslotmax
        /\ Held(heap, NULL) \in 0 .. leafslotmax /\ Held(heap', NULL) \in 0 .. leafslotmax
    BY <1>2, <1>3, <1>11, <1>14, HeldIs
  <2>3. Held(heap, a) = slotuse(heap, a) /\ Held(heap', a) = slotuse(heap, a) + 1
    BY <1>5, <1>11 DEF Held
  <2>4. \A n \in NodeId \ {a, NULL} :
          (n \in Leaves(heap') <=> n \in Leaves(heap)) /\ slotuse(heap', n) = slotuse(heap, n)
    BY <1>11
  <2>5. Cardinality(Pairs(heap')) - Cardinality(Pairs(heap))
          = (Held(heap', a) + Held(heap', NULL)) - (Held(heap, a) + Held(heap, NULL))
    BY <2>1, <2>2, <2>4, PairsChange
  <2> QED
    BY <1>5, <2>1, <2>3, <2>5
<1>17. Counted(heap', m_stats, -1)
  <2>1. Counted(heap', m_stats, 0 - 1)
    BY <1>3, <1>11, <1>16, CountedNodes
  <2> QED
    BY <2>1
<1>18. /\ Path(heap', m_root, Front(stack)) /\ Paused(heap', Front(stack))
       /\ Front(stack) \in Seq(InsertFrame)
  BY <1>2, <1>3, <1>4, <1>5, <1>11, PathKept, FrontIs
<1>19. /\ stack' = Front(stack) /\ ret' = [newchild |-> NULL, newkey |-> NULL]
       /\ UNCHANGED <<m_root, m_headleaf, m_tailleaf, m_stats, op>>
  BY DEF InsertIntoLeaf
<1>20. ret' \in InsertResult /\ ret'.newchild = NULL
  BY <1>19 DEF InsertResult
<1>21. TypeOK'
  BY <1>11, <1>18, <1>19, <1>20 DEF TypeOK, Heaps
<1>22. InsertUp(R)'
  BY <1>1, <1>12, <1>14, <1>15, <1>17, <1>18, <1>19, <1>20 DEF InsertUp, InsertDown, Shape, Going
<1> QED
  BY <1>21, <1>22 DEF Phase

-----------------------------------------------------------------------------
(* A leaf is split                                                         *)

\* The child an insert went down to.
SplitChild == IF stack = <<>> THEN m_root ELSE childid(heap, Top.curr, Top.slot)

\* How the leaf is split.
LeafSplit ==
  \E l, r \in Seq(Pair) : \E slot \in 0 .. slotuse(heap, Top.curr) :
    /\ slot = find_lower(heap, Top.curr, op.key) /\ l # <<>> /\ r # <<>>
    /\ l = LeftHalf(heap[Top.curr].slots, slotuse(heap, Top.curr) \div 2, slot, NewPair)
    /\ r = RightHalf(heap[Top.curr].slots, slotuse(heap, Top.curr) \div 2, slot, NewPair)
    /\ heap' = SplitOff(heap, Top.curr, FreshNode(heap), l, r)
    /\ ret' = [newchild |-> FreshNode(heap), newkey |-> Last(l).key]
    /\ SplitChild' = Top.curr

LEMMA InsertSplitLeafKeeps ==
  ASSUME MergedFits, TypeOK, NEW R, Phase(R), InsertSplitLeaf
  PROVE  TypeOK' /\ (\E Q : Phase(Q)') /\ LeafSplit
<1>a. PICK a : a = Top.curr
  OBVIOUS
<1>d. PICK d : d = FreshNode(heap)
  OBVIOUS
<1>s. PICK s : s = heap[a].slots
  OBVIOUS
<1>k. PICK slot : slot = find_lower(heap, a, op.key)
  OBVIOUS
<1>m. PICK mid : mid = slotuse(heap, a) \div 2
  OBVIOUS
<1>x. PICK x : x = NewPair
  OBVIOUS
<1>l. PICK l : l = LeftHalf(s, mid, slot, x)
  OBVIOUS
<1>r. PICK r : r = RightHalf(s, mid, slot, x)
  OBVIOUS
<1>g. PICK G : G = heap'
  OBVIOUS
<1>q. PICK Q : Q = OrderedAfter(R, a, d)
  OBVIOUS
<1>1. InsertDown(R)
  BY PhaseIs DEF InsertSplitLeaf
<1>2. heap \in Heaps /\ op.key \in Key /\ op.data \in Data
  BY <1>1, CallIs DEF InsertDown
<1>3. /\ stack \in Seq(InsertFrame) /\ stack # <<>> /\ Path(heap, m_root, stack)
      /\ Shape(heap, m_root, {}, {}, R) /\ Tree(heap, m_root, {}, R) /\ NodesHold(heap, {})
      /\ Filled(heap, {}, m_root, 0) /\ Counted(heap, m_stats, 0)
  BY <1>1 DEF InsertDown, Shape
<1>4. /\ Top \in InsertFrame /\ Top = Last(stack) /\ a \in Allocated(heap)
      /\ m_root \in Allocated(heap)
  BY <1>a, <1>2, <1>3, TopIs
<1>5. /\ isleafnode(heap, a) /\ isfull(heap, a) /\ a \in Leaves(heap) /\ a \in NodeId
      /\ s \in Seq(Pair) /\ slotuse(heap, a) = Len(s)
      /\ slotuse(heap, a) \in Nat /\ heap[a].level = 0 /\ heap[a].next \in NodeId \cup {NULL}
  BY <1>a, <1>s, <1>2, <1>4, LeafNode DEF InsertSplitLeaf, Leaves
<1>6. Len(s) = leafslotmax /\ mid = minleafslots /\ slotuse(heap, a) = leafslotmax
  BY <1>m, <1>5 DEF isfull, minleafslots
<1>7. slot \in 0 .. leafslotmax
  BY <1>k, <1>2, <1>4, <1>6, FindLowerIs
<1>8. x \in Pair
  BY <1>x, <1>2 DEF NewPair, Pair
<1>9. d \in NodeId \ Allocated(heap) /\ d # NULL
  BY <1>d, <1>2, FreshIs DEF InsertSplitLeaf
<1>10. G = SplitOff(heap, a, d, l, r)
  BY <1>a, <1>d, <1>s, <1>k, <1>m, <1>x, <1>l, <1>r, <1>g DEF InsertSplitLeaf, SplitOff, LeftHalf, RightHalf
<1>11. stack' = Front(stack) /\ ret' = [newchild |-> d, newkey |-> Last(l).key]
       /\ m_stats' = [m_stats EXCEPT !.leaves = @ + 1]
       /\ UNCHANGED <<m_root, m_headleaf, op>> /\ m_tailleaf' \in {m_tailleaf, d}
  BY <1>a, <1>d, <1>s, <1>k, <1>m, <1>x, <1>l DEF InsertSplitLeaf, LeftHalf
<1>12. mid \in 0 .. Len(s) /\ slot \in 0 .. Len(s)
  BY <1>6, <1>7, Sizes
<1>13. /\ l \in Seq(Pair) /\ r \in Seq(Pair) /\ Len(l) \in {mid, mid + 1}
       /\ Len(l) + Len(r) = Len(s) + 1
  <2>1. s \in Seq(Pair)
    BY <1>5
  <2> QED
    BY <1>l, <1>r, <2>1, <1>8, <1>12, HalvesAre
<1>14. /\ Len(l) <= leafslotmax /\ Len(r) <= leafslotmax /\ Len(l) \in Nat /\ Len(r) \in Nat
       /\ Len(l) >= mininnerslots /\ Len(r) >= mininnerslots /\ Len(l) + Len(r) = leafslotmax + 1
       /\ mininnerslots >= 1 /\ mininnerslots \in Nat
  <2>1. Len(l) \in Nat /\ Len(r) \in Nat
    BY <1>13
  <2> QED
    BY <1>6, <1>13, <2>1, Sizes DEF MergedFits
<1>15. /\ G \in Heaps /\ Shape(G, m_root, {d}, {}, Q)
       /\ IsNext(Allocated(G), Q, a, d) /\ Kept(heap, G, 0)
       /\ Leaves(G) = Leaves(heap) \cup {d} /\ InnerNodes(G) = InnerNodes(heap)
       /\ slotuse(G, a) = Len(l) /\ slotuse(G, d) = Len(r)
       /\ \A n \in NodeId \ {a, d} : slotuse(G, n) = slotuse(heap, n)
  <2>1. a \in Leaves(heap)
    BY <1>5
  <2>2. Shape(heap, m_root, {}, {}, R)
    BY <1>3
  <2>3. l \in Seq(Pair) /\ r \in Seq(Pair) /\ Len(l) <= leafslotmax /\ Len(r) <= leafslotmax
    BY <1>13, <1>14
  <2>4. IsSplitOff(heap, G, m_root, R, a, d, l, r)
    BY <1>2, <2>1, <2>2, <2>3, <1>9, <1>10, SplitOffShape
  <2> QED
    BY <1>q, <2>4 DEF IsSplitOff
<1>16. /\ Path(G, m_root, Front(stack)) /\ Paused(G, Front(stack))
       /\ Front(stack) \in Seq(InsertFrame)
       /\ Front(stack) = <<>> => a = m_root
       /\ Front(stack) # <<>> => childid(G, Last(Front(stack)).curr, Last(Front(stack)).slot) = a
  <2>1. Last(stack).curr = a
    BY <1>a, <1>4
  <2> QED
    BY <1>2, <1>3, <1>5, <1>15, <2>1, PathKept, FrontIs
<1>17. Filled(G, {}, IF Front(stack) = <<>> THEN NULL ELSE m_root, 1)
  <2> SUFFICES ASSUME NEW n \in Allocated(G)
               PROVE  slotuse(G, n) >= IF n # (IF Front(stack) = <<>> THEN NULL ELSE m_root)
                                         THEN mininnerslots ELSE IF isleafnode(G, n) THEN 1 ELSE 1
    BY DEF Filled
  <2>1. CASE n \in {a, d}
    BY <1>14, <1>15, <2>1, Sizes
  <2>2. CASE n \notin {a, d}
    <3>1. n \in Allocated(heap) /\ n \in NodeId
      <4>1. n \in Leaves(G) \/ n \in InnerNodes(G)
        BY DEF Leaves, InnerNodes
      <4>2. n \in Leaves(heap) \/ n \in InnerNodes(heap)
        BY <1>15, <2>2, <4>1
      <4> QED
        BY <1>2, <4>2, NodeIs DEF Leaves, InnerNodes
    <3>2. slotuse(heap, n) >= IF n # m_root THEN mininnerslots
                              ELSE IF isleafnode(heap, n) THEN 0 ELSE 1
      BY <1>3, <3>1 DEF Filled
    <3>3. n = m_root => ~isleafnode(heap, n)
      BY <1>2, <1>3, <1>5, <2>2, RootAlone
    <3>4. n # NULL /\ slotuse(G, n) = slotuse(heap, n) /\ slotuse(heap, n) \in Nat
      BY <1>2, <1>15, <2>2, <3>1, NodeIs
    <3> QED
      BY <1>16, <2>2, <3>2, <3>3, <3>4, Sizes
  <2> QED
    BY <2>1, <2>2
<1>18. Cardinality(Pairs(G)) - Cardinality(Pairs(heap)) = 1
  <2>1. a # d /\ d \notin Leaves(heap)
    BY <1>4, <1>9 DEF Leaves
  <2>2. /\ Held(heap, a) = leafslotmax /\ Held(heap, d) = 0
        /\ Held(G, a) = Len(l) /\ Held(G, d) = Len(r)
    BY <1>5, <1>6, <1>15, <2>1 DEF Held
  <2>3. leafslotmax \in Nat
    BY Sizes
  <2>4. /\ Held(heap, a) \in 0 .. leafslotmax /\ Held(heap, d) \in 0 .. leafslotmax
        /\ Held(G, a) \in 0 .. leafslotmax /\ Held(G, d) \in 0 .. leafslotmax
    BY <1>14, <2>2, <2>3
  <2>5. \A n \in NodeId \ {a, d} :
          (n \in Leaves(G) <=> n \in Leaves(heap)) /\ slotuse(G, n) = slotuse(heap, n)
    BY <1>15
  <2>6. Cardinality(Pairs(G)) - Cardinality(Pairs(heap))
          = (Held(G, a) + Held(G, d)) - (Held(heap, a) + Held(heap, d))
    BY <2>1, <2>4, <2>5, PairsChange
  <2> QED
    BY <1>14, <2>2, <2>3, <2>6
<1>19. m_stats \in [itemcount : Nat, leaves : Nat, innernodes : Nat]
  BY DEF TypeOK
<1>20. m_stats' \in [itemcount : Nat, leaves : Nat, innernodes : Nat]
       /\ m_stats'.itemcount = m_stats.itemcount /\ m_stats'.leaves = m_stats.leaves + 1
       /\ m_stats'.innernodes = m_stats.innernodes
  BY <1>11, <1>19
<1>21. Counted(G, m_stats', -1)
  <2>1. Cardinality(Leaves(G)) = Cardinality(Leaves(heap)) + 1
    <3>1. d \notin Leaves(heap)
      BY <1>9 DEF Leaves
    <3> QED
      BY <1>15, <3>1, AllocatedFinite, OneMore
  <2>2. Cardinality(Pairs(G)) \in Nat /\ Cardinality(Pairs(heap)) \in Nat
    BY PairsFinite
  <2>3. /\ m_stats.leaves = Cardinality(Leaves(heap))
        /\ m_stats.innernodes = Cardinality(InnerNodes(heap))
        /\ m_stats.itemcount = Cardinality(Pairs(heap)) + 0
    BY <1>3 DEF Counted
  <2>4. m_stats'.itemcount = Cardinality(Pairs(G)) + (-1)
    BY <1>18, <1>20, <2>2, <2>3
  <2> QED
    BY <1>15, <1>20, <2>1, <2>3, <2>4 DEF Counted
<1>22. ret' \in InsertResult /\ ret'.newchild = d /\ ret'.newkey \in Key
  <2>1. Last(l) \in Pair
    <3>1. Len(l) # 0
      BY <1>13, <1>14
    <3>2. l # <<>>
      BY <3>1
    <3> QED
      BY <1>13, <3>2, FrontIs
  <2>2. Last(l).key \in Key
    BY <2>1 DEF Pair
  <2> QED
    BY <1>9, <1>11, <2>2 DEF InsertResult
<1>23. TypeOK'
  <2>1. {m_root, m_headleaf, m_tailleaf}' \subseteq NodeId \cup {NULL}
    BY <1>9, <1>11 DEF TypeOK
  <2>2. heap' \in [NodeId -> Leaf \cup Inner \cup {NULL}]
    BY <1>g, <1>15 DEF Heaps
  <2> QED
    BY <1>11, <1>16, <1>20, <1>22, <2>1, <2>2 DEF TypeOK
<1>24. IsNext(Allocated(G), Q,
              IF stack' = <<>> THEN m_root ELSE childid(G, Last(stack').curr, Last(stack').slot), d)
  BY <1>11, <1>15, <1>16
<1>25. Going(InsertKinds)' /\ m_root' # NULL
  BY <1>1, <1>11 DEF InsertDown, Going
<1>26. InsertSplit(Q)'
  <2>1. /\ stack' \in Seq(InsertFrame) /\ Path(heap, m_root, stack)' /\ Paused(heap, stack)'
        /\ Shape(heap, m_root, {ret.newchild}, {}, Q)'
        /\ Filled(heap, {}, IF stack = <<>> THEN NULL ELSE m_root, 1)'
        /\ Counted(heap, m_stats, -1)'
    BY <1>11, <1>15, <1>16, <1>17, <1>21, <1>22, <1>g
  <2>2. ret.newchild' # NULL
    BY <1>9, <1>22
  <2>3. IsNext(Allocated(heap), Q,
               IF stack = <<>> THEN m_root ELSE childid(heap, Top.curr, Top.slot), ret.newchild)'
    BY <1>11, <1>22, <1>24, <1>g DEF Top
  <2> QED
    BY <1>22, <1>25, <2>1, <2>2, <2>3 DEF InsertSplit
<1>27. SplitChild' = a
  <2>1. m_root' = m_root /\ heap' = G /\ stack' = Front(stack)
    BY <1>11, <1>g
  <2>2. SplitChild' = IF stack' = <<>> THEN m_root' ELSE childid(heap', Last(stack').curr, Last(stack').slot)
    BY DEF SplitChild, Top
  <2> QED
    BY <1>16, <2>1, <2>2
<1>28. LeafSplit
  <2>1. l # <<>> /\ r # <<>>
    <3>1. Len(l) # 0 /\ Len(r) # 0
      BY <1>14
    <3> QED
      BY <3>1
  <2>2. slot \in 0 .. slotuse(heap, Top.curr) /\ slot = find_lower(heap, Top.curr, op.key)
    BY <1>6, <1>7, <1>a, <1>k
  <2>3. /\ l = LeftHalf(heap[Top.curr].slots, slotuse(heap, Top.curr) \div 2, slot, NewPair)
        /\ r = RightHalf(heap[Top.curr].slots, slotuse(heap, Top.curr) \div 2, slot, NewPair)
    BY <1>a, <1>s, <1>m, <1>x, <1>l, <1>r
  <2>4. /\ heap' = SplitOff(heap, Top.curr, FreshNode(heap), l, r)
        /\ ret' = [newchild |-> FreshNode(heap), newkey |-> Last(l).key]
    BY <1>a, <1>d, <1>g, <1>10, <1>11
  <2>5. SplitChild' = Top.curr
    BY <1>27, <1>a
  <2> QED
    BY <1>13, <2>1, <2>2, <2>3, <2>4, <2>5 DEF LeafSplit
<1>29. \E P : Phase(P)'
  BY <1>26 DEF Phase
<1> QED
  BY <1>23, <1>28, <1>29

-----------------------------------------------------------------------------
(* Inner nodes get other keys and children                                 *)

LEMMA InsertIntoInnerKeeps ==
  ASSUME TypeOK, NEW R, Phase(R), InsertIntoInner
  PROVE  TypeOK' /\ Phase(R)'
<1>p. PICK p : p = Top.curr
  OBVIOUS
<1>k. PICK slot : slot = Top.slot
  OBVIOUS
<1>ks. PICK ks : ks = InsertAt(heap[p].keys, slot + 1, ret.newkey)
  OBVIOUS
<1>cs. PICK cs : cs = InsertAt(heap[p].child, slot + 2, ret.newchild)
  OBVIOUS
<1>g. PICK G : G = heap'
  OBVIOUS
<1>1. InsertSplit(R)
  BY PhaseIs DEF InsertIntoInner
<1>2. heap \in Heaps
  BY CallIs
<1>3. /\ stack \in Seq(InsertFrame) /\ stack # <<>> /\ Path(heap, m_root, stack) /\ Paused(heap, stack)
      /\ Shape(heap, m_root, {ret.newchild}, {}, R) /\ ret.newkey \in Key
      /\ Filled(heap, {}, m_root, 1) /\ Counted(heap, m_stats, -1) /\ m_root # NULL
      /\ IsNext(Allocated(heap), R, childid(heap, p, slot), ret.newchild)
  BY <1>1, <1>p, <1>k DEF InsertSplit, InsertIntoInner, Returning
<1>4. Top \in InsertFrame /\ p \in Allocated(heap) /\ Top = Last(stack)
  BY <1>p, <1>2, <1>3, TopIs
<1>5. heap[p].level > 0 /\ slot \in 0 .. slotuse(heap, p)
  BY <1>p, <1>k, <1>3, <1>4 DEF Paused, AtChild
<1>6. p \in InnerNodes(heap)
  BY <1>2, <1>4, <1>5, NodeIs DEF InnerNodes
<1>7. ~isfull(heap, p)
  BY <1>p DEF InsertIntoInner
<1>8. Rewritten(heap, G, p, ks, cs)
  BY <1>p, <1>k, <1>ks, <1>cs, <1>g DEF InsertIntoInner, Rewritten
<1>9. IsGrown(heap, G, m_root, R, p)
  BY <1>ks, <1>cs, <1>2, <1>3, <1>5, <1>6, <1>7, <1>8, GrowInner
<1>10. /\ G \in Heaps /\ Shape(G, m_root, {}, {}, R) /\ Filled(G, {}, m_root, 1)
       /\ Kept(heap, G, heap[p].level)
       /\ Leaves(G) = Leaves(heap) /\ InnerNodes(G) = InnerNodes(heap) /\ Pairs(G) = Pairs(heap)
  BY <1>9 DEF IsGrown
<1>11. Counted(G, m_stats, -1)
  BY <1>3, <1>10 DEF Counted
<1>12. /\ Path(G, m_root, Front(stack)) /\ Paused(G, Front(stack))
       /\ Front(stack) \in Seq(InsertFrame)
  BY <1>p, <1>2, <1>3, <1>4, <1>10, PathKept, FrontIs
<1>13. /\ stack' = Front(stack) /\ ret' = [newchild |-> NULL, newkey |-> NULL]
       /\ UNCHANGED <<m_root, m_headleaf, m_tailleaf, m_stats, op>>
  BY DEF InsertIntoInner
<1>14. ret' \in InsertResult /\ ret'.newchild = NULL
  BY <1>13 DEF InsertResult
<1>15. TypeOK'
  BY <1>g, <1>10, <1>12, <1>13, <1>14 DEF TypeOK, Heaps
<1>16. InsertUp(R)'
  BY <1>1, <1>g, <1>10, <1>11, <1>12, <1>13, <1>14 DEF InsertUp, InsertSplit, Going
<1> QED
  BY <1>15, <1>16 DEF Phase

-----------------------------------------------------------------------------
(* An inner node is split                                                  *)

\* How the inner node is split.
InnerSplit ==
  \E lk, lc, rk, rc, up :
    /\ IsCut(heap[Top.curr].keys, heap[Top.curr].child, SplitSlot(innerslotmax, Top.slot), Top.slot,
             ret.newkey, ret.newchild, lk, lc, rk, rc, up)
    /\ SplitInner(heap, heap', Top.curr, FreshNode(heap), lk, lc, rk, rc)
    /\ ret' = [newchild |-> FreshNode(heap), newkey |-> up]
    /\ SplitChild' = Top.curr

LEMMA InsertSplitInnerKeeps ==
  ASSUME TypeOK, NEW R, Phase(R), InsertSplitInner
  PROVE  TypeOK' /\ (\E Q : Phase(Q)') /\ InnerSplit
<1>p. PICK p : p = Top.curr
  OBVIOUS
<1>k. PICK slot : slot = Top.slot
  OBVIOUS
<1>d. PICK d : d = FreshNode(heap)
  OBVIOUS
<1>ks. PICK ks : ks = heap[p].keys
  OBVIOUS
<1>cc. PICK cc : cc = heap[p].child
  OBVIOUS
<1>x. PICK x : x = ret.newchild
  OBVIOUS
<1>key. PICK key : key = ret.newkey
  OBVIOUS
<1>cs. PICK cs : cs = InsertAt(cc, slot + 2, x)
  OBVIOUS
<1>m. PICK mid : mid = SplitSlot(Len(ks), slot)
  OBVIOUS
<1>g. PICK G : G = heap'
  OBVIOUS
<1>q. PICK Q : Q = OrderedAfter(R, p, d)
  OBVIOUS
<1>1. InsertSplit(R)
  BY PhaseIs, ZenonT(40) DEF InsertSplitInner
<1>2. heap \in Heaps
  BY CallIs
<1>3. /\ stack \in Seq(InsertFrame) /\ stack # <<>> /\ Path(heap, m_root, stack) /\ Paused(heap, stack)
      /\ Shape(heap, m_root, {x}, {}, R) /\ key \in Key
      /\ Filled(heap, {}, m_root, 1) /\ Counted(heap, m_stats, -1) /\ m_root # NULL
      /\ IsNext(Allocated(heap), R, childid(heap, p, slot), x)
      /\ Tree(heap, m_root, {x}, R) /\ NodesHold(heap, {})
  BY <1>1, <1>p, <1>k, <1>x, <1>key, Zenon DEF InsertSplit, InsertSplitInner, Returning, Shape
<1>4. Top \in InsertFrame /\ p \in Allocated(heap) /\ Top = Last(stack)
  BY <1>p, <1>2, <1>3, TopIs
<1>5. heap[p].level > 0 /\ slot \in 0 .. slotuse(heap, p)
  BY <1>p, <1>k, <1>3, <1>4 DEF Paused, AtChild
<1>6. p \in InnerNodes(heap)
  BY <1>2, <1>4, <1>5, NodeIs DEF InnerNodes
<1>7. /\ ks \in Seq(Key) /\ cc \in Seq(NodeId) /\ Len(ks) = innerslotmax /\ Len(cc) = Len(ks) + 1
      /\ slot \in 0 .. innerslotmax /\ heap[p].level \in Nat /\ slotuse(heap, p) = Len(ks)
  <2>1. /\ ~isleafnode(heap, p) /\ ks \in Seq(Key) /\ cc \in Seq(NodeId)
        /\ slotuse(heap, p) = Len(ks) /\ Kids(heap, p) = cc /\ heap[p].level \in Nat
    BY <1>2, <1>6, <1>ks, <1>cc, InnerNode
  <2>2. slotuse(heap, p) = innerslotmax
    BY <1>p, <2>1, Zenon DEF InsertSplitInner, isfull
  <2>3. Len(cc) = slotuse(heap, p) + 1
    BY <1>3, <1>4, <2>1 DEF NodesHold
  <2> QED
    BY <1>5, <2>1, <2>2, <2>3
<1>8. x \in NodeId
  BY <1>1, <1>x DEF InsertSplit, InsertResult
<1>9. d \in NodeId \ Allocated(heap) /\ d # NULL
  BY <1>d, <1>2, FreshIs, Zenon DEF InsertSplitInner
<1>10. \E lk, lc, rk, rc, up :
         /\ IsCut(ks, cc, mid, slot, key, x, lk, lc, rk, rc, up)
         /\ SplitInner(heap, G, p, d, lk, lc, rk, rc)
         /\ ret' = [newchild |-> d, newkey |-> up]
  <2> DEFINE rchild == SubSeq(cc, mid + 2, Len(cc))
             lkeys == SubSeq(ks, 1, mid)
             lchild == SubSeq(cc, 1, mid + 1)
             rkeys == SubSeq(ks, mid + 2, Len(ks))
             Writes(lk, lc, rk, rc, up) ==
               /\ G = [heap EXCEPT ![p] = [level |-> heap[p].level, keys |-> lk, child |-> lc],
                                   ![d] = [level |-> heap[p].level, keys |-> rk, child |-> rc]]
               /\ ret' = [newchild |-> d, newkey |-> up]
             between == slot = mid + 1 /\ mid < Len(rkeys)
  <2>1. \/ /\ between
           /\ Writes(Append(lkeys, ks[mid + 1]), Append(lchild, Head(rchild)),
                     rkeys, <<x>> \o Tail(rchild), key)
        \/ /\ ~between /\ slot >= mid + 1
           /\ Writes(lkeys, lchild, InsertAt(rkeys, slot - mid, key),
                     InsertAt(rchild, slot - mid + 1, x), ks[mid + 1])
        \/ /\ slot < mid + 1
           /\ Writes(InsertAt(lkeys, slot + 1, key), InsertAt(lchild, slot + 2, x), rkeys, rchild,
                     ks[mid + 1])
    BY <1>p, <1>k, <1>d, <1>ks, <1>cc, <1>x, <1>key, <1>m, <1>g, Zenon DEF InsertSplitInner
  <2>2. ASSUME NEW lk, NEW lc, NEW rk, NEW rc, NEW up, Writes(lk, lc, rk, rc, up)
        PROVE  SplitInner(heap, G, p, d, lk, lc, rk, rc) /\ ret' = [newchild |-> d, newkey |-> up]
    BY <2>2 DEF SplitInner
  <2> HIDE DEF Writes
  <2>3. CASE /\ between
             /\ Writes(Append(lkeys, ks[mid + 1]), Append(lchild, Head(rchild)),
                       rkeys, <<x>> \o Tail(rchild), key)
    <3>1. IsCut(ks, cc, mid, slot, key, x, Append(lkeys, ks[mid + 1]), Append(lchild, Head(rchild)),
                rkeys, <<x>> \o Tail(rchild), key)
      BY <2>3 DEF IsCut, CutBetween
    <3>2. PICK l1 : l1 = Append(lkeys, ks[mid + 1])
      OBVIOUS
    <3>3. PICK l2 : l2 = Append(lchild, Head(rchild))
      OBVIOUS
    <3>4. PICK r2 : r2 = <<x>> \o Tail(rchild)
      OBVIOUS
    <3>5. SplitInner(heap, G, p, d, l1, l2, rkeys, r2) /\ ret' = [newchild |-> d, newkey |-> key]
      BY <2>2, <2>3, <3>2, <3>3, <3>4
    <3>6. IsCut(ks, cc, mid, slot, key, x, l1, l2, rkeys, r2, key)
      BY <3>1, <3>2, <3>3, <3>4
    <3> HIDE DEF rkeys
    <3> QED
      BY <3>5, <3>6
  <2>4. CASE /\ ~between /\ slot >= mid + 1
             /\ Writes(lkeys, lchild, InsertAt(rkeys, slot - mid, key),
                       InsertAt(rchild, slot - mid + 1, x), ks[mid + 1])
    <3>1. IsCut(ks, cc, mid, slot, key, x, lkeys, lchild, InsertAt(rkeys, slot - mid, key),
                InsertAt(rchild, slot - mid + 1, x), ks[mid + 1])
      <4>1. ~between /\ slot >= mid + 1
        BY <2>4
      <4>2. CutRight(ks, cc, mid, slot, key, x, lkeys, lchild, InsertAt(rkeys, slot - mid, key),
                     InsertAt(rchild, slot - mid + 1, x), ks[mid + 1])
        BY <4>1, Zenon DEF CutRight
      <4> QED
        BY <4>2, Zenon DEF IsCut
    <3>2. PICK r1 : r1 = InsertAt(rkeys, slot - mid, key)
      OBVIOUS
    <3>3. PICK r2 : r2 = InsertAt(rchild, slot - mid + 1, x)
      OBVIOUS
    <3>4. Writes(lkeys, lchild, r1, r2, ks[mid + 1])
      BY <2>4, <3>2, <3>3
    <3>5. SplitInner(heap, G, p, d, lkeys, lchild, r1, r2) /\ ret' = [newchild |-> d, newkey |-> ks[mid + 1]]
      BY <2>2, <3>4
    <3>6. IsCut(ks, cc, mid, slot, key, x, lkeys, lchild, r1, r2, ks[mid + 1])
      BY <3>1, <3>2, <3>3
    <3> HIDE DEF lkeys, lchild
    <3> QED
      BY <3>5, <3>6
  <2>5. CASE /\ slot < mid + 1
             /\ Writes(InsertAt(lkeys, slot + 1, key), InsertAt(lchild, slot + 2, x), rkeys, rchild,
                       ks[mid + 1])
    <3>1. IsCut(ks, cc, mid, slot, key, x, InsertAt(lkeys, slot + 1, key),
                InsertAt(lchild, slot + 2, x), rkeys, rchild, ks[mid + 1])
      BY <2>5 DEF IsCut, CutLeft
    <3> QED
      BY <2>2, <2>5, <3>1
  <2> QED
    BY <2>1, <2>3, <2>4, <2>5, Zenon
<1>11. PICK lk, lc, rk, rc, up :
         /\ IsCut(ks, cc, mid, slot, key, x, lk, lc, rk, rc, up)
         /\ SplitInner(heap, G, p, d, lk, lc, rk, rc)
         /\ ret' = [newchild |-> d, newkey |-> up]
  BY <1>10
<1>12. GoodHalves(cs, lk, lc, rk, rc, up)
  <2>1. mid = SplitSlot(innerslotmax, slot)
    BY <1>m, <1>7
  <2> QED
    BY <1>3, <1>7, <1>8, <1>11, <1>cs, <2>1, HalvesOfInner
<1>13. /\ lk \in Seq(Key) /\ rk \in Seq(Key) /\ lc \in Seq(NodeId) /\ rc \in Seq(NodeId)
       /\ Joins(cs, lc, rc) /\ HalfFull(lk, lc) /\ HalfFull(rk, rc) /\ up \in Key
  BY <1>12 DEF GoodHalves
<1>14. IsSplitInner(heap, G, m_root, R, p, d)
  <2>1. cs = InsertAt(heap[p].child, slot + 2, x)
    BY <1>cs, <1>cc
  <2>2. SplitInner(heap, G, p, d, lk, lc, rk, rc)
    BY <1>11
  <2> QED
    BY <1>2, <1>3, <1>5, <1>6, <1>9, <1>13, <2>1, <2>2, SplitInnerShape
<1>15. /\ G \in Heaps /\ Shape(G, m_root, {d}, {}, Q)
       /\ Filled(G, {}, m_root, 1) /\ (p = m_root => Filled(G, {}, NULL, 1))
       /\ IsNext(Allocated(G), Q, p, d) /\ Kept(heap, G, heap[p].level)
       /\ Leaves(G) = Leaves(heap) /\ InnerNodes(G) = InnerNodes(heap) \cup {d}
       /\ Pairs(G) = Pairs(heap)
  BY <1>14, <1>q DEF IsSplitInner
<1>16. stack' = Front(stack) /\ ret' = [newchild |-> d, newkey |-> up]
       /\ m_stats' = [m_stats EXCEPT !.innernodes = @ + 1]
       /\ UNCHANGED <<m_root, m_headleaf, m_tailleaf, op>>
  BY <1>11, Zenon DEF InsertSplitInner
<1>17. /\ Path(G, m_root, Front(stack)) /\ Paused(G, Front(stack))
       /\ Front(stack) \in Seq(InsertFrame)
       /\ Front(stack) = <<>> => p = m_root
       /\ Front(stack) # <<>> => childid(G, Last(Front(stack)).curr, Last(Front(stack)).slot) = p
  <2>1. Last(stack).curr = p
    BY <1>p, <1>4
  <2>2. Kept(heap, G, heap[Last(stack).curr].level)
    BY <1>15, <2>1
  <2> QED
    BY <1>2, <1>3, <2>1, <2>2, PathKept, FrontIs, SMTT(30)
<1>18. Filled(G, {}, IF Front(stack) = <<>> THEN NULL ELSE m_root, 1)
  BY <1>15, <1>17
<1>19. m_stats \in [itemcount : Nat, leaves : Nat, innernodes : Nat]
  BY DEF TypeOK
<1>20. m_stats' \in [itemcount : Nat, leaves : Nat, innernodes : Nat]
       /\ m_stats'.itemcount = m_stats.itemcount /\ m_stats'.leaves = m_stats.leaves
       /\ m_stats'.innernodes = m_stats.innernodes + 1
  BY <1>16, <1>19
<1>21. Counted(G, m_stats', -1)
  <2>1. Cardinality(InnerNodes(G)) = Cardinality(InnerNodes(heap)) + 1
    <3>1. d \notin InnerNodes(heap)
      BY <1>9 DEF InnerNodes
    <3> QED
      BY <1>15, <3>1, AllocatedFinite, OneMore
  <2> QED
    BY <1>3, <1>15, <1>20, <2>1 DEF Counted
<1>22. ret' \in InsertResult /\ ret'.newchild = d /\ ret'.newkey \in Key
  BY <1>9, <1>13, <1>16 DEF InsertResult
<1>23. TypeOK'
  <2>1. heap' \in [NodeId -> Leaf \cup Inner \cup {NULL}]
    BY <1>g, <1>15 DEF Heaps
  <2> QED
    BY <1>16, <1>17, <1>20, <1>22, <2>1 DEF TypeOK
<1>24. IsNext(Allocated(G), Q,
              IF stack' = <<>> THEN m_root ELSE childid(G, Last(stack').curr, Last(stack').slot), d)
  BY <1>15, <1>16, <1>17
<1>25. Going(InsertKinds)' /\ m_root' # NULL
  BY <1>1, <1>16 DEF InsertSplit, Going
<1>26. InsertSplit(Q)'
  <2>1. /\ stack' \in Seq(InsertFrame) /\ Path(heap, m_root, stack)' /\ Paused(heap, stack)'
        /\ Shape(heap, m_root, {ret.newchild}, {}, Q)'
        /\ Filled(heap, {}, IF stack = <<>> THEN NULL ELSE m_root, 1)'
        /\ Counted(heap, m_stats, -1)'
    BY <1>15, <1>16, <1>17, <1>18, <1>21, <1>22, <1>g
  <2>2. ret.newchild' # NULL
    BY <1>9, <1>22
  <2>3. IsNext(Allocated(heap), Q,
               IF stack = <<>> THEN m_root ELSE childid(heap, Top.curr, Top.slot), ret.newchild)'
    BY <1>16, <1>22, <1>24, <1>g DEF Top
  <2> QED
    BY <1>22, <1>25, <2>1, <2>2, <2>3 DEF InsertSplit
<1>27. SplitChild' = p
  <2>1. m_root' = m_root /\ heap' = G /\ stack' = Front(stack)
    BY <1>16, <1>g
  <2>2. SplitChild' = IF stack' = <<>> THEN m_root' ELSE childid(heap', Last(stack').curr, Last(stack').slot)
    BY DEF SplitChild, Top
  <2> QED
    BY <1>17, <2>1, <2>2
<1>28. InnerSplit
  <2>1. IsCut(heap[Top.curr].keys, heap[Top.curr].child, SplitSlot(innerslotmax, Top.slot), Top.slot,
              ret.newkey, ret.newchild, lk, lc, rk, rc, up)
    <3>1. mid = SplitSlot(innerslotmax, slot)
      BY <1>m, <1>7
    <3> QED
      BY <1>11, <1>p, <1>k, <1>ks, <1>cc, <1>x, <1>key, <3>1
  <2>2. /\ SplitInner(heap, heap', Top.curr, FreshNode(heap), lk, lc, rk, rc)
        /\ ret' = [newchild |-> FreshNode(heap), newkey |-> up]
    BY <1>11, <1>p, <1>d, <1>g
  <2>3. SplitChild' = Top.curr
    BY <1>27, <1>p
  <2> QED
    BY <2>1, <2>2, <2>3 DEF InnerSplit
<1>29. \E P : Phase(P)'
  BY <1>26 DEF Phase
<1> QED
  BY <1>23, <1>28, <1>29

-----------------------------------------------------------------------------
(* Trees get a root                                                        *)

LEMMA InsertStartKeeps ==
  ASSUME TypeOK, NEW R, Phase(R), NEW key \in Key, NEW data \in Data, InsertStart(key, data)
  PROVE  TypeOK' /\ \E Q : Phase(Q)'
<1>g. PICK G : G = heap'
  OBVIOUS
<1>f. PICK f : f = [curr |-> m_root', slot |-> 0]
  OBVIOUS
<1>1. AtRest(R)
  BY PhaseIs DEF InsertStart
<1>2. heap \in Heaps
  BY CallIs
<1>3. /\ Shape(heap, m_root, {}, {}, R) /\ Filled(heap, {}, m_root, 1) /\ Counted(heap, m_stats, 0)
      /\ Tree(heap, m_root, {}, R) /\ ret = NULL
  BY <1>1 DEF AtRest, Shape
<1>4. /\ op' = [kind |-> "insert", key |-> key, data |-> data]
      /\ stack' = <<f>> /\ ret' = ret
  BY <1>f DEF InsertStart
<1>5. op' \in Call /\ op'.kind \in InsertKinds
  BY <1>4 DEF Call, InsertKinds
<1>6. Going(InsertKinds)'
  <2>1. op' # NULL
    BY <1>5, NULLAssumption
  <2> QED
    BY <1>5, <2>1 DEF Going
<1>7. SUFFICES \E Q : /\ G \in Heaps /\ {m_root', m_headleaf', m_tailleaf'} \subseteq NodeId \cup {NULL}
                      /\ m_stats' \in [itemcount : Nat, leaves : Nat, innernodes : Nat]
                      /\ m_root' \in Allocated(G) /\ Shape(G, m_root', {}, {}, Q)
                      /\ Filled(G, {}, m_root', 0) /\ Counted(G, m_stats', 0)
  <2> SUFFICES ASSUME NEW Q, /\ G \in Heaps /\ {m_root', m_headleaf', m_tailleaf'} \subseteq NodeId \cup {NULL}
                      /\ m_stats' \in [itemcount : Nat, leaves : Nat, innernodes : Nat]
                      /\ m_root' \in Allocated(G) /\ Shape(G, m_root', {}, {}, Q)
                      /\ Filled(G, {}, m_root', 0) /\ Counted(G, m_stats', 0)
               PROVE  TypeOK' /\ InsertDown(Q)'
    BY DEF Phase
  <2>1. f \in InsertFrame /\ f.curr = m_root' /\ m_root' # NULL /\ G[m_root'].level \in Nat
    BY <1>f, NodeIs DEF InsertFrame
  <2>2. stack' \in Seq(InsertFrame) /\ stack' # <<>>
    BY <1>4, <2>1
  <2>3. Path(G, m_root', stack')
    BY <1>4, <2>1, PathStart
  <2>4. TypeOK'
    <3>1. heap' \in [NodeId -> Leaf \cup Inner \cup {NULL}]
      BY <1>g DEF Heaps
    <3> QED
      BY <1>3, <1>4, <1>5, <2>2, <3>1 DEF TypeOK
  <2>5. InsertDown(Q)'
    BY <1>3, <1>4, <1>6, <1>g, <2>1, <2>2, <2>3 DEF InsertDown
  <2> QED
    BY <2>4, <2>5
<1>8. CASE m_root # NULL
  <2>1. heap' = heap /\ m_root' = m_root /\ m_headleaf' = m_headleaf /\ m_tailleaf' = m_tailleaf
        /\ m_stats' = m_stats
    BY <1>8 DEF InsertStart, treeVars
  <2>2. m_root \in Allocated(heap)
    BY <1>2, <1>3, <1>8, RootIs
  <2>3. Filled(heap, {}, m_root, 0)
    <3> SUFFICES ASSUME NEW a \in Allocated(heap)
                 PROVE  slotuse(heap, a) >= IF a # m_root THEN mininnerslots
                                            ELSE IF isleafnode(heap, a) THEN 0 ELSE 1
      BY DEF Filled
    <3>1. slotuse(heap, a) >= IF a # m_root THEN mininnerslots
                              ELSE IF isleafnode(heap, a) THEN 1 ELSE 1
      BY <1>3 DEF Filled
    <3>2. slotuse(heap, a) \in Nat
      BY <1>2, NodeIs
    <3> QED
      BY <3>1, <3>2
  <2>4. {m_root, m_headleaf, m_tailleaf} \subseteq NodeId \cup {NULL}
        /\ m_stats \in [itemcount : Nat, leaves : Nat, innernodes : Nat]
    BY DEF TypeOK
  <2> QED
    BY <1>2, <1>3, <1>g, <2>1, <2>2, <2>3, <2>4
<1>9. CASE m_root = NULL
  <2>n. PICK n : n = FreshNode(heap)
    OBVIOUS
  <2>1. /\ CanAllocate(heap) /\ Born(heap, G, n, EmptyLeaf)
        /\ m_root' = n /\ m_headleaf' = n /\ m_tailleaf' = n
        /\ m_stats' = [m_stats EXCEPT !.leaves = @ + 1]
    BY <1>9, <1>g, <2>n DEF InsertStart, Born, EmptyLeaf
  <2>2. n \in NodeId
    BY <1>2, <2>1, <2>n, FreshIs
  <2>3. Tree(heap, NULL, {}, R)
    BY <1>3, <1>9
  <2>4. IsFirstLeaf(G, R, n)
    BY <1>2, <2>1, <2>2, <2>3, FirstLeaf
  <2>Q. PICK Q : Q = Put(R, n, {})
    OBVIOUS
  <2>5. /\ G \in Heaps /\ Shape(G, n, {}, {}, Q) /\ Filled(G, {}, n, 0)
        /\ Leaves(G) = {n} /\ InnerNodes(G) = {} /\ Pairs(G) = {}
    BY <2>4, <2>Q DEF IsFirstLeaf
  <2>6. Leaves(heap) = {} /\ InnerNodes(heap) = {} /\ Pairs(heap) = {}
    BY <2>3 DEF Tree, Leaves, InnerNodes, Pairs
  <2>7. n \in Allocated(G)
    BY <2>5 DEF Leaves
  <2>8. m_stats \in [itemcount : Nat, leaves : Nat, innernodes : Nat]
    BY DEF TypeOK
  <2>9. m_stats' \in [itemcount : Nat, leaves : Nat, innernodes : Nat]
        /\ m_stats'.itemcount = m_stats.itemcount /\ m_stats'.leaves = m_stats.leaves + 1
        /\ m_stats'.innernodes = m_stats.innernodes
    BY <2>1, <2>8
  <2>10. Counted(G, m_stats', 0)
    <3>1. Cardinality({n}) = 1 /\ Cardinality({}) = 0
      BY FS_EmptySet, FS_Singleton
    <3>2. m_stats.leaves = 0 /\ m_stats.innernodes = 0 /\ m_stats.itemcount = 0
      BY <1>3, <2>6, <3>1 DEF Counted
    <3> QED
      BY <2>5, <2>9, <3>1, <3>2 DEF Counted
  <2>11. {m_root', m_headleaf', m_tailleaf'} \subseteq NodeId \cup {NULL}
    BY <2>1, <2>2
  <2> QED
    BY <2>1, <2>5, <2>7, <2>9, <2>10, <2>11
<1> QED
  BY <1>8, <1>9

LEMMA InsertFinishKeeps ==
  ASSUME TypeOK, NEW R, Phase(R), InsertFinish
  PROVE  TypeOK' /\ \E Q : Phase(Q)'
<1>g. PICK G : G = heap'
  OBVIOUS
<1>1. stack = <<>> /\ (InsertUp(R) \/ InsertSplit(R))
  BY PhaseIs DEF InsertFinish, Returned
<1>2. heap \in Heaps /\ m_stats \in [itemcount : Nat, leaves : Nat, innernodes : Nat]
      /\ {m_root, m_headleaf, m_tailleaf} \subseteq NodeId \cup {NULL}
  BY CallIs DEF TypeOK
<1>3. op' = NULL /\ ret' = NULL /\ UNCHANGED <<m_headleaf, m_tailleaf, stack>>
  BY DEF InsertFinish
<1>4. SUFFICES \E Q : /\ G \in Heaps /\ m_root' \in NodeId \cup {NULL}
                      /\ m_stats' \in [itemcount : Nat, leaves : Nat, innernodes : Nat]
                      /\ Shape(G, m_root', {}, {}, Q)
                      /\ Filled(G, {}, m_root', 1) /\ Counted(G, m_stats', 0)
  <2> SUFFICES ASSUME NEW Q, /\ G \in Heaps /\ m_root' \in NodeId \cup {NULL}
                      /\ m_stats' \in [itemcount : Nat, leaves : Nat, innernodes : Nat]
                      /\ Shape(G, m_root', {}, {}, Q)
                      /\ Filled(G, {}, m_root', 1) /\ Counted(G, m_stats', 0)
               PROVE  TypeOK' /\ AtRest(Q)'
    BY DEF Phase
  <2>1. TypeOK'
    <3>1. heap' \in [NodeId -> Leaf \cup Inner \cup {NULL}]
      BY <1>g DEF Heaps
    <3>2. stack' \in Seq(InsertFrame)
      BY <1>1, <1>3
    <3> QED
      BY <1>2, <1>3, <3>1, <3>2 DEF TypeOK
  <2>2. AtRest(Q)'
    BY <1>1, <1>3, <1>g DEF AtRest
  <2> QED
    BY <2>1, <2>2
<1>5. CASE InsertUp(R)
  <2>1. ret.newchild = NULL /\ Shape(heap, m_root, {}, {}, R) /\ Filled(heap, {}, m_root, 1)
        /\ Counted(heap, m_stats, -1)
    BY <1>5 DEF InsertUp
  <2>2. m_stats' = [m_stats EXCEPT !.itemcount = @ + 1] /\ heap' = heap /\ m_root' = m_root
    BY <2>1 DEF InsertFinish
  <2>3. m_stats' \in [itemcount : Nat, leaves : Nat, innernodes : Nat]
        /\ m_stats'.itemcount = m_stats.itemcount + 1 /\ m_stats'.leaves = m_stats.leaves
        /\ m_stats'.innernodes = m_stats.innernodes
    BY <1>2, <2>2
  <2>4. Counted(heap, m_stats', 0)
    <3>1. Cardinality(Pairs(heap)) \in Nat
      BY PairsFinite
    <3> QED
      BY <2>1, <2>3, <3>1 DEF Counted
  <2> QED
    BY <1>2, <1>g, <2>1, <2>2, <2>3, <2>4
<1>6. CASE InsertSplit(R)
  <2>n. PICK n : n = FreshNode(heap)
    OBVIOUS
  <2>x. PICK x : x = ret.newchild
    OBVIOUS
  <2>v. PICK v : v = [level |-> heap[m_root].level + 1, keys |-> <<ret.newkey>>, child |-> <<m_root, x>>]
    OBVIOUS
  <2>1. /\ x # NULL /\ ret.newkey \in Key /\ Shape(heap, m_root, {x}, {}, R)
        /\ Filled(heap, {}, NULL, 1) /\ m_root # NULL
        /\ IsNext(Allocated(heap), R, m_root, x) /\ Counted(heap, m_stats, -1)
    BY <1>1, <1>6, <2>x DEF InsertSplit
  <2>2. /\ CanAllocate(heap) /\ Born(heap, G, n, v) /\ m_root' = n
        /\ m_stats' = [m_stats EXCEPT !.itemcount = @ + 1, !.innernodes = @ + 1]
    BY <2>1, <2>x, <2>v, <2>n, <1>g DEF InsertFinish, Born
  <2>3. n \in NodeId \ Allocated(heap)
    BY <1>2, <2>2, <2>n, FreshIs
  <2>4. IsNewRoot(heap, G, R, n)
    <3>1. Born(heap, G, n, v)
      BY <2>2
    <3> QED
      BY <1>2, <2>1, <2>3, <2>v, <3>1, NewRootShape
  <2>Q. PICK Q : Q = Put(R, n, {})
    OBVIOUS
  <2>5. /\ G \in Heaps /\ Shape(G, n, {}, {}, Q) /\ Filled(G, {}, n, 1)
        /\ Leaves(G) = Leaves(heap) /\ InnerNodes(G) = InnerNodes(heap) \cup {n}
        /\ Pairs(G) = Pairs(heap)
    BY <2>4, <2>Q DEF IsNewRoot
  <2>6. m_stats' \in [itemcount : Nat, leaves : Nat, innernodes : Nat]
        /\ m_stats'.itemcount = m_stats.itemcount + 1 /\ m_stats'.leaves = m_stats.leaves
        /\ m_stats'.innernodes = m_stats.innernodes + 1
    <3>1. m_stats.itemcount \in Nat /\ m_stats.leaves \in Nat /\ m_stats.innernodes \in Nat
      BY <1>2
    <3>2. m_stats' = [itemcount |-> m_stats.itemcount + 1, leaves |-> m_stats.leaves,
                      innernodes |-> m_stats.innernodes + 1]
      BY <1>2, <2>2
    <3> QED
      BY <3>1, <3>2
  <2>7. Counted(G, m_stats', 0)
    <3>1. Cardinality(InnerNodes(G)) = Cardinality(InnerNodes(heap)) + 1
      <4>1. n \notin InnerNodes(heap)
        BY <2>3 DEF InnerNodes
      <4> QED
        BY <2>5, <4>1, AllocatedFinite, OneMore
    <3>2. Cardinality(Pairs(heap)) \in Nat
      BY PairsFinite
    <3> QED
      BY <2>1, <2>5, <2>6, <3>1, <3>2 DEF Counted
  <2> QED
    BY <2>2, <2>3, <2>5, <2>6, <2>7
<1> QED
  BY <1>1, <1>5, <1>6

-----------------------------------------------------------------------------
(* Neighbours                                                              *)

LEMMA EraseDescendKeeps ==
  ASSUME TypeOK, NEW R, Phase(R), EraseDescend
  PROVE  TypeOK' /\ Phase(R)'
<1>s. PICK slot : slot = find_lower(heap, Top.curr, op.key)
  OBVIOUS
<1>1. EraseDown(R)
  BY PhaseIs DEF EraseDescend
<1>2. heap \in Heaps
  BY CallIs
<1>3. /\ Shape(heap, m_root, {}, {}, R) /\ Filled(heap, {}, m_root, 1)
      /\ IsDescent(heap, m_root, R, stack) /\ stack \in Seq(EraseFrame) /\ stack # <<>>
      /\ Path(heap, m_root, stack)
  BY <1>1 DEF EraseDown, IsDescent
<1>4. Top.curr \in Allocated(heap) /\ Top = Last(stack) /\ m_root \in Allocated(heap)
  BY <1>2, <1>3, TopIs
<1>5. slot \in 0 .. slotuse(heap, Top.curr)
  BY <1>2, <1>4, <1>s, FindLowerIs
<1>6. heap[Top.curr].level > 0 /\ m_root # NULL
  BY <1>2, <1>4, NodeIs DEF EraseDescend, isleafnode
<1>7. stack' = Append(Front(stack), [Last(stack) EXCEPT !.slot = slot])
                 \o <<ChildFrame(heap, Last(stack), slot)>>
  BY <1>4, <1>s DEF EraseDescend, DescendInto, ChildFrame
<1>8. IsDescent(heap, m_root, R, stack')
  <2>u. PICK u : u = stack'
    OBVIOUS
  <2>1. IsDescent(heap, m_root, R, u)
    BY <1>2, <1>3, <1>4, <1>5, <1>6, <1>7, <2>u, Descend
  <2> QED
    BY <2>u, <2>1
<1>9. UNCHANGED <<treeVars, op, ret>>
  BY DEF EraseDescend
<1>10. TypeOK'
  BY <1>8, <1>9 DEF TypeOK, treeVars, IsDescent
<1>11. EraseDown(R)'
  BY <1>1, <1>8, <1>9 DEF EraseDown, treeVars, Going, IsDescent
<1> QED
  BY <1>10, <1>11 DEF Phase

LEMMA EraseNextSlotKeeps ==
  ASSUME TypeOK, NEW R, Phase(R), EraseNextSlot
  PROVE  TypeOK' /\ Phase(R)'
<1>s. PICK slot : slot = Top.slot + 1
  OBVIOUS
<1>1. EraseUp(R) /\ stack # <<>> /\ ret.notFound
  <2>1. ret.notFound /\ Returning(EraseKinds) /\ stack # <<>>
    BY DEF EraseNextSlot, Returning
  <2> QED
    BY <2>1, PhaseIs DEF EraseUp, EraseMerged
<1>2. heap \in Heaps
  BY CallIs
<1>3. /\ Shape(heap, m_root, {}, {}, R) /\ Filled(heap, {}, m_root, 1)
      /\ IsDescent(heap, m_root, R, stack) /\ stack \in Seq(EraseFrame)
      /\ Path(heap, m_root, stack) /\ Paused(heap, stack) /\ Counted(heap, m_stats, 0)
  BY <1>1 DEF EraseUp, IsDescent
<1>4. Top.curr \in Allocated(heap) /\ Top = Last(stack) /\ Top \in EraseFrame /\ m_root \in Allocated(heap)
  BY <1>1, <1>2, <1>3, TopIs
<1>5. heap[Top.curr].level > 0 /\ Top.slot \in 0 .. slotuse(heap, Top.curr) /\ m_root # NULL
      /\ slotuse(heap, Top.curr) \in Nat
  BY <1>1, <1>2, <1>3, <1>4, NodeIs DEF Paused, AtChild
<1>6. slot \in 0 .. slotuse(heap, Top.curr)
  BY <1>5, <1>s DEF EraseNextSlot, NextChild
<1>7. stack' = Append(Front(stack), [Last(stack) EXCEPT !.slot = slot])
                 \o <<ChildFrame(heap, Last(stack), slot)>>
  BY <1>4, <1>s DEF EraseNextSlot, DescendInto, ChildFrame
<1>8. IsDescent(heap, m_root, R, stack')
  <2>u. PICK u : u = stack'
    OBVIOUS
  <2>1. IsDescent(heap, m_root, R, u)
    BY <1>2, <1>3, <1>4, <1>5, <1>6, <1>7, <2>u, Descend
  <2> QED
    BY <2>u, <2>1
<1>9. UNCHANGED <<treeVars, op>> /\ ret' = NULL
  BY DEF EraseNextSlot
<1>10. TypeOK'
  BY <1>8, <1>9 DEF TypeOK, treeVars, IsDescent
<1>11. EraseDown(R)'
  BY <1>1, <1>3, <1>8, <1>9 DEF EraseUp, EraseDown, treeVars, Going, IsDescent
<1> QED
  BY <1>10, <1>11 DEF Phase

LEMMA EraseMissKeeps ==
  ASSUME TypeOK, NEW R, Phase(R), EraseMiss
  PROVE  TypeOK' /\ Phase(R)'
<1>1. EraseDown(R)
  BY PhaseIs DEF EraseMiss
<1>2. heap \in Heaps
  BY CallIs
<1>3. /\ Shape(heap, m_root, {}, {}, R) /\ IsDescent(heap, m_root, R, stack)
      /\ stack \in Seq(EraseFrame) /\ stack # <<>> /\ Path(heap, m_root, stack)
      /\ Counted(heap, m_stats, 0)
  BY <1>1 DEF EraseDown, IsDescent
<1>4. m_root # NULL
  BY <1>2, <1>3, TopIs, NodeIs
<1>5. /\ Front(stack) \in Seq(EraseFrame) /\ Path(heap, m_root, Front(stack)) /\ Paused(heap, Front(stack))
      /\ Surrounded(heap, R, Front(stack))
  BY <1>2, <1>3, <1>4, FrameGone
<1>6. stack' = Front(stack) /\ ret' = NotFound /\ UNCHANGED <<treeVars, op>>
  BY DEF EraseMiss, EraseReturns
<1>7. TypeOK'
  BY <1>5, <1>6, NoLeafResult DEF TypeOK, treeVars
<1>8. EraseUp(R)'
  BY <1>1, <1>5, <1>6, NoLeafResult DEF EraseUp, EraseDown, treeVars, Going
<1> QED
  BY <1>7, <1>8 DEF Phase

LEMMA ErasePassKeeps ==
  ASSUME TypeOK, NEW R, Phase(R), ErasePass
  PROVE  TypeOK' /\ Phase(R)'
<1>1. EraseUp(R) /\ stack # <<>> /\ ret.notFound
  <2>1. ret.notFound /\ Returning(EraseKinds) /\ stack # <<>>
    BY DEF ErasePass, Returning
  <2> QED
    BY <2>1, PhaseIs DEF EraseUp, EraseMerged
<1>2. heap \in Heaps
  BY CallIs
<1>3. /\ Shape(heap, m_root, {}, {}, R) /\ IsDescent(heap, m_root, R, stack)
      /\ stack \in Seq(EraseFrame) /\ stack # <<>> /\ Path(heap, m_root, stack)
      /\ Counted(heap, m_stats, 0)
  BY <1>1 DEF EraseUp, IsDescent
<1>4. m_root # NULL
  BY <1>2, <1>3, TopIs, NodeIs
<1>5. /\ Front(stack) \in Seq(EraseFrame) /\ Path(heap, m_root, Front(stack)) /\ Paused(heap, Front(stack))
      /\ Surrounded(heap, R, Front(stack))
  BY <1>2, <1>3, <1>4, FrameGone
<1>6. stack' = Front(stack) /\ ret' = ret /\ UNCHANGED <<treeVars, op>>
  BY DEF ErasePass, EraseReturns
<1>7. TypeOK'
  BY <1>5, <1>6 DEF TypeOK, treeVars
<1>8. EraseUp(R)'
  BY <1>1, <1>5, <1>6 DEF EraseUp, treeVars, Going
<1> QED
  BY <1>7, <1>8 DEF Phase

LEMMA EraseBegins ==
  ASSUME TypeOK, NEW R, Phase(R), Idle, m_root # NULL, op' \in Call, op'.kind \in EraseKinds,
         stack' = <<RootFrame(m_root)>>, UNCHANGED <<treeVars, ret>>
  PROVE  TypeOK' /\ Phase(R)'
<1>1. AtRest(R)
  BY PhaseIs
<1>2. heap \in Heaps
  BY CallIs
<1>3. Shape(heap, m_root, {}, {}, R) /\ Filled(heap, {}, m_root, 1) /\ Counted(heap, m_stats, 0)
      /\ ret = NULL
  BY <1>1 DEF AtRest
<1>4. IsDescent(heap, m_root, R, stack')
  <2>u. PICK u : u = stack'
    OBVIOUS
  <2>1. IsDescent(heap, m_root, R, u)
    BY <1>2, <1>3, <2>u, RootDescent
  <2> QED
    BY <2>u, <2>1
<1>5. Going(EraseKinds)'
  <2>1. op' # NULL
    BY NULLAssumption
  <2> QED
    BY <2>1 DEF Going
<1>6. TypeOK'
  BY <1>4 DEF TypeOK, treeVars, IsDescent
<1>7. EraseDown(R)'
  BY <1>3, <1>4, <1>5 DEF EraseDown, treeVars, IsDescent
<1> QED
  BY <1>6, <1>7 DEF Phase

LEMMA EraseStartKeeps ==
  ASSUME TypeOK, NEW R, Phase(R), NEW key \in Key, NEW kind \in KeyKinds, EraseStart(kind, key)
  PROVE  TypeOK' /\ Phase(R)'
<1>1. op' = [kind |-> kind, key |-> key]
  BY DEF EraseStart
<1>2. op' \in Call /\ op'.kind \in EraseKinds
  BY <1>1 DEF Call, EraseKinds
<1>3. /\ Idle /\ m_root # NULL /\ stack' = <<RootFrame(m_root)>> /\ UNCHANGED <<treeVars, ret>>
  BY DEF EraseStart
<1> QED
  BY <1>2, <1>3, EraseBegins

LEMMA EraseIterStartKeeps ==
  ASSUME TypeOK, NEW R, Phase(R), NEW leaf \in NodeId, NEW slot \in Nat, EraseIterStart(leaf, slot)
  PROVE  TypeOK' /\ Phase(R)'
<1>1. heap \in Heaps
  BY CallIs
<1>2. /\ Idle /\ leaf \in Allocated(heap) /\ slot \in 0 .. slotuse(heap, leaf) - 1
      /\ op' = [kind |-> "erase_iter", key |-> slotkey(heap, leaf, slot), leaf |-> leaf, slot |-> slot]
      /\ stack' = <<RootFrame(m_root)>> /\ UNCHANGED <<treeVars, ret>>
  BY DEF EraseIterStart
<1>3. slotkey(heap, leaf, slot) \in Key
  BY <1>1, <1>2, SlotKey
<1>4. op' \in Call /\ op'.kind \in EraseKinds
  <2>k. PICK k : k = slotkey(heap, leaf, slot)
    OBVIOUS
  <2>1. op' = [kind |-> "erase_iter", key |-> k, leaf |-> leaf, slot |-> slot] /\ k \in Key
    BY <1>2, <1>3, <2>k
  <2> QED
    BY <2>1 DEF Call, EraseKinds
<1>5. m_root # NULL
  <2>1. AtRest(R)
    BY <1>2, PhaseIs
  <2> QED
    BY <1>2, <2>1 DEF AtRest, Shape, Tree
<1> QED
  BY <1>2, <1>4, <1>5, EraseBegins

LEMMA EraseFinishKeeps ==
  ASSUME TypeOK, NEW R, Phase(R), EraseFinish
  PROVE  TypeOK' /\ Phase(R)'
<1>1. EraseUp(R) /\ stack = <<>>
  BY PhaseIs DEF EraseFinish, Returned
<1>2. heap \in Heaps /\ m_stats \in [itemcount : Nat, leaves : Nat, innernodes : Nat]
  BY CallIs DEF TypeOK
<1>3. /\ Shape(heap, m_root, {}, {}, R) /\ Filled(heap, {}, m_root, 1)
      /\ Counted(heap, m_stats, IF ret.notFound THEN 0 ELSE 1)
  BY <1>1 DEF EraseUp
<1>4. /\ m_stats' = IF ret.notFound THEN m_stats ELSE [m_stats EXCEPT !.itemcount = @ - 1]
      /\ ret' = NULL /\ UNCHANGED <<heap, m_root, m_headleaf, m_tailleaf>>
  BY DEF EraseFinish
<1>5. m_stats' \in [itemcount : Nat, leaves : Nat, innernodes : Nat] /\ Counted(heap, m_stats', 0)
  <2>1. CASE ret.notFound
    BY <1>2, <1>3, <1>4, <2>1
  <2>2. CASE ~ret.notFound
    <3>1. Cardinality(Pairs(heap)) \in Nat
      BY PairsFinite
    <3>2. Counted(heap, m_stats, 1)
      BY <1>3, <2>2
    <3>3. m_stats.itemcount = Cardinality(Pairs(heap)) + 1
          /\ m_stats.leaves = Cardinality(Leaves(heap))
          /\ m_stats.innernodes = Cardinality(InnerNodes(heap))
      BY <3>2 DEF Counted
    <3>4. m_stats' = [itemcount |-> m_stats.itemcount - 1, leaves |-> m_stats.leaves,
                      innernodes |-> m_stats.innernodes]
      BY <1>2, <1>4, <2>2
    <3>5. m_stats.leaves \in Nat /\ m_stats.innernodes \in Nat
      BY <1>2
    <3> QED
      BY <3>1, <3>3, <3>4, <3>5 DEF Counted
  <2> QED
    BY <2>1, <2>2
<1>6. CASE Again
  <2>1. stack' = <<RootFrame(m_root)>> /\ op' = op /\ m_root # NULL
    BY <1>6 DEF EraseFinish, Again
  <2>2. IsDescent(heap, m_root, R, stack')
    <3>u. PICK u : u = stack'
      OBVIOUS
    <3>1. IsDescent(heap, m_root, R, u)
      BY <1>2, <1>3, <2>1, <3>u, RootDescent
    <3> QED
      BY <3>u, <3>1
  <2>3. TypeOK'
    BY <1>4, <1>5, <2>1, <2>2 DEF TypeOK, IsDescent
  <2>4. EraseDown(R)'
    BY <1>1, <1>3, <1>4, <1>5, <2>1, <2>2 DEF EraseDown, EraseUp, Going, IsDescent
  <2> QED
    BY <2>3, <2>4 DEF Phase
<1>7. CASE ~Again
  <2>1. stack' = <<>> /\ op' = NULL
    BY <1>1, <1>7 DEF EraseFinish
  <2>2. <<>> \in Seq(EraseFrame)
    OBVIOUS
  <2>3. TypeOK'
    BY <1>4, <1>5, <2>1, <2>2 DEF TypeOK
  <2>4. AtRest(R)'
    BY <1>3, <1>4, <1>5, <2>1 DEF AtRest
  <2> QED
    BY <2>3, <2>4 DEF Phase
<1> QED
  BY <1>6, <1>7

-----------------------------------------------------------------------------
(* A pair leaves a leaf                                                    *)

\* The stack of an erase that is going down, and the tree it finds.
IsErasing(R) ==
  /\ heap \in Heaps /\ m_root # NULL /\ stack \in Seq(EraseFrame) /\ stack # <<>>
  /\ IsDescent(heap, m_root, R, stack) /\ Top = Last(stack) /\ Top \in EraseFrame
  /\ Top.curr \in Allocated(heap) /\ Placed(heap, Top) /\ IsPlaced(heap, m_root, stack)
  /\ Shape(heap, m_root, {}, {}, R) /\ Filled(heap, {}, m_root, 1) /\ Counted(heap, m_stats, 0)
  /\ op \in Call

LEMMA ErasingIs ==
  ASSUME TypeOK, NEW R, EraseDown(R)
  PROVE  IsErasing(R)
<1>1. heap \in Heaps /\ op \in Call
  BY CallIs DEF EraseDown
<1>2. /\ stack \in Seq(EraseFrame) /\ stack # <<>> /\ Path(heap, m_root, stack)
      /\ Surrounded(heap, R, stack)
      /\ Shape(heap, m_root, {}, {}, R) /\ Filled(heap, {}, m_root, 1) /\ Counted(heap, m_stats, 0)
  BY DEF EraseDown
<1>3. IsDescent(heap, m_root, R, stack)
  BY <1>2 DEF IsDescent
<1>4. Top = Last(stack) /\ Top \in EraseFrame /\ Top.curr \in Allocated(heap) /\ m_root \in Allocated(heap)
  BY <1>1, <1>2, TopIs
<1>5. m_root # NULL
  BY <1>1, <1>4, NodeIs
<1>6. IsPlaced(heap, m_root, stack)
  BY <1>1, <1>3, PlacedIs
<1>7. Placed(heap, Top)
  BY <1>4, <1>6 DEF IsPlaced
<1> QED
  BY <1>1, <1>2, <1>3, <1>4, <1>5, <1>6, <1>7 DEF IsErasing

\* The pair to erase is one of the leaf.
LEMMA TargetIs ==
  ASSUME TypeOK, op \in Call, Top.curr \in Leaves(heap), OnTarget
  PROVE  TargetSlot \in 0 .. slotuse(heap, Top.curr) - 1
<1>a. PICK a : a = Top.curr
  OBVIOUS
<1>1. a \in Allocated(heap) /\ slotuse(heap, a) \in Nat /\ heap \in Heaps
  BY <1>a, LeafNode, CallIs
<1>2. CASE op.kind = "erase_iter"
  <2>1. op.slot \in Nat
    BY <1>2 DEF Call, InsertKinds, KeyKinds
  <2>2. op.slot < slotuse(heap, a) /\ TargetSlot = op.slot
    BY <1>a, <1>2 DEF OnTarget, TargetSlot
  <2> QED
    BY <1>a, <1>1, <2>1, <2>2
<1>3. CASE op.kind # "erase_iter"
  <2>1. TargetSlot = find_lower(heap, a, op.key) /\ TargetSlot < slotuse(heap, a)
    BY <1>a, <1>3 DEF OnTarget, TargetSlot, InLeaf
  <2>2. TargetSlot \in 0 .. slotuse(heap, a)
    BY <1>1, <2>1, FindLowerIs
  <2> QED
    BY <1>a, <1>1, <2>1, <2>2
<1> QED
  BY <1>2, <1>3

LEMMA RemovedIs ==
  ASSUME TypeOK, NEW R, IsErasing(R), Top.curr \in Leaves(heap),
         NEW slot \in 0 .. slotuse(heap, Top.curr) - 1, NEW H, H = Removed(Top.curr, slot)
  PROVE  Thinned(heap, H, m_root, R, Top.curr) /\ ReportedKey(H, Top.curr, slot) \in Key \cup {NULL}
<1>a. PICK a : a = Top.curr
  OBVIOUS
<1>b. PICK G : G = [heap EXCEPT ![a].slots = RemoveAt(@, slot + 1)]
  OBVIOUS
<1>1. /\ heap \in Heaps /\ m_root # NULL /\ a \in Allocated(heap) /\ Placed(heap, Top)
      /\ Shape(heap, m_root, {}, {}, R) /\ Filled(heap, {}, m_root, 1)
  BY <1>a DEF IsErasing
<1>2. Refilled(heap, G, a, RemoveAt(heap[a].slots, slot + 1))
  BY <1>a, <1>b, <1>1 DEF Refilled, Heaps
<1>3. Thinned(heap, G, m_root, R, a)
  BY <1>a, <1>1, <1>2, PairTaken
<1>4. G \in Heaps /\ SameNodes(heap, G) /\ a \in Leaves(G)
  BY <1>3 DEF Thinned
<1>5. H = IF slot = slotuse(G, a) /\ slot > 0 /\ OwnsKey(G, Top)
            THEN SetKey(G, Top.parent, Top.parentslot, LastKey(G, a)) ELSE G
  BY <1>a, <1>b DEF Removed
<1>6. H \in Heaps /\ Rekeyed(G, H)
  <2>1. CASE slot = slotuse(G, a) /\ slot > 0 /\ OwnsKey(G, Top)
    <3>1. LastKey(G, a) \in Key
      <4>1. a \in Allocated(G) /\ slotuse(G, a) >= 1
        BY <1>4, <2>1 DEF Leaves
      <4> QED
        BY <1>4, <4>1, SlotKey
    <3>2. Top.parent \in Allocated(heap) /\ heap[Top.parent].level = heap[Top.curr].level + 1
      BY <1>1, <2>1 DEF Placed, OwnsKey
    <3>3. heap[Top.curr].level \in Nat
      BY <1>a, <1>1, NodeIs
    <3>4. Top.parent \in Allocated(G) /\ G[Top.parent].level > 0
      BY <1>4, <3>2, <3>3 DEF SameNodes
    <3>5. PICK p, k, s : p = Top.parent /\ k = LastKey(G, a) /\ s = Top.parentslot
      OBVIOUS
    <3>6. SetKey(G, p, s, k) \in Heaps /\ Rekeyed(G, SetKey(G, p, s, k))
      BY <1>4, <3>1, <3>4, <3>5, SetKeyIs
    <3> QED
      BY <1>5, <2>1, <3>5, <3>6
  <2>2. CASE ~(slot = slotuse(G, a) /\ slot > 0 /\ OwnsKey(G, Top))
    BY <1>4, <1>5, <2>2, RekeyedSelf
  <2> QED
    BY <2>1, <2>2
<1>7. Thinned(heap, H, m_root, R, a)
  BY <1>1, <1>3, <1>6, ThinnedRekeyed
<1>8. ReportedKey(H, a, slot) \in Key \cup {NULL}
  <2>1. a \in Allocated(H)
    BY <1>7 DEF Thinned, Leaves
  <2>2. slotuse(H, a) >= 1 => LastKey(H, a) \in Key
    BY <1>6, <2>1, SlotKey
  <2>3. slot = slotuse(H, a) /\ slot > 0 => slotuse(H, a) >= 1
    OBVIOUS
  <2> QED
    BY <2>2, <2>3 DEF ReportedKey
<1> QED
  BY <1>a, <1>7, <1>8

LEMMA EraseHitIs ==
  ASSUME TypeOK, NEW R, Phase(R), EraseHit
  PROVE  /\ IsErasing(R) /\ Top.curr \in Leaves(heap) /\ UNCHANGED op /\ Going(EraseKinds)
         /\ \E H, up : /\ Thinned(heap, H, m_root, R, Top.curr) /\ up \in Key \cup {NULL}
                       /\ LeafKept(H, up) \/ TreeEmptied(H) \/ LeafBalanced(H, up)
<1>1. EraseDown(R) /\ Going(EraseKinds)
  BY PhaseIs DEF EraseHit, Calling
<1>2. IsErasing(R)
  BY <1>1, ErasingIs
<1>3. Top.curr \in Leaves(heap)
  BY <1>2 DEF IsErasing, EraseHit, Leaves
<1>4. TargetSlot \in 0 .. slotuse(heap, Top.curr) - 1
  BY <1>2, <1>3, TargetIs DEF IsErasing, EraseHit
<1>5. PICK H, up : /\ H = Removed(Top.curr, TargetSlot) /\ up = ReportedKey(H, Top.curr, TargetSlot)
                   /\ LeafKept(H, up) \/ TreeEmptied(H) \/ LeafBalanced(H, up)
  BY DEF EraseHit
<1>6. PICK slot : slot = TargetSlot
  OBVIOUS
<1>7. Thinned(heap, H, m_root, R, Top.curr) /\ ReportedKey(H, Top.curr, slot) \in Key \cup {NULL}
  BY <1>2, <1>3, <1>4, <1>5, <1>6, RemovedIs
<1>8. UNCHANGED op
  BY DEF EraseHit
<1> QED
  BY <1>1, <1>2, <1>3, <1>5, <1>6, <1>7, <1>8

-----------------------------------------------------------------------------
(* An erase on a leaf                                                      *)

\* The frames above a leaf after a change among the leaves.
AboveIs(G, R) ==
  /\ Front(stack) \in Seq(EraseFrame) /\ Path(G, m_root, Front(stack))
  /\ Paused(G, Front(stack)) /\ Surrounded(G, R, Front(stack))

LEMMA AboveLeaf ==
  ASSUME NEW R, IsErasing(R), Top.curr \in Leaves(heap),
         NEW G, Kept(heap, G, 0), Allocated(G) = Allocated(heap)
  PROVE  AboveIs(G, R)
<1>1. /\ heap \in Heaps /\ m_root # NULL /\ stack \in Seq(EraseFrame) /\ stack # <<>>
      /\ IsDescent(heap, m_root, R, stack) /\ Top = Last(stack) /\ Tree(heap, m_root, {}, R)
  BY DEF IsErasing, Shape
<1>2. Path(heap, m_root, stack) /\ Surrounded(heap, R, stack)
  BY <1>1 DEF IsDescent
<1>3. heap[Last(stack).curr].level = 0
  BY <1>1, LeafNode
<1>4. Kept(heap, G, heap[Last(stack).curr].level)
  BY <1>3
<1>5. SameOrder(heap, R, G, R, heap[Last(stack).curr].level)
  BY DEF SameOrder
<1>6. Forest(Allocated(heap), LevelsOf(heap), KidsOf(heap), {m_root}, R)
  <2>1. ({m_root} \ {NULL}) \cup {} = {m_root}
    BY <1>1
  <2> QED
    BY <1>1, <2>1, TreeIs
<1>7. Surrounded(G, R, Front(stack))
  BY <1>1, <1>2, <1>4, <1>5, <1>6, SurroundedKept
<1>8. Path(G, m_root, Front(stack)) /\ Paused(G, Front(stack))
  BY <1>1, <1>2, <1>4, PathKept
<1>9. Front(stack) \in Seq(EraseFrame)
  BY <1>1, FrontIs
<1> QED
  BY <1>7, <1>8, <1>9 DEF AboveIs

\* The call returns to the level above, with a tree that is in order again.
LEMMA LeafGoesUp ==
  ASSUME TypeOK, NEW R, IsErasing(R), Going(EraseKinds), Top.curr \in Leaves(heap),
         NEW G \in Heaps, heap' = G, Kept(heap, G, 0), SameNodes(heap, G),
         Shape(G, m_root, {}, {}, R), Filled(G, {}, m_root, 1), Counted(G, m_stats, 1),
         NEW up \in Key \cup {NULL}, EraseReturns(Found(FALSE, up)),
         UNCHANGED <<m_root, m_headleaf, m_tailleaf, m_stats, op>>
  PROVE  TypeOK' /\ Phase(R)'
<1>1. Allocated(G) = Allocated(heap)
  BY DEF SameNodes
<1>2. AboveIs(G, R)
  BY <1>1, AboveLeaf
<1>3. stack' = Front(stack) /\ ret' = [notFound |-> FALSE, fixmerge |-> FALSE, lastkey |-> up]
  BY DEF EraseReturns, Found
<1>4. ret' \in EraseResult /\ ~ret'.fixmerge /\ ~ret'.notFound
  BY <1>3 DEF EraseResult
<1>5. /\ stack' \in Seq(EraseFrame) /\ Path(heap', m_root', stack') /\ Paused(heap', stack')
      /\ Surrounded(heap', R, stack')
  BY <1>2, <1>3 DEF AboveIs
<1>6. TypeOK'
  BY <1>4, <1>5 DEF TypeOK, Heaps
<1>7. Going(EraseKinds)' /\ Shape(heap', m_root', {}, {}, R) /\ Filled(heap', {}, m_root', 1)
  BY DEF Going
<1>8. Counted(heap', m_stats', IF ret'.notFound THEN 0 ELSE 1)
  BY <1>4
<1>9. EraseUp(R)'
  BY <1>4, <1>5, <1>7, <1>8 DEF EraseUp
<1> QED
  BY <1>6, <1>9 DEF Phase

\* A merge among the leaves; the leaf in slot s of the node above is empty now.
LEMMA LeafMergeGoesUp ==
  ASSUME TypeOK, NEW R, IsErasing(R), Going(EraseKinds), Top.curr \in Leaves(heap),
         Top.parent # NULL, NEW G \in Heaps, heap' = G, Kept(heap, G, 0), SameNodes(heap, G),
         NEW b, b = childid(G, Top.parent, EmptySlot(G, Above(stack))),
         EmptySlot(G, Above(stack)) \in 1 .. slotuse(G, Top.parent),
         Shape(G, m_root, {}, {b}, R), Filled(G, {b}, m_root, 1), Counted(G, m_stats, 1),
         NEW up \in Key \cup {NULL}, EraseReturns(Found(TRUE, up)),
         m_tailleaf' \in NodeId \cup {NULL}, UNCHANGED <<m_root, m_headleaf, m_stats, op>>
  PROVE  TypeOK' /\ Phase(R)'
<1>1. Allocated(G) = Allocated(heap)
  BY DEF SameNodes
<1>2. AboveIs(G, R)
  BY <1>1, AboveLeaf
<1>3. stack' = Front(stack) /\ ret' = [notFound |-> FALSE, fixmerge |-> TRUE, lastkey |-> up]
  BY DEF EraseReturns, Found
<1>4. ret' \in EraseResult /\ ret'.fixmerge /\ ~ret'.notFound
  BY <1>3 DEF EraseResult
<1>5. /\ stack' \in Seq(EraseFrame) /\ Path(heap', m_root', stack') /\ Paused(heap', stack')
      /\ Surrounded(heap', R, stack')
  BY <1>2, <1>3 DEF AboveIs
<1>6. TypeOK'
  BY <1>4, <1>5 DEF TypeOK, Heaps
<1>7. stack' # <<>> /\ Top' = Above(stack) /\ Above(stack).curr = Top.parent
  BY <1>3 DEF IsErasing, IsPlaced, Above, Top
<1>8. Hollow(heap', Top') = {b} /\ EmptySlot(heap', Top') \in 1 .. slotuse(heap', Top'.curr)
  BY <1>7 DEF Hollow
<1>9. Going(EraseKinds)' /\ Counted(heap', m_stats', 1)
  BY DEF Going
<1>10. Shape(heap', m_root', {}, Hollow(heap', Top'), R) /\ Filled(heap', Hollow(heap', Top'), m_root', 1)
  BY <1>8
<1>11. EraseMerged(R)'
  BY <1>4, <1>5, <1>7, <1>8, <1>9, <1>10 DEF EraseMerged
<1> QED
  BY <1>6, <1>11 DEF Phase

LEMMA LeafKeptKeeps ==
  ASSUME TypeOK, NEW R, IsErasing(R), Going(EraseKinds), Top.curr \in Leaves(heap),
         NEW H, Thinned(heap, H, m_root, R, Top.curr), NEW up \in Key \cup {NULL},
         LeafKept(H, up), UNCHANGED op
  PROVE  TypeOK' /\ Phase(R)'
<1>a. PICK a : a = Top.curr
  OBVIOUS
<1>1. /\ H \in Heaps /\ Shape(H, m_root, {}, {}, R) /\ Filled(H, {a}, m_root, 1)
      /\ SameNodes(heap, H) /\ Kept(heap, H, 0) /\ a \in Leaves(H)
      /\ Leaves(H) = Leaves(heap) /\ InnerNodes(H) = InnerNodes(heap)
      /\ Cardinality(Pairs(H)) - Cardinality(Pairs(heap)) = -1
  BY <1>a DEF Thinned
<1>2. /\ ~NeedsRemedy(H, a) /\ heap' = H /\ EraseReturns(Found(FALSE, up))
      /\ UNCHANGED <<m_root, m_headleaf, m_tailleaf, m_stats, op>>
  BY <1>a DEF LeafKept
<1>3. slotuse(H, a) \in Nat /\ isleafnode(H, a)
  BY <1>1, LeafNode
<1>4. slotuse(H, a) >= IF a # m_root THEN mininnerslots ELSE 1
  BY <1>2, <1>3, Sizes DEF NeedsRemedy, isunderflow
<1>5. Filled(H, {}, m_root, 1)
  <2> SUFFICES ASSUME NEW n \in Allocated(H)
               PROVE  slotuse(H, n) >= IF n # m_root THEN mininnerslots
                                       ELSE IF isleafnode(H, n) THEN 1 ELSE 1
    BY DEF Filled
  <2>1. CASE n = a
    BY <1>4, <2>1
  <2>2. CASE n # a
    BY <1>1, <2>2 DEF Filled
  <2> QED
    BY <2>1, <2>2
<1>6. Counted(H, m_stats, 1)
  <2>1. Counted(heap, m_stats, 0)
    BY DEF IsErasing
  <2>2. Counted(H, m_stats, 0 - (-1))
    BY <1>1, <2>1, CountedNodes
  <2> QED
    BY <2>2
<1> QED
  BY <1>1, <1>2, <1>5, <1>6, LeafGoesUp

\* A node without neighbours is the root.
LEMMA NoNeighbours ==
  ASSUME NEW R, IsErasing(R), NEW H, Kept(heap, H, heap[Top.curr].level),
         Top.left = NULL, Top.right = NULL
  PROVE  Top.parent = NULL /\ Top.curr = m_root /\ Front(stack) = <<>>
<1>1. /\ heap \in Heaps /\ Placed(heap, Top) /\ IsPlaced(heap, m_root, stack) /\ Top = Last(stack)
      /\ Filled(heap, {}, m_root, 1) /\ Top.curr \in Allocated(heap)
  BY DEF IsErasing
<1>2. ASSUME Top.parent # NULL PROVE FALSE
  <2>1. PICK p : p = Top.parent
    OBVIOUS
  <2>2. p \in Allocated(heap) /\ heap[p].level = heap[Top.curr].level + 1 /\ heap[Top.curr].level \in Nat
    BY <1>1, <1>2, <2>1, NodeIs DEF Placed
  <2>3. ~HasLeft(heap, Top) /\ ~HasRight(heap, Top)
    BY <1>1, <1>2 DEF Placed, HasLeft, HasRight
  <2>4. Top.parentslot = 0 /\ Top.parentslot = slotuse(heap, p)
    BY <1>1, <1>2, <2>1, <2>3 DEF Placed
  <2>5. slotuse(heap, p) >= 1
    <3>1. slotuse(heap, p) >= IF p # m_root THEN mininnerslots ELSE IF isleafnode(heap, p) THEN 1 ELSE 1
      BY <1>1, <2>2 DEF Filled
    <3>2. slotuse(heap, p) \in Nat
      BY <1>1, <2>2, NodeIs
    <3> QED
      BY <3>1, <3>2, Sizes
  <2> QED
    BY <2>4, <2>5
<1>3. Top.parent = NULL
  BY <1>2
<1> QED
  BY <1>1, <1>3 DEF IsPlaced

LEMMA TreeEmptiedKeeps ==
  ASSUME TypeOK, NEW R, IsErasing(R), Going(EraseKinds), Top.curr \in Leaves(heap),
         NEW H, Thinned(heap, H, m_root, R, Top.curr), TreeEmptied(H), UNCHANGED op
  PROVE  TypeOK' /\ \E Q : Phase(Q)'
<1>a. PICK a : a = Top.curr
  OBVIOUS
<1>b. PICK G : G = heap'
  OBVIOUS
<1>c. PICK Q : Q = [n \in {} |-> {}]
  OBVIOUS
<1>1. /\ H \in Heaps /\ Shape(H, m_root, {}, {}, R) /\ SameNodes(heap, H)
      /\ a \in Leaves(H) /\ Leaves(H) = Leaves(heap) /\ InnerNodes(H) = InnerNodes(heap)
      /\ Kept(heap, H, 0) /\ Cardinality(Pairs(H)) - Cardinality(Pairs(heap)) = -1
  BY <1>a DEF Thinned
<1>2. /\ NeedsRemedy(H, a) /\ Top.left = NULL /\ Top.right = NULL
      /\ G = [H EXCEPT ![m_root] = NULL]
      /\ m_root' = NULL /\ m_headleaf' = NULL /\ m_tailleaf' = NULL
      /\ m_stats' = [m_stats EXCEPT !.leaves = @ - 1]
      /\ EraseReturns(Found(FALSE, NULL)) /\ op' = op
  BY <1>a, <1>b DEF TreeEmptied
<1>3. heap[Top.curr].level = 0
  BY LeafNode DEF IsErasing
<1>4. Top.curr = m_root /\ Front(stack) = <<>>
  BY <1>1, <1>2, <1>3, NoNeighbours
<1>5. slotuse(H, a) = 0
  <2>1. slotuse(H, a) \in Nat
    BY <1>1, LeafNode
  <2> QED
    BY <1>2, <1>4, <1>a, <2>1 DEF NeedsRemedy
<1>6. Allocated(H) = {a} /\ Leaves(H) = {a} /\ InnerNodes(H) = {}
  <2>1. Tree(H, a, {}, R)
    BY <1>1, <1>4, <1>a DEF Shape
  <2> QED
    BY <1>1, <2>1, OnlyLeaf
<1>7. Pairs(H) = {}
  <2>1. \A q \in Pairs(H) : q[1] = a /\ q[2] \in 1 .. leafslotmax /\ q[2] <= slotuse(H, q[1])
    BY <1>6 DEF Pairs
  <2> QED
    BY <1>5, <2>1, Sizes
<1>8. Counted(heap, m_stats, 0) /\ heap \in Heaps
  BY DEF IsErasing
<1>9. /\ m_stats.leaves = 1 /\ m_stats.innernodes = 0 /\ m_stats.itemcount = 1
  <2>1. Cardinality({a}) = 1
    BY FS_Singleton
  <2>2. Cardinality({}) = 0
    BY FS_EmptySet
  <2>3. Cardinality(Pairs(heap)) \in Nat /\ Cardinality(Pairs(H)) = 0
    BY <1>7, <2>2, PairsFinite
  <2>4. Leaves(heap) = {a} /\ InnerNodes(heap) = {}
    BY <1>1, <1>6
  <2>5. m_stats.leaves = 1 /\ m_stats.innernodes = 0
    BY <1>8, <2>1, <2>2, <2>4 DEF Counted
  <2>6. Cardinality(Pairs(heap)) = 1
    BY <1>1, <2>3
  <2>7. m_stats.itemcount = Cardinality(Pairs(heap)) + 0
    BY <1>8 DEF Counted
  <2> QED
    BY <2>5, <2>6, <2>7
<1>10. m_stats' = [itemcount |-> 1, leaves |-> 0, innernodes |-> 0]
  <2>1. m_stats = [itemcount |-> 1, leaves |-> 1, innernodes |-> 0]
    BY <1>9 DEF TypeOK
  <2> QED
    BY <1>2, <2>1
<1>11. a \in NodeId /\ G \in Heaps /\ Allocated(G) = {}
  <2>1. a \in NodeId
    BY <1>1, LeafNode
  <2>2. DOMAIN H = NodeId /\ \A n \in NodeId : H[n] \in Leaf \cup Inner \cup {NULL}
    BY <1>1 DEF Heaps
  <2>3. G \in Heaps
    BY <1>2, <2>2 DEF Heaps
  <2>4. G[a] = NULL /\ \A n \in NodeId \ {a} : G[n] = H[n]
    BY <1>2, <1>4, <1>a, <2>1, <2>2
  <2> QED
    BY <1>6, <2>1, <2>3, <2>4 DEF Allocated
<1>12. IsEmptyTree(G, Q)
  BY <1>11, <1>c, EmptyTree
<1>13. Shape(G, NULL, {}, {}, Q) /\ Filled(G, {}, NULL, 1)
  BY <1>12 DEF IsEmptyTree
<1>14. Counted(G, m_stats', 1)
  <2>1. Cardinality({}) = 0
    BY FS_EmptySet
  <2> QED
    BY <1>10, <1>12, <2>1 DEF Counted, IsEmptyTree
<1>15. stack' = <<>> /\ ret' = [notFound |-> FALSE, fixmerge |-> FALSE, lastkey |-> NULL]
  BY <1>2, <1>4 DEF EraseReturns, Found
<1>16. ret' \in EraseResult /\ ~ret'.fixmerge /\ ~ret'.notFound
  BY <1>15 DEF EraseResult
<1>17. /\ stack' \in Seq(EraseFrame) /\ Path(G, NULL, stack') /\ Paused(G, stack')
       /\ Surrounded(G, Q, stack')
  BY <1>15 DEF Path, Paused, Surrounded
<1>18. TypeOK'
  <2>1. m_stats' \in [itemcount : Nat, leaves : Nat, innernodes : Nat]
    BY <1>10
  <2> QED
    BY <1>2, <1>11, <1>16, <1>17, <1>b, <2>1 DEF TypeOK, Heaps
<1>19. Counted(G, m_stats', IF ret'.notFound THEN 0 ELSE 1)
  BY <1>14, <1>16
<1>20. Going(EraseKinds)'
  BY <1>2 DEF Going
<1>21. EraseUp(Q)'
  BY <1>2, <1>13, <1>16, <1>17, <1>19, <1>20, <1>b DEF EraseUp
<1> QED
  BY <1>18, <1>21 DEF Phase

\* A leaf that has to be merged or refilled.
IsPoorLeaf(R, H) ==
  /\ Top.parent # NULL /\ Top.parent \in Allocated(H) /\ H[Top.parent].level = 1
  /\ Top.curr # m_root /\ slotuse(H, Top.curr) + 1 = mininnerslots
  /\ slotuse(H, Top.parent) \in Nat
  /\ Placed(H, Top) /\ GoodRemedy(H, Top) /\ Placed(heap, Top)
  /\ Above(stack).curr = Top.parent /\ Above(stack).slot = Top.parentslot

LEMMA PoorLeafIs ==
  ASSUME TypeOK, NEW R, IsErasing(R), Top.curr \in Leaves(heap),
         NEW H, Thinned(heap, H, m_root, R, Top.curr), NeedsRemedy(H, Top.curr),
         Top.left # NULL \/ Top.right # NULL
  PROVE  IsPoorLeaf(R, H)
<1>a. PICK a, p, t : a = Top.curr /\ p = Top.parent /\ t = Top
  OBVIOUS
<1>1. /\ heap \in Heaps /\ m_root # NULL /\ Placed(heap, t) /\ IsPlaced(heap, m_root, stack)
      /\ Filled(heap, {}, m_root, 1) /\ a \in Allocated(heap) /\ t = Last(stack)
  BY <1>a DEF IsErasing
<1>2. /\ H \in Heaps /\ Filled(H, {a}, m_root, 1) /\ SameNodes(heap, H) /\ Kept(heap, H, 0)
      /\ a \in Leaves(H) /\ slotuse(H, a) = slotuse(heap, a) - 1
  BY <1>a DEF Thinned
<1>3. heap[a].level = 0 /\ slotuse(heap, a) \in Nat /\ slotuse(H, a) \in Nat
  <2>1. a \in Leaves(heap)
    BY <1>a
  <2>2. heap[a].level = 0 /\ slotuse(heap, a) \in Nat
    BY <1>1, <2>1, LeafNode
  <2>3. slotuse(H, a) \in Nat
    BY <1>2, LeafNode
  <2> QED
    BY <2>2, <2>3
<1>4. p # NULL
  BY <1>1, <1>a DEF Placed
<1>5. p \in Allocated(heap) /\ heap[p].level = 1
  BY <1>1, <1>3, <1>4, <1>a DEF Placed
<1>6. p \in Allocated(H) /\ H[p].level = 1 /\ p # a
  BY <1>2, <1>3, <1>5 DEF SameNodes
<1>7. a # m_root /\ Above(stack).curr = p /\ Above(stack).slot = t.parentslot
  BY <1>1, <1>4, <1>a DEF IsPlaced
<1>8. slotuse(H, a) + 1 = mininnerslots
  <2>1. slotuse(heap, a) >= IF a # m_root THEN mininnerslots ELSE IF isleafnode(heap, a) THEN 1 ELSE 1
    BY <1>1 DEF Filled
  <2>2. slotuse(heap, a) >= mininnerslots
    BY <1>7, <2>1
  <2>3. slotuse(H, a) < mininnerslots
    BY <1>a DEF NeedsRemedy, isunderflow
  <2> QED
    BY <1>2, <1>3, <2>2, <2>3, Sizes
<1>9. slotuse(H, p) \in Nat /\ slotuse(H, p) >= 1
  <2>1. slotuse(H, p) >= IF p # m_root THEN mininnerslots ELSE IF isleafnode(H, p) THEN 1 ELSE 1
    BY <1>2, <1>6 DEF Filled
  <2>2. slotuse(H, p) \in Nat
    BY <1>2, <1>6, NodeIs
  <2> QED
    BY <2>1, <2>2, Sizes
<1>10. Placed(H, t)
  <2>1. Kept(heap, H, heap[t.curr].level) /\ t.curr \in Allocated(heap)
    BY <1>1, <1>2, <1>3, <1>a
  <2> QED
    BY <1>1, <2>1, PlacedKept
<1>11. GoodRemedy(H, t)
  BY <1>4, <1>9, <1>10, <1>a, RemedyIs
<1> QED
  BY <1>1, <1>4, <1>6, <1>7, <1>8, <1>9, <1>10, <1>11, <1>a DEF IsPoorLeaf

LEMMA MergedGoesUp ==
  ASSUME TypeOK, NEW R, IsErasing(R), Going(EraseKinds), Top.curr \in Leaves(heap),
         NEW H, Thinned(heap, H, m_root, R, Top.curr), IsPoorLeaf(R, H),
         NEW G, heap' = G, NEW a, NEW b, IsMerged(H, G, m_root, R, a, b),
         EmptySlot(G, Above(stack)) \in 1 .. slotuse(H, Top.parent),
         b = childid(H, Top.parent, EmptySlot(G, Above(stack))),
         Top.parent \notin {a, b},
         NEW up \in Key \cup {NULL}, EraseReturns(Found(TRUE, up)),
         m_tailleaf' \in NodeId \cup {NULL}, UNCHANGED <<m_root, m_headleaf, m_stats, op>>
  PROVE  TypeOK' /\ Phase(R)'
<1>a. PICK p, e : p = Top.parent /\ e = EmptySlot(G, Above(stack))
  OBVIOUS
<1>1. /\ heap \in Heaps /\ H \in Heaps /\ SameNodes(heap, H) /\ Kept(heap, H, 0)
      /\ Leaves(H) = Leaves(heap) /\ InnerNodes(H) = InnerNodes(heap)
      /\ Cardinality(Pairs(H)) - Cardinality(Pairs(heap)) = -1 /\ Counted(heap, m_stats, 0)
  BY DEF Thinned, IsErasing
<1>2. /\ G \in Heaps /\ Shape(G, m_root, {}, {b}, R) /\ Filled(G, {b}, m_root, 1)
      /\ SameNodes(H, G) /\ Kept(H, G, 0) /\ Leaves(G) = Leaves(H) /\ InnerNodes(G) = InnerNodes(H)
      /\ \A n \in NodeId \ {a, b} : slotuse(G, n) = slotuse(H, n)
      /\ Cardinality(Pairs(G)) - Cardinality(Pairs(H)) = 0
  BY DEF IsMerged
<1>3. p \in Allocated(H) /\ H[p].level = 1 /\ p # NULL
  BY <1>a DEF IsPoorLeaf
<1>4. slotuse(G, p) = slotuse(H, p) /\ childid(G, p, e) = childid(H, p, e)
  BY <1>1, <1>2, <1>3, KeptChild
<1>5. SameNodes(heap, G)
  BY <1>1, <1>2 DEF SameNodes
<1>6. Kept(heap, G, 0)
  <2>1. \A n \in Allocated(heap) : heap[n].level \in Int
    BY <1>1, NodeIs
  <2> QED
    BY <1>1, <1>2, <2>1, KeptTwice
<1>7. Counted(G, m_stats, 1)
  <2>1. Cardinality(Pairs(G)) - Cardinality(Pairs(heap)) = -1
    BY <1>1, <1>2, PairsFinite
  <2>2. Leaves(G) = Leaves(heap) /\ InnerNodes(G) = InnerNodes(heap)
    BY <1>1, <1>2
  <2>3. Counted(G, m_stats, 0 - (-1))
    BY <1>1, <2>1, <2>2, CountedNodes
  <2> QED
    BY <2>3
<1>8. b = childid(G, Top.parent, EmptySlot(G, Above(stack)))
      /\ EmptySlot(G, Above(stack)) \in 1 .. slotuse(G, Top.parent)
  BY <1>4, <1>a
<1>9. Top.parent # NULL
  BY <1>3, <1>a
<1> QED
  BY <1>2, <1>5, <1>6, <1>7, <1>8, <1>9, LeafMergeGoesUp

\* What LeafBalanced finds and what it leaves.
Leaving(R, H) ==
  /\ TypeOK /\ IsErasing(R) /\ Going(EraseKinds) /\ Top.curr \in Leaves(heap)
  /\ Thinned(heap, H, m_root, R, Top.curr) /\ IsPoorLeaf(R, H)
  /\ UNCHANGED <<m_root, m_headleaf, m_stats, op>>

LEMMA LeafMergeLeft ==
  ASSUME MergedFits, NEW R, NEW H, Leaving(R, H), NEW up \in Key \cup {NULL},
         Remedy(H, Top) = "merge_left", LeafMerged(H, up, Top.left, Top.curr)
  PROVE  /\ TypeOK' /\ Phase(R)'
         /\ NextLeaves(H, m_root, R, Top.left, Top.curr)
         /\ IsMerged(H, heap', m_root, R, Top.left, Top.curr)
<1>a. PICK a, p, l, s, G : a = Top.curr /\ p = Top.parent /\ l = Top.left /\ s = Top.parentslot - 1
                           /\ G = heap'
  OBVIOUS
<1>1. /\ TypeOK /\ IsErasing(R) /\ Going(EraseKinds) /\ a \in Leaves(heap) /\ m_root # NULL
      /\ Thinned(heap, H, m_root, R, a) /\ IsPoorLeaf(R, H)
      /\ UNCHANGED <<m_root, m_headleaf, m_stats, op>>
  BY <1>a DEF Leaving, IsErasing
<1>2. H \in Heaps /\ Shape(H, m_root, {}, {}, R) /\ Filled(H, {a}, m_root, 1)
  BY <1>1 DEF Thinned
<1>3. /\ p \in Allocated(H) /\ H[p].level = 1 /\ slotuse(H, a) + 1 = mininnerslots
      /\ slotuse(H, p) \in Nat /\ childid(H, p, Top.parentslot) = a
      /\ Above(stack).curr = p /\ Above(stack).slot = Top.parentslot
  BY <1>1, <1>a DEF IsPoorLeaf, Placed
<1>4. HasLeft(H, Top) /\ isfew(H, l)
  BY <1>1, <1>a DEF IsPoorLeaf, GoodRemedy
<1>5. Top.parentslot \in 1 .. slotuse(H, p) /\ l = childid(H, p, s)
  BY <1>4, <1>a DEF HasLeft
<1>6. s \in 0 .. slotuse(H, p) /\ s < slotuse(H, p) /\ s + 1 = Top.parentslot
  BY <1>3, <1>5, <1>a
<1>7. a = childid(H, p, s + 1)
  BY <1>3, <1>6
<1>8. NextLeaves(H, m_root, R, l, a)
  BY <1>1, <1>2, <1>3, <1>5, <1>6, <1>7, NextLeavesAre
<1>9. l \in Leaves(H) /\ a \in Leaves(H) /\ IsNext(Allocated(H), R, l, a) /\ l # a /\ l # m_root
  BY <1>8 DEF NextLeaves
<1>10. /\ l \in NodeId /\ l \in Allocated(H) /\ slotuse(H, l) \in Nat /\ slotuse(H, a) \in Nat
       /\ isleafnode(H, l) /\ isleafnode(H, a) /\ H[l].level = 0 /\ H[a].level = 0
  BY <1>2, <1>9, LeafNode
<1>11. slotuse(H, l) <= minleafslots /\ slotuse(H, l) >= 1
  <2>1. slotuse(H, l) >= IF l # m_root THEN mininnerslots ELSE IF isleafnode(H, l) THEN 1 ELSE 1
    BY <1>2, <1>9, <1>10 DEF Filled
  <2>2. slotuse(H, l) <= minleafslots
    BY <1>4, <1>10 DEF isfew
  <2> QED
    BY <1>9, <1>10, <2>1, <2>2, Sizes
<1>12. slotuse(H, l) + slotuse(H, a) <= leafslotmax /\ slotuse(H, l) + slotuse(H, a) >= mininnerslots
  BY <1>3, <1>10, <1>11, MergeCounts
<1>13. G = merge_leaves(H, l, a) /\ EraseReturns(Found(TRUE, up))
       /\ m_tailleaf' = IF H[a].next = NULL THEN l ELSE m_tailleaf
  BY <1>a DEF LeafMerged
<1>14. IsMerged(H, G, m_root, R, l, a)
  <2>1. PICK E : E = {a}
    OBVIOUS
  <2>2. E \subseteq {l, a} /\ Filled(H, E, m_root, 1)
    BY <1>2, <2>1
  <2> QED
    BY <1>1, <1>2, <1>9, <1>12, <1>13, <2>2, MergeLeavesShape
<1>15. slotuse(G, a) = 0 /\ Kept(H, G, 0)
  BY <1>14 DEF IsMerged
<1>16. childid(G, p, Top.parentslot) = a
  BY <1>2, <1>3, <1>15, KeptChild
<1>17. EmptySlot(G, Above(stack)) = Top.parentslot
  BY <1>3, <1>15, <1>16 DEF EmptySlot
<1>18. /\ EmptySlot(G, Above(stack)) \in 1 .. slotuse(H, Top.parent)
       /\ a = childid(H, Top.parent, EmptySlot(G, Above(stack)))
  BY <1>3, <1>5, <1>17, <1>a
<1>19. Top.parent \notin {l, a}
  BY <1>3, <1>10, <1>a
<1>20. m_tailleaf' \in NodeId \cup {NULL}
  BY <1>1, <1>10, <1>13 DEF TypeOK
<1>21. TypeOK' /\ Phase(R)'
  BY <1>1, <1>13, <1>14, <1>18, <1>19, <1>20, <1>a, MergedGoesUp
<1> QED
  BY <1>8, <1>14, <1>21, <1>a

LEMMA LeafMergeRight ==
  ASSUME MergedFits, NEW R, NEW H, Leaving(R, H), NEW up \in Key \cup {NULL},
         Remedy(H, Top) = "merge_right", LeafMerged(H, up, Top.curr, Top.right)
  PROVE  /\ TypeOK' /\ Phase(R)'
         /\ NextLeaves(H, m_root, R, Top.curr, Top.right)
         /\ IsMerged(H, heap', m_root, R, Top.curr, Top.right)
<1>a. PICK a, p, r, s, G : a = Top.curr /\ p = Top.parent /\ r = Top.right /\ s = Top.parentslot
                           /\ G = heap'
  OBVIOUS
<1>1. /\ TypeOK /\ IsErasing(R) /\ Going(EraseKinds) /\ a \in Leaves(heap) /\ m_root # NULL
      /\ Thinned(heap, H, m_root, R, a) /\ IsPoorLeaf(R, H)
      /\ UNCHANGED <<m_root, m_headleaf, m_stats, op>>
  BY <1>a DEF Leaving, IsErasing
<1>2. H \in Heaps /\ Shape(H, m_root, {}, {}, R) /\ Filled(H, {a}, m_root, 1)
  BY <1>1 DEF Thinned
<1>3. /\ p \in Allocated(H) /\ H[p].level = 1 /\ slotuse(H, a) + 1 = mininnerslots
      /\ slotuse(H, p) \in Nat /\ childid(H, p, s) = a
      /\ Above(stack).curr = p /\ Above(stack).slot = s
  BY <1>1, <1>a DEF IsPoorLeaf, Placed
<1>4. HasRight(H, Top) /\ isfew(H, r)
  BY <1>1, <1>a DEF IsPoorLeaf, GoodRemedy
<1>5. s \in 0 .. slotuse(H, p) /\ s < slotuse(H, p) /\ r = childid(H, p, s + 1)
  BY <1>4, <1>a DEF HasRight
<1>8. NextLeaves(H, m_root, R, a, r)
  BY <1>1, <1>2, <1>3, <1>5, NextLeavesAre
<1>9. r \in Leaves(H) /\ a \in Leaves(H) /\ IsNext(Allocated(H), R, a, r) /\ r # a /\ r # m_root
  BY <1>8 DEF NextLeaves
<1>10. /\ a \in NodeId /\ r \in Allocated(H) /\ slotuse(H, r) \in Nat /\ slotuse(H, a) \in Nat
       /\ isleafnode(H, r) /\ isleafnode(H, a) /\ H[r].level = 0 /\ H[a].level = 0
  BY <1>2, <1>9, LeafNode
<1>11. slotuse(H, r) <= minleafslots /\ slotuse(H, r) >= 1
  <2>1. slotuse(H, r) >= IF r # m_root THEN mininnerslots ELSE IF isleafnode(H, r) THEN 1 ELSE 1
    BY <1>2, <1>9, <1>10 DEF Filled
  <2>2. slotuse(H, r) <= minleafslots
    BY <1>4, <1>10 DEF isfew
  <2> QED
    BY <1>9, <1>10, <2>1, <2>2, Sizes
<1>12. slotuse(H, a) + slotuse(H, r) <= leafslotmax /\ slotuse(H, a) + slotuse(H, r) >= mininnerslots
  BY <1>3, <1>10, <1>11, MergeCounts
<1>13. G = merge_leaves(H, a, r) /\ EraseReturns(Found(TRUE, up))
       /\ m_tailleaf' = IF H[r].next = NULL THEN a ELSE m_tailleaf
  BY <1>a DEF LeafMerged
<1>14. IsMerged(H, G, m_root, R, a, r)
  <2>1. PICK E : E = {a}
    OBVIOUS
  <2>2. E \subseteq {a, r} /\ Filled(H, E, m_root, 1)
    BY <1>2, <2>1
  <2> QED
    BY <1>1, <1>2, <1>9, <1>12, <1>13, <2>2, MergeLeavesShape
<1>15. slotuse(G, a) = slotuse(H, a) + slotuse(H, r) /\ Kept(H, G, 0)
  BY <1>14 DEF IsMerged
<1>16. childid(G, p, s) = a
  BY <1>2, <1>3, <1>15, KeptChild
<1>17. EmptySlot(G, Above(stack)) = s + 1
  <2>1. slotuse(G, a) # 0
    BY <1>10, <1>11, <1>15
  <2> QED
    BY <1>3, <1>16, <2>1 DEF EmptySlot
<1>18. /\ EmptySlot(G, Above(stack)) \in 1 .. slotuse(H, Top.parent)
       /\ r = childid(H, Top.parent, EmptySlot(G, Above(stack)))
  <2>1. s + 1 \in 1 .. slotuse(H, p)
    BY <1>3, <1>5
  <2> QED
    BY <1>5, <1>17, <1>a, <2>1
<1>19. Top.parent \notin {a, r}
  BY <1>3, <1>10, <1>a
<1>20. m_tailleaf' \in NodeId \cup {NULL}
  BY <1>1, <1>10, <1>13 DEF TypeOK
<1>21. TypeOK' /\ Phase(R)'
  BY <1>1, <1>13, <1>14, <1>18, <1>19, <1>20, <1>a, MergedGoesUp
<1> QED
  BY <1>8, <1>14, <1>21, <1>a

LEMMA ShiftedGoesUp ==
  ASSUME NEW R, NEW H, Leaving(R, H), NEW G, heap' = G, IsShifted(H, G, m_root, R),
         NEW up \in Key \cup {NULL}, EraseReturns(Found(FALSE, up)), UNCHANGED m_tailleaf
  PROVE  TypeOK' /\ Phase(R)'
<1>1. /\ TypeOK /\ IsErasing(R) /\ Going(EraseKinds) /\ Top.curr \in Leaves(heap)
      /\ UNCHANGED <<m_root, m_headleaf, m_stats, op>> /\ heap \in Heaps
  BY DEF Leaving, IsErasing
<1>2. /\ SameNodes(heap, H) /\ Kept(heap, H, 0)
      /\ Leaves(H) = Leaves(heap) /\ InnerNodes(H) = InnerNodes(heap)
      /\ Cardinality(Pairs(H)) - Cardinality(Pairs(heap)) = -1 /\ Counted(heap, m_stats, 0)
  BY DEF Leaving, Thinned, IsErasing
<1>3. /\ G \in Heaps /\ Shape(G, m_root, {}, {}, R) /\ Filled(G, {}, m_root, 1)
      /\ SameNodes(H, G) /\ Kept(H, G, 0) /\ Leaves(G) = Leaves(H) /\ InnerNodes(G) = InnerNodes(H)
      /\ Cardinality(Pairs(G)) - Cardinality(Pairs(H)) = 0
  BY DEF IsShifted
<1>4. SameNodes(heap, G)
  BY <1>2, <1>3 DEF SameNodes
<1>5. Kept(heap, G, 0)
  <2>1. \A n \in Allocated(heap) : heap[n].level \in Int
    BY <1>1, NodeIs
  <2> QED
    BY <1>2, <1>3, <2>1, KeptTwice
<1>6. Counted(G, m_stats, 1)
  <2>1. Cardinality(Pairs(G)) - Cardinality(Pairs(heap)) = -1
    BY <1>2, <1>3, PairsFinite
  <2>2. Leaves(G) = Leaves(heap) /\ InnerNodes(G) = InnerNodes(heap)
    BY <1>2, <1>3
  <2>3. Counted(G, m_stats, 0 - (-1))
    BY <1>2, <2>1, <2>2, CountedNodes
  <2> QED
    BY <2>3
<1>7. UNCHANGED <<m_root, m_headleaf, m_tailleaf, m_stats, op>>
  BY <1>1
<1> QED
  BY <1>1, <1>3, <1>4, <1>5, <1>6, <1>7, LeafGoesUp

LEMMA LeafShiftLeft ==
  ASSUME MergedFits, NEW R, NEW H, Leaving(R, H), NEW up \in Key \cup {NULL},
         Remedy(H, Top) = "shift_left",
         LET G == shift_left_leaf(H, Top.curr, Top.right)
             here == Top.parentslot < slotuse(G, Top.rightparent)
         IN /\ heap' = SetKey(G, Top.rightparent, Top.parentslot, LastKey(G, Top.curr))
            /\ EraseReturns(Found(FALSE, IF here THEN up ELSE LastKey(G, Top.curr))),
         UNCHANGED m_tailleaf
  PROVE  TypeOK' /\ Phase(R)' /\ IsShifted(H, heap', m_root, R)
<1>a. PICK a, p, r, s, G : a = Top.curr /\ p = Top.parent /\ r = Top.right /\ s = Top.parentslot
                           /\ G = heap'
  OBVIOUS
<1>b. PICK M : M = shift_left_leaf(H, a, r)
  OBVIOUS
<1>1. /\ IsErasing(R) /\ a \in Leaves(heap) /\ m_root # NULL
      /\ Thinned(heap, H, m_root, R, a) /\ IsPoorLeaf(R, H)
  BY <1>a DEF Leaving, IsErasing
<1>2. H \in Heaps /\ Shape(H, m_root, {}, {}, R) /\ Filled(H, {a}, m_root, 1)
  BY <1>1 DEF Thinned
<1>3. /\ p \in Allocated(H) /\ H[p].level = 1 /\ slotuse(H, a) + 1 = mininnerslots
      /\ slotuse(H, p) \in Nat /\ childid(H, p, s) = a
  BY <1>1, <1>a DEF IsPoorLeaf, Placed
<1>4. HasRight(H, Top) /\ ~isfew(H, r)
  BY <1>1, <1>a DEF IsPoorLeaf, GoodRemedy
<1>5. s \in 0 .. slotuse(H, p) /\ s < slotuse(H, p) /\ r = childid(H, p, s + 1) /\ Top.rightparent = p
  BY <1>4, <1>a DEF HasRight
<1>6. NextLeaves(H, m_root, R, a, r)
  BY <1>1, <1>2, <1>3, <1>5, NextLeavesAre
<1>7. r \in Leaves(H) /\ a \in Leaves(H) /\ a # r
  BY <1>6 DEF NextLeaves
<1>8. IsShifted(H, M, m_root, R)
  <2>1. PICK E : E = {a}
    OBVIOUS
  <2>2. E \subseteq {a, r} /\ Filled(H, E, m_root, 1)
    BY <1>2, <2>1
  <2> QED
    BY <1>1, <1>2, <1>3, <1>4, <1>7, <1>b, <2>2, ShiftLeftLeafIs
<1>9. a \in Leaves(M)
  BY <1>7, <1>8 DEF IsShifted
<1>10. LastKey(M, a) \in Key
  BY <1>8, <1>9, ShiftedLastKey
<1>11. G = SetKey(M, p, s, LastKey(M, a))
  BY <1>5, <1>a, <1>b
<1>12. IsShifted(H, G, m_root, R)
  <2>1. H[p].level > 0
    BY <1>3
  <2> QED
    BY <1>1, <1>2, <1>3, <1>8, <1>9, <1>11, <2>1, ShiftedSetKey
<1>13. PICK u : u = IF s < slotuse(M, p) THEN up ELSE LastKey(M, a)
  OBVIOUS
<1>14. u \in Key \cup {NULL} /\ EraseReturns(Found(FALSE, u))
  BY <1>5, <1>10, <1>13, <1>a, <1>b
<1>15. TypeOK' /\ Phase(R)'
  BY <1>12, <1>14, <1>a, ShiftedGoesUp
<1> QED
  BY <1>12, <1>15, <1>a

LEMMA LeafShiftRight ==
  ASSUME MergedFits, NEW R, NEW H, Leaving(R, H), NEW up \in Key \cup {NULL},
         Remedy(H, Top) = "shift_right",
         heap' = shift_right_leaf(H, Top.left, Top.curr, Top.leftparent, Top.parentslot - 1),
         EraseReturns(Found(FALSE, up)), UNCHANGED m_tailleaf
  PROVE  TypeOK' /\ Phase(R)' /\ IsShifted(H, heap', m_root, R)
<1>a. PICK a, p, l, s, G : a = Top.curr /\ p = Top.parent /\ l = Top.left /\ s = Top.parentslot - 1
                           /\ G = heap'
  OBVIOUS
<1>b. PICK M : M = ShiftedRight(H, l, a)
  OBVIOUS
<1>1. /\ IsErasing(R) /\ a \in Leaves(heap) /\ m_root # NULL
      /\ Thinned(heap, H, m_root, R, a) /\ IsPoorLeaf(R, H)
  BY <1>a DEF Leaving, IsErasing
<1>2. H \in Heaps /\ Shape(H, m_root, {}, {}, R) /\ Filled(H, {a}, m_root, 1)
  BY <1>1 DEF Thinned
<1>3. /\ p \in Allocated(H) /\ H[p].level = 1 /\ slotuse(H, a) + 1 = mininnerslots
      /\ slotuse(H, p) \in Nat /\ childid(H, p, Top.parentslot) = a
  BY <1>1, <1>a DEF IsPoorLeaf, Placed
<1>4. HasLeft(H, Top) /\ ~isfew(H, l)
  BY <1>1, <1>a DEF IsPoorLeaf, GoodRemedy
<1>5. Top.parentslot \in 1 .. slotuse(H, p) /\ l = childid(H, p, s) /\ Top.leftparent = p
  BY <1>4, <1>a DEF HasLeft
<1>6. s \in 0 .. slotuse(H, p) /\ s < slotuse(H, p) /\ s + 1 = Top.parentslot
  BY <1>3, <1>5, <1>a
<1>7. a = childid(H, p, s + 1)
  BY <1>3, <1>6
<1>8. NextLeaves(H, m_root, R, l, a)
  BY <1>1, <1>2, <1>3, <1>5, <1>6, <1>7, NextLeavesAre
<1>9. l \in Leaves(H) /\ a \in Leaves(H) /\ l # a
  BY <1>8 DEF NextLeaves
<1>10. IsShifted(H, M, m_root, R)
  <2>1. PICK E : E = {a}
    OBVIOUS
  <2>2. E \subseteq {l, a} /\ Filled(H, E, m_root, 1)
    BY <1>2, <2>1
  <2> QED
    BY <1>1, <1>2, <1>3, <1>4, <1>9, <1>b, <2>2, ShiftRightLeafIs
<1>11. l \in Leaves(M)
  BY <1>9, <1>10 DEF IsShifted
<1>12. G = SetKey(M, p, s, LastKey(M, l))
  BY <1>5, <1>a, <1>b, Zenon DEF shift_right_leaf, ShiftedRight
<1>13. IsShifted(H, G, m_root, R)
  <2>1. H[p].level > 0
    BY <1>3
  <2> QED
    BY <1>1, <1>2, <1>3, <1>10, <1>11, <1>12, <2>1, ShiftedSetKey
<1>14. TypeOK' /\ Phase(R)'
  BY <1>13, <1>a, ShiftedGoesUp
<1> QED
  BY <1>13, <1>14, <1>a

LEMMA EraseHitKeeps ==
  ASSUME MergedFits, TypeOK, NEW R, Phase(R), EraseHit
  PROVE  TypeOK' /\ \E Q : Phase(Q)'
<1>1. IsErasing(R) /\ Top.curr \in Leaves(heap) /\ UNCHANGED op /\ Going(EraseKinds)
  BY EraseHitIs
<1>2. PICK H, up : /\ Thinned(heap, H, m_root, R, Top.curr) /\ up \in Key \cup {NULL}
                   /\ LeafKept(H, up) \/ TreeEmptied(H) \/ LeafBalanced(H, up)
  BY EraseHitIs
<1>3. CASE LeafKept(H, up)
  BY <1>1, <1>2, <1>3, LeafKeptKeeps
<1>4. CASE TreeEmptied(H)
  BY <1>1, <1>2, <1>4, TreeEmptiedKeeps
<1>5. CASE LeafBalanced(H, up)
  <2>1. IsPoorLeaf(R, H)
    BY <1>1, <1>2, <1>5, PoorLeafIs DEF LeafBalanced
  <2>2. Leaving(R, H)
    BY <1>1, <1>2, <1>5, <2>1 DEF LeafBalanced, Leaving
  <2>3. CASE Remedy(H, Top) = "merge_left"
    <3>1. LeafMerged(H, up, Top.left, Top.curr)
      BY <1>5, <2>3 DEF LeafBalanced
    <3> QED
      BY <1>2, <2>2, <2>3, <3>1, LeafMergeLeft
  <2>4. CASE Remedy(H, Top) = "merge_right"
    <3>1. LeafMerged(H, up, Top.curr, Top.right)
      BY <1>5, <2>4 DEF LeafBalanced
    <3> QED
      BY <1>2, <2>2, <2>4, <3>1, LeafMergeRight
  <2>5. CASE Remedy(H, Top) = "shift_left"
    <3>1. /\ LET G == shift_left_leaf(H, Top.curr, Top.right)
                 here == Top.parentslot < slotuse(G, Top.rightparent)
             IN /\ heap' = SetKey(G, Top.rightparent, Top.parentslot, LastKey(G, Top.curr))
                /\ EraseReturns(Found(FALSE, IF here THEN up ELSE LastKey(G, Top.curr)))
          /\ UNCHANGED m_tailleaf
      BY <1>5, <2>5 DEF LeafBalanced
    <3> QED
      BY <1>2, <2>2, <2>5, <3>1, LeafShiftLeft
  <2>6. CASE Remedy(H, Top) = "shift_right"
    <3>1. /\ heap' = shift_right_leaf(H, Top.left, Top.curr, Top.leftparent, Top.parentslot - 1)
          /\ EraseReturns(Found(FALSE, up)) /\ UNCHANGED m_tailleaf
      BY <1>5, <2>6 DEF LeafBalanced
    <3> QED
      BY <1>2, <2>2, <2>6, <3>1, LeafShiftRight
  <2>7. Remedy(H, Top) \in {"merge_left", "merge_right", "shift_left", "shift_right"}
    BY <1>5 DEF LeafBalanced
  <2> QED
    BY <2>3, <2>4, <2>5, <2>6, <2>7
<1> QED
  BY <1>2, <1>3, <1>4, <1>5

-----------------------------------------------------------------------------
(* The leaves of the tree and the chain                                    *)

\* Where the chain starts and ends.
Ends(H, E, root, head, tail) ==
  /\ root = NULL => head = NULL /\ tail = NULL
  /\ root # NULL =>
       /\ head \in Leaves(H) \ E /\ H[head].prev = NULL
       /\ tail \in Leaves(H) \ E /\ H[tail].next = NULL

\* The leaves below each node, from left to right.
LeafLists(H) ==
  LET leaves[n \in Allocated(H)] ==
        IF isleafnode(H, n) THEN <<n>>
        ELSE FlattenSeq([i \in DOMAIN H[n].child |-> leaves[H[n].child[i]]])
  IN leaves

LEMMA LeafListsOf ==
  ASSUME NEW H \in Heaps, NEW R, NEW root, NEW S, Tree(H, root, S, R), NEW f
  PROVE  IsLeafLists(Allocated(H), LevelsOf(H), KidsOf(H), f)
         <=> f = [n \in Allocated(H) |->
                   IF isleafnode(H, n) THEN <<n>>
                   ELSE FlattenSeq([i \in DOMAIN H[n].child |-> f[H[n].child[i]]])]
<1>1. Forest(Allocated(H), LevelsOf(H), KidsOf(H), ({root} \ {NULL}) \cup S, R)
  BY TreeIs
<1>2. ASSUME NEW n \in Allocated(H)
      PROVE  (IF LevelsOf(H)[n] = 0 THEN <<n>>
              ELSE FlattenSeq([i \in DOMAIN KidsOf(H)[n] |-> f[KidsOf(H)[n][i]]]))
             = IF isleafnode(H, n) THEN <<n>>
               ELSE FlattenSeq([i \in DOMAIN H[n].child |-> f[H[n].child[i]]])
  <2>1. LevelsOf(H)[n] = H[n].level /\ KidsOf(H)[n] = Kids(H, n)
    BY LevelAt
  <2>2. isleafnode(H, n) <=> H[n].level = 0
    BY DEF isleafnode
  <2>3. ~isleafnode(H, n) => Kids(H, n) = H[n].child
    BY DEF Kids
  <2> QED
    BY <2>1, <2>2, <2>3
<1> QED
  BY <1>2 DEF IsLeafLists

LEMMA ForestSetup ==
  ASSUME NEW H \in Heaps, NEW R, NEW root, root # NULL, Tree(H, root, {}, R)
  PROVE  /\ Forest(Allocated(H), LevelsOf(H), KidsOf(H), {root}, R) /\ root \in Allocated(H)
         /\ \A n \in Allocated(H) : LevelsOf(H)[n] <= LevelsOf(H)[root]
         /\ LevelsOf(H)[root] \in Nat
<1>1. Forest(Allocated(H), LevelsOf(H), KidsOf(H), ({root} \ {NULL}) \cup {}, R)
  BY TreeIs
<1>2. ({root} \ {NULL}) \cup {} = {root}
  OBVIOUS
<1>3. root \in Allocated(H) /\ H[root].level \in Nat /\ \A n \in Allocated(H) : H[n].level <= H[root].level
  <2>1. \A n \in Allocated(H) \ {} : H[n].level <= H[root].level
    BY RootIs
  <2> QED
    BY <2>1, RootIs
<1>4. \A n \in Allocated(H) : LevelsOf(H)[n] = H[n].level
  BY LevelAt
<1> QED
  BY <1>1, <1>2, <1>3, <1>4

\* They are all the leaves, in their order.
LEMMA LeafListsList ==
  ASSUME NEW H \in Heaps, NEW R, NEW root, root # NULL, Tree(H, root, {}, R)
  PROVE  /\ IsLeafLists(Allocated(H), LevelsOf(H), KidsOf(H), LeafLists(H))
         /\ Lists(LeafLists(H)[root], Leaves(H), R)
         /\ \E V : /\ LeafSets(Allocated(H), LevelsOf(H), KidsOf(H), V)
                   /\ V \in [Allocated(H) -> SUBSET Allocated(H)]
                   /\ \A n \in Allocated(H) : Lists(LeafLists(H)[n], V[n], R)
<1>1. /\ Forest(Allocated(H), LevelsOf(H), KidsOf(H), {root}, R) /\ root \in Allocated(H)
      /\ \A n \in Allocated(H) : LevelsOf(H)[n] <= LevelsOf(H)[root]
      /\ LevelsOf(H)[root] \in Nat
  BY ForestSetup
<1>2. \E f : IsLeafLists(Allocated(H), LevelsOf(H), KidsOf(H), f)
  BY <1>1, LeafListsExist
<1>3. LeafLists(H) = CHOOSE f : f = [n \in Allocated(H) |->
                   IF isleafnode(H, n) THEN <<n>>
                   ELSE FlattenSeq([i \in DOMAIN H[n].child |-> f[H[n].child[i]]])]
  BY DEF LeafLists
<1>4. \E f : f = [n \in Allocated(H) |->
                   IF isleafnode(H, n) THEN <<n>>
                   ELSE FlattenSeq([i \in DOMAIN H[n].child |-> f[H[n].child[i]]])]
  BY <1>2, LeafListsOf, Zenon
<1>5. LeafLists(H) = [n \in Allocated(H) |->
                   IF isleafnode(H, n) THEN <<n>>
                   ELSE FlattenSeq([i \in DOMAIN H[n].child |-> LeafLists(H)[H[n].child[i]]])]
  BY <1>3, <1>4, Zenon
<1>6. IsLeafLists(Allocated(H), LevelsOf(H), KidsOf(H), LeafLists(H))
  BY <1>5, LeafListsOf
<1>7. PICK V : LeafSets(Allocated(H), LevelsOf(H), KidsOf(H), V)
               /\ V[root] = {n \in Allocated(H) : LevelsOf(H)[n] = 0}
               /\ V \in [Allocated(H) -> SUBSET Allocated(H)]
  BY <1>1, LeafSetsExist
<1>8. \A n \in Allocated(H) : Lists(LeafLists(H)[n], V[n], R)
  BY <1>1, <1>6, <1>7, LeafListsAre
<1>9. V[root] = Leaves(H)
  BY <1>7, LevelAt DEF Leaves, isleafnode
<1> QED
  BY <1>1, <1>6, <1>7, <1>8, <1>9

\* The same as a function, for the chain of a heap from head on.
ChainFunction(H) ==
  CHOOSE from : from = [r \in (0 .. Cardinality(NodeId)) \X (NodeId \cup {NULL}) |->
    IF r[1] = 0 \/ r[2] \notin {n \in Allocated(H) : isleafnode(H, n)} THEN <<>>
    ELSE <<r[2]>> \o from[<<r[1] - 1, H[r[2]].next>>]]

LEMMA ChainFunctionIs ==
  ASSUME NEW H \in Heaps
  PROVE  IsChain(Leaves(H), NodeId \cup {NULL}, Nexts(H), Cardinality(NodeId), ChainFunction(H))
<1> DEFINE L == Leaves(H)
           D == NodeId \cup {NULL}
           C == Cardinality(NodeId)
<1>1. C \in Nat
  BY NodeAssumption, FS_CardinalityType
<1>2. \A n \in L : Nexts(H)[n] = H[n].next /\ H[n].next \in D
  BY LeafNode DEF Nexts
<1>3. PICK g : IsChain(L, D, Nexts(H), C, g)
  BY <1>1, <1>2, ChainExists
<1>4. ASSUME NEW f
      PROVE  f = [r \in (0 .. C) \X D |-> ChainStep(L, Nexts(H), f, r[1], r[2])]
             <=> f = [r \in (0 .. C) \X D |->
                       IF r[1] = 0 \/ r[2] \notin {n \in Allocated(H) : isleafnode(H, n)} THEN <<>>
                       ELSE <<r[2]>> \o f[<<r[1] - 1, H[r[2]].next>>]]
  <2>1. ASSUME NEW r \in (0 .. C) \X D
        PROVE  ChainStep(L, Nexts(H), f, r[1], r[2])
               = IF r[1] = 0 \/ r[2] \notin {n \in Allocated(H) : isleafnode(H, n)} THEN <<>>
                 ELSE <<r[2]>> \o f[<<r[1] - 1, H[r[2]].next>>]
    <3>1. L = {n \in Allocated(H) : isleafnode(H, n)}
      BY DEF Leaves
    <3>2. r[2] \in L => Nexts(H)[r[2]] = H[r[2]].next
      BY <1>2
    <3> HIDE DEF L
    <3> QED
      BY <3>1, <3>2 DEF ChainStep
  <2> HIDE DEF L, D, C
  <2> QED
    BY <2>1
<1>5. g = [r \in (0 .. C) \X D |->
                       IF r[1] = 0 \/ r[2] \notin {n \in Allocated(H) : isleafnode(H, n)} THEN <<>>
                       ELSE <<r[2]>> \o g[<<r[1] - 1, H[r[2]].next>>]]
  BY <1>3, <1>4, Zenon DEF IsChain
<1>6. ChainFunction(H) = [r \in (0 .. C) \X D |->
                       IF r[1] = 0 \/ r[2] \notin {n \in Allocated(H) : isleafnode(H, n)} THEN <<>>
                       ELSE <<r[2]>> \o ChainFunction(H)[<<r[1] - 1, H[r[2]].next>>]]
  BY <1>5, Zenon DEF ChainFunction
<1> QED
  BY <1>4, <1>6 DEF IsChain

\* What is known of the chain between two calls.
IsTheChain(H, R, root, head, tail, s) ==
  /\ s = LeafLists(H)[root] /\ Lists(s, Leaves(H), R) /\ LinkedList(s, Nexts(H), Prevs(H), NULL)
  /\ s # <<>> /\ head = s[1] /\ tail = s[Len(s)] /\ Len(s) \in Nat
  /\ \A i \in 1 .. Len(s) : s[i] \in Leaves(H)

LEMMA LeafIsNotInner ==
  ASSUME NEW H, NEW p, ~isleafnode(H, p)
  PROVE  p \notin Leaves(H)
BY DEF Leaves

\* The first leaf is next to none.
LEMMA HeadIsNotNext ==
  ASSUME NEW H, NEW root, NEW S, NEW E, NEW R, Tree(H, root, S, R), Linked(H, E, R),
         NEW a \in Leaves(H) \ E, NEW h \in Leaves(H) \ E, H[h].prev = NULL
  PROVE  H[a].next # h
<1>a. PICK L, nx, pv : L = Leaves(H) \ E /\ nx = Nexts(H) /\ pv = Prevs(H)
  OBVIOUS
<1>1. Chained(L, R, nx, pv, NULL) /\ a \in L /\ h \in L
  BY <1>a DEF Linked
<1>2. nx[a] = H[a].next /\ pv[h] = NULL
  BY <1>a DEF Nexts, Prevs
<1>3. h # NULL
  BY NodeAssumption DEF Leaves, Allocated
<1>4. \A m \in L : h \notin R[m]
  BY <1>1, <1>2 DEF Chained
<1>5. ASSUME nx[a] = h PROVE FALSE
  <2>1. IsNext(L, R, a, h)
    BY <1>1, <1>3, <1>5 DEF Chained
  <2> QED
    BY <1>1, <1>4, <2>1 DEF IsNext
<1> QED
  BY <1>2, <1>5

\* The ends after leaf a was split: d is the last one when a was.
LEMMA SplitEnds ==
  ASSUME NEW H \in Heaps, NEW root, root # NULL, NEW R, Tree(H, root, {}, R), Linked(H, {}, R),
         NEW a \in Leaves(H), NEW d \in NodeId \ Allocated(H),
         NEW left \in Seq(Pair), NEW right \in Seq(Pair), NEW G, G = SplitOff(H, a, d, left, right),
         NEW h, NEW t, Ends(H, {}, root, h, t), NEW u, u = IF H[a].next = NULL THEN d ELSE t
  PROVE  Ends(G, {}, root, h, u)
<1>1. h \in Leaves(H) /\ H[h].prev = NULL /\ t \in Leaves(H) /\ H[t].next = NULL
  BY DEF Ends
<1>2. a \in Leaves(H) \ {} /\ h \in Leaves(H) \ {}
  BY <1>1
<1>3. NextOf(H, a)
  BY <1>2, NextLeaf
<1>4. /\ Leaves(G) = Leaves(H) \cup {d}
      /\ G[a].prev = H[a].prev /\ G[d].next = H[a].next
      /\ \A n \in Allocated(H) \ {a} :
           /\ isleafnode(H, n) => G[n].next = H[n].next
           /\ isleafnode(H, n) => G[n].prev = IF n = H[a].next THEN d ELSE H[n].prev
  BY <1>3, SplitOffIs
<1>5. h \in Allocated(H) /\ isleafnode(H, h) /\ t \in Allocated(H) /\ isleafnode(H, t)
  BY <1>1, LeafNode
<1>6. H[a].next # h
  BY <1>1, <1>2, HeadIsNotNext
<1>7. G[h].prev = NULL
  BY <1>1, <1>4, <1>5, <1>6
<1>8. u \in Leaves(G) /\ G[u].next = NULL
  BY <1>1, <1>4, <1>5
<1> QED
  BY <1>1, <1>4, <1>7, <1>8 DEF Ends

LEMMA LinksEnds ==
  ASSUME NEW H, NEW G, SameLinks(H, G), Leaves(G) = Leaves(H),
         NEW root, NEW h, NEW t, Ends(H, {}, root, h, t)
  PROVE  Ends(G, {}, root, h, t)
BY DEF SameLinks, Ends

\* The ends after b was merged into a.
LEMMA MergeEnds ==
  ASSUME NEW H \in Heaps, NEW root, root # NULL, NEW R, Shape(H, root, {}, {}, R),
         NEW a, NEW b, NextLeaves(H, root, R, a, b), NEW G, IsMerged(H, G, root, R, a, b),
         NEW h, NEW t, Ends(H, {}, root, h, t), NEW u, u = IF H[b].next = NULL THEN a ELSE t,
         NEW E, \A n \in E : slotuse(G, n) = 0
  PROVE  Ends(G, E, root, h, u)
<1>1. Tree(H, root, {}, R) /\ Linked(H, {}, R)
  BY DEF Shape
<1>2. h \in Leaves(H) /\ H[h].prev = NULL /\ t \in Leaves(H) /\ H[t].next = NULL
  BY DEF Ends
<1>3. a \in Leaves(H) /\ b \in Leaves(H) /\ IsNext(Allocated(H), R, a, b) /\ a # b
  BY DEF NextLeaves
<1>4. a \in Allocated(H) /\ H[a].level = 0 /\ b \in Allocated(H) /\ H[b].level = 0 /\ b # NULL
  BY <1>3, LeafNode, NodeIs
<1>5. H[a].next = b
  BY <1>3, <1>4, NextIsNext
<1>6. H[a].next # h /\ H[b].next # h
  <2>1. a \in Leaves(H) \ {} /\ b \in Leaves(H) \ {} /\ h \in Leaves(H) \ {}
    BY <1>2, <1>3
  <2> QED
    BY <1>1, <1>2, <2>1, HeadIsNotNext
<1>7. /\ Leaves(G) = Leaves(H) /\ G[a].next = H[b].next /\ Filled(G, {b}, root, 1) /\ G \in Heaps
      /\ \A n \in Leaves(H) \ {a} : G[n].next = H[n].next
      /\ \A n \in Leaves(H) : G[n].prev = IF n = H[b].next THEN a ELSE H[n].prev
  BY DEF IsMerged, LinksMerged
<1>8. G[h].prev = NULL /\ h # b
  BY <1>2, <1>5, <1>6, <1>7
<1>9. u \in Leaves(H) /\ G[u].next = NULL /\ u # b
  <2>1. CASE H[b].next = NULL
    BY <1>3, <1>7, <2>1
  <2>2. CASE H[b].next # NULL
    BY <1>2, <1>4, <1>5, <1>7, <2>2
  <2> QED
    BY <2>1, <2>2
<1>10. ASSUME NEW n \in Leaves(G), n # b
       PROVE  n \notin E
  <2>1. n \in Allocated(G) /\ slotuse(G, n) \in Nat
    BY <1>7, LeafNode
  <2>2. slotuse(G, n) >= IF n # root THEN mininnerslots ELSE IF isleafnode(G, n) THEN 1 ELSE 1
    BY <1>7, <1>10, <2>1 DEF Filled
  <2> QED
    BY <2>1, <2>2, Sizes
<1> QED
  BY <1>2, <1>7, <1>8, <1>9, <1>10 DEF Ends

\* The leaves as they were, but for those of E.
SameLeaves(H, G, L, E) == DOMAIN G = DOMAIN H /\ \A n \in L \ E : G[n] = H[n]

LEMMA SetKeySame ==
  ASSUME NEW H, NEW L, L \subseteq DOMAIN H, NEW p, p \notin L, NEW s, NEW k
  PROVE  SameLeaves(H, SetKey(H, p, s, k), L, {})
BY DEF SetKey, SameLeaves

LEMMA SameTwice ==
  ASSUME NEW H, NEW G, NEW J, NEW L, NEW E, SameLeaves(H, G, L, {}), SameLeaves(G, J, L, E)
  PROVE  SameLeaves(H, J, L, E)
BY DEF SameLeaves

-----------------------------------------------------------------------------
(* The tree and the chain hold the same leaves                             *)

LEMMA DistinctElements ==
  ASSUME NEW n \in Nat, NEW s, NEW L, L = {s[i] : i \in 1 .. n},
         \A i, j \in 1 .. n : s[i] = s[j] => i = j
  PROVE  Cardinality(L) = n
<1>a. PICK f : f = [i \in 1 .. n |-> s[i]]
  OBVIOUS
<1>1. f \in Bijection(1 .. n, L)
  <2>1. f \in [1 .. n -> L] /\ \A i, j \in 1 .. n : f[i] = f[j] => i = j
    BY <1>a
  <2>2. \A m \in L : \E i \in 1 .. n : f[i] = m
    BY <1>a
  <2> QED
    BY <2>1, <2>2 DEF Bijection, Injection, Surjection, IsInjective
<1>2. IsFiniteSet(1 .. n) /\ Cardinality(1 .. n) = n
  BY FS_Interval
<1>3. ExistsBijection(1 .. n, L)
  BY <1>1 DEF ExistsBijection
<1> QED
  BY <1>2, <1>3, FS_Bijection

\* A node's children are on the level below, and different nodes.
LEMMA ChildrenAre ==
  ASSUME NEW H \in Heaps, NEW root, NEW R, Tree(H, root, {}, R), NEW n \in Allocated(H)
  PROVE  /\ \A c \in Children(H, n) : H[n].level = H[c].level + 1
         /\ Cardinality(Children(H, n)) = IF isleafnode(H, n) THEN 0 ELSE Len(H[n].child)
<1>a. PICK A, lv, K, X : A = Allocated(H) /\ lv = LevelsOf(H) /\ K = KidsOf(H) /\ X = ({root} \ {NULL}) \cup {}
  OBVIOUS
<1>1. Forest(A, lv, K, X, R)
  BY <1>a, TreeIs
<1>2. /\ K[n] = Kids(H, n) /\ Len(Kids(H, n)) \in Nat /\ Kids(H, n) \in Seq(A)
      /\ \A i \in 1 .. Len(Kids(H, n)) :
           Kids(H, n)[i] \in A /\ H[Kids(H, n)[i]].level = H[n].level - 1
      /\ ~isleafnode(H, n) => Kids(H, n) = H[n].child
  BY <1>1, <1>a, KidsAre
<1>3. \A c \in A : H[c].level \in Nat
  BY <1>a, NodeIs
<1>4. Children(H, n) = {Kids(H, n)[i] : i \in 1 .. Len(Kids(H, n))}
  <2>1. CASE isleafnode(H, n)
    <3>1. Kids(H, n) = <<>>
      BY <2>1 DEF Kids
    <3>2. 1 .. Len(Kids(H, n)) = {}
      BY <3>1
    <3> QED
      BY <2>1, <3>2 DEF Children
  <2>2. CASE ~isleafnode(H, n)
    <3>1. DOMAIN Kids(H, n) = 1 .. Len(Kids(H, n))
      BY <1>2
    <3> QED
      BY <1>2, <2>2, <3>1 DEF Children, ToSet
  <2> QED
    BY <2>1, <2>2
<1>5. \A i, j \in 1 .. Len(Kids(H, n)) : Kids(H, n)[i] = Kids(H, n)[j] => i = j
  BY <1>1, <1>2, <1>a, OneParent
<1>6. Cardinality(Children(H, n)) = Len(Kids(H, n))
  BY <1>2, <1>4, <1>5, DistinctElements
<1>7. isleafnode(H, n) => Len(Kids(H, n)) = 0
  BY DEF Kids
<1>8. \A c \in Children(H, n) : H[n].level = H[c].level + 1
  <2> SUFFICES ASSUME NEW i \in 1 .. Len(Kids(H, n))
               PROVE  H[n].level = H[Kids(H, n)[i]].level + 1
    BY <1>4
  <2>1. H[n].level \in Nat /\ H[Kids(H, n)[i]].level = H[n].level - 1
    BY <1>2, <1>3, <1>a
  <2> QED
    BY <2>1
<1> QED
  BY <1>2, <1>6, <1>7, <1>8

-----------------------------------------------------------------------------
(* The pairs along the chain                                               *)

\* The first k leaves of s hold o[k] pairs together.
Numbered(H, s, o) ==
  /\ o \in [0 .. Len(s) -> Nat] /\ o[0] = 0
  /\ \A k \in 1 .. Len(s) : slotuse(H, s[k]) \in Nat /\ o[k] = o[k - 1] + slotuse(H, s[k])

\* t are the pairs in the leaves s, one after the other.
Laid(H, s, o, t) ==
  /\ Numbered(H, s, o) /\ t \in Seq(Pair) /\ Len(t) = o[Len(s)]
  /\ \A k \in 1 .. Len(s) : \A j \in 1 .. slotuse(H, s[k]) : t[o[k - 1] + j] = H[s[k]].slots[j]
  /\ \A p \in 1 .. Len(t) : \E k \in 1 .. Len(s) : p - o[k - 1] \in 1 .. slotuse(H, s[k])
  /\ \A k \in 0 .. Len(s) : Len(FlattenSeq([i \in 1 .. k |-> H[s[i]].slots])) = o[k]

LEMMA LaidOut ==
  ASSUME NEW H \in Heaps, NEW s, Len(s) \in Nat, DOMAIN s = 1 .. Len(s),
         \A k \in 1 .. Len(s) : s[k] \in Leaves(H)
  PROVE  \E o : Laid(H, s, o, FlattenSeq([i \in DOMAIN s |-> H[s[i]].slots]))
<1>n. PICK n \in Nat : n = Len(s)
  OBVIOUS
<1>ss. PICK ss : ss = [i \in DOMAIN s |-> H[s[i]].slots]
  OBVIOUS
<1>1. \A k \in 1 .. n : ss[k] = H[s[k]].slots /\ ss[k] \in Seq(Pair) /\ slotuse(H, s[k]) = Len(ss[k])
  BY <1>n, <1>ss, LeafNode
<1>2. ss \in Seq(Seq(Pair)) /\ Len(ss) = n
  BY <1>1, <1>n, <1>ss
<1>3. PICK o : /\ Offsets(ss, o) /\ FlattenSeq(ss) \in Seq(Pair)
               /\ JoinedTo(ss, o, FlattenSeq(ss), n)
               /\ \A k \in 0 .. n : Len(FlattenSeq([i \in 1 .. k |-> ss[i]])) = o[k]
  BY <1>2, FlattenOffsets
<1>4. Numbered(H, s, o)
  BY <1>1, <1>2, <1>3, <1>n DEF Numbered, Offsets
<1>5. ASSUME NEW k \in 0 .. n PROVE Len(FlattenSeq([i \in 1 .. k |-> H[s[i]].slots])) = o[k]
  <2>1. [i \in 1 .. k |-> H[s[i]].slots] = [i \in 1 .. k |-> ss[i]]
    BY <1>1
  <2> QED
    BY <1>3, <2>1
<1>6. /\ Len(FlattenSeq(ss)) = o[n]
      /\ \A k \in 1 .. n : \A j \in 1 .. Len(ss[k]) : FlattenSeq(ss)[o[k - 1] + j] = ss[k][j]
      /\ \A p \in 1 .. o[n] : \E k \in 1 .. n : p - o[k - 1] \in 1 .. Len(ss[k])
  BY <1>3 DEF JoinedTo
<1>7. Laid(H, s, o, FlattenSeq(ss))
  <2>t. PICK t : t = FlattenSeq(ss)
    OBVIOUS
  <2>1. t \in Seq(Pair) /\ Len(t) = o[Len(s)]
    BY <1>3, <1>6, <1>n, <2>t
  <2>2. \A k \in 1 .. Len(s) : \A j \in 1 .. slotuse(H, s[k]) : t[o[k - 1] + j] = H[s[k]].slots[j]
    BY <1>1, <1>6, <1>n, <2>t
  <2>3. \A p \in 1 .. Len(t) : \E k \in 1 .. Len(s) : p - o[k - 1] \in 1 .. slotuse(H, s[k])
    BY <1>1, <1>6, <1>n, <2>t
  <2>4. \A k \in 0 .. Len(s) : Len(FlattenSeq([i \in 1 .. k |-> H[s[i]].slots])) = o[k]
    BY <1>5, <1>n
  <2>5. Laid(H, s, o, t)
    BY <1>4, <2>1, <2>2, <2>3, <2>4 DEF Laid
  <2> QED
    BY <2>5, <2>t
<1> QED
  BY <1>7, <1>ss

LEMMA NumbersGrow ==
  ASSUME NEW H, NEW s, Len(s) \in Nat, NEW o, Numbered(H, s, o),
         NEW i \in 0 .. Len(s), NEW j \in i .. Len(s)
  PROVE  o[i] <= o[j]
<1>n. PICK n \in Nat : n = Len(s)
  OBVIOUS
<1>1. /\ o \in [0 .. n -> Nat]
      /\ \A k \in 1 .. n : slotuse(H, s[k]) \in Nat /\ o[k] = o[k - 1] + slotuse(H, s[k])
  BY <1>n DEF Numbered
<1> DEFINE T == {k \in i .. n : o[i] <= o[k]}
<1>2. i \in T
  <2>1. i \in 0 .. n /\ i \in i .. n
    BY <1>n
  <2>2. o[i] \in Nat
    BY <1>1, <2>1
  <2> QED
    BY <2>1, <2>2
<1>3. ASSUME NEW k \in i .. n - 1, k \in T PROVE k + 1 \in T
  <2>1. k + 1 \in 1 .. n /\ (k + 1) - 1 = k /\ k \in 0 .. n /\ k + 1 \in i .. n /\ i \in 0 .. n
    BY <1>n
  <2>2. o[k + 1] = o[k] + slotuse(H, s[k + 1]) /\ slotuse(H, s[k + 1]) \in Nat
    BY <1>1, <2>1
  <2>3. o[k] \in Nat /\ o[i] \in Nat /\ o[k + 1] \in Nat /\ o[i] <= o[k]
    BY <1>1, <1>3, <2>1
  <2> QED
    BY <2>1, <2>2, <2>3
<1> HIDE DEF T
<1>4. i \in Int /\ n \in Int
  OBVIOUS
<1>5. \A k \in i .. n : k \in T
  BY <1>2, <1>3, <1>4, RangeInduction
<1> QED
  BY <1>5, <1>n DEF T

\* As many pairs are along the chain as are in the leaves.
LEMMA PairsAlong ==
  ASSUME NEW H \in Heaps, NEW s, Len(s) \in Nat, \A k \in 1 .. Len(s) : s[k] \in Leaves(H),
         \A n \in Leaves(H) : \E k \in 1 .. Len(s) : s[k] = n,
         \A i, j \in 1 .. Len(s) : s[i] = s[j] => i = j,
         \A n \in Leaves(H) : slotuse(H, n) <= leafslotmax,
         NEW o, Numbered(H, s, o)
  PROVE  Cardinality(Pairs(H)) = o[Len(s)]
<1>n. PICK n \in Nat : n = Len(s)
  OBVIOUS
<1>1. /\ o \in [0 .. n -> Nat] /\ o[0] = 0
      /\ \A k \in 1 .. n : slotuse(H, s[k]) \in Nat /\ o[k] = o[k - 1] + slotuse(H, s[k])
  BY <1>n DEF Numbered
<1> DEFINE First(k) == {q \in Pairs(H) : \E i \in 1 .. k : q[1] = s[i]}
           T == {k \in 0 .. n : IsFiniteSet(First(k)) /\ Cardinality(First(k)) = o[k]}
<1>2. 0 \in T
  <2>1. First(0) = {}
    OBVIOUS
  <2>2. IsFiniteSet({}) /\ Cardinality({}) = 0
    BY FS_EmptySet
  <2>3. IsFiniteSet(First(0)) /\ Cardinality(First(0)) = 0
    BY <2>1, <2>2
  <2> HIDE DEF First
  <2> QED
    BY <1>1, <2>3
<1>3. ASSUME NEW k \in 0 .. n - 1, k \in T PROVE k + 1 \in T
  <2>1. k + 1 \in 1 .. n /\ (k + 1) - 1 = k /\ k \in 0 .. n /\ k + 1 \in 0 .. n
    OBVIOUS
  <2>a. PICK a : a = s[k + 1]
    OBVIOUS
  <2>h. PICK h \in Nat : h = slotuse(H, a)
    BY <1>1, <2>1, <2>a
  <2>2. a = s[k + 1] /\ h = slotuse(H, a)
    BY <2>a, <2>h
  <2>3. a \in Leaves(H) /\ h <= leafslotmax /\ leafslotmax \in Nat
    BY <1>n, <2>1, <2>2, Sizes
  <2>4. ASSUME NEW q \in Column(a, h) PROVE q \in Pairs(H) /\ q[1] = a
    <3>1. q = <<a, q[2]>> /\ q[2] \in 1 .. h /\ q[1] = a
      BY DEF Column
    <3>2. q[2] \in 1 .. leafslotmax /\ q[2] <= slotuse(H, q[1])
      BY <2>2, <2>3, <3>1
    <3> QED
      BY <2>3, <3>1, <3>2 DEF Pairs
  <2>5. ASSUME NEW q \in Pairs(H), q[1] = a PROVE q \in Column(a, h)
    <3>1. q = <<a, q[2]>> /\ q[2] \in 1 .. leafslotmax /\ q[2] <= slotuse(H, a)
      BY <2>5 DEF Pairs
    <3>2. q[2] \in 1 .. h
      BY <2>2, <2>3, <3>1
    <3> QED
      BY <3>1, <3>2 DEF Column
  <2>6. First(k + 1) = First(k) \cup Column(a, h)
    <3>1. \A q : (\E i \in 1 .. k + 1 : q[1] = s[i]) <=> (\E i \in 1 .. k : q[1] = s[i]) \/ q[1] = a
      <4>1. \A i : i \in 1 .. k + 1 <=> i \in 1 .. k \/ i = k + 1
        OBVIOUS
      <4> QED
        BY <2>2, <4>1
    <3> QED
      BY <2>4, <2>5, <3>1
  <2>7. First(k) \cap Column(a, h) = {}
    <3> SUFFICES ASSUME NEW q \in First(k), q \in Column(a, h) PROVE FALSE
      OBVIOUS
    <3>1. PICK i \in 1 .. k : s[i] = a
      BY <2>4
    <3>2. i \in 1 .. n /\ i # k + 1
      OBVIOUS
    <3> QED
      BY <1>n, <2>1, <2>2, <3>1, <3>2
  <2>8. IsFiniteSet(Column(a, h)) /\ Cardinality(Column(a, h)) = h
    BY ColumnCount
  <2>9. IsFiniteSet(First(k)) /\ Cardinality(First(k)) = o[k]
    BY <1>3
  <2>10. o[k + 1] = o[k] + h
    BY <1>1, <2>1, <2>2
  <2>11. IsFiniteSet(First(k + 1)) /\ Cardinality(First(k + 1)) = Cardinality(First(k)) + h
    <3>1. PICK P, Q, C : P = First(k) /\ Q = First(k + 1) /\ C = Column(a, h)
      OBVIOUS
    <3> HIDE DEF First
    <3>2. Q = P \cup C /\ P \cap C = {}
      BY <2>6, <2>7, <3>1
    <3>3. IsFiniteSet(P) /\ IsFiniteSet(C) /\ Cardinality(C) = h
      BY <2>8, <2>9, <3>1
    <3>4. IsFiniteSet(P \cup C) /\ Cardinality(P \cup C) = Cardinality(P) + Cardinality(C)
      BY <3>2, <3>3, AddDisjoint
    <3> QED
      BY <3>1, <3>2, <3>3, <3>4
  <2> HIDE DEF First
  <2> QED
    BY <2>1, <2>9, <2>10, <2>11
<1>4. First(n) = Pairs(H)
  <2>1. \A q \in Pairs(H) : q[1] \in Leaves(H)
    BY DEF Pairs
  <2> QED
    BY <1>n, <2>1
<1> HIDE DEF First, T
<1>5. \A k \in 0 .. n : k \in T
  BY <1>2, <1>3, RangeInduction
<1>6. Cardinality(First(n)) = o[n]
  BY <1>5 DEF T
<1> QED
  BY <1>4, <1>6, <1>n

-----------------------------------------------------------------------------
(* Iterators                                                               *)

\* p is on slot j of leaf k of the chain s, which holds pair i, from 0 on.
OnItem(H, s, o, p, k, j, i) ==
  /\ k \in 1 .. Len(s) /\ j \in 0 .. slotuse(H, s[k]) - 1
  /\ p = [leaf |-> s[k], slot |-> j] /\ i = o[k - 1] + j

-----------------------------------------------------------------------------
(* More on rows                                                            *)

\* The keys of the two halves of an inner node and the one between them are
\* the keys with the new one.
LEMMA KeysCut ==
  ASSUME NEW ks \in Seq(Key), Len(ks) = innerslotmax, NEW cc \in Seq(NodeId), Len(cc) = Len(ks) + 1,
         NEW slot \in 0 .. innerslotmax, NEW mid, mid = SplitSlot(innerslotmax, slot),
         NEW key \in Key, NEW x \in NodeId, NEW kt, kt = InsertAt(ks, slot + 1, key),
         NEW lk, NEW lc, NEW rk, NEW rc, NEW up,
         IsCut(ks, cc, mid, slot, key, x, lk, lc, rk, rc, up)
  PROVE  Joins(kt, Append(lk, up), rk)
<1>a. PICK lkeys : lkeys = SubSeq(ks, 1, mid)
  OBVIOUS
<1>b. PICK rkeys : rkeys = SubSeq(ks, mid + 2, Len(ks))
  OBVIOUS
<1>c. PICK A : A = SubSeq(ks, 1, mid + 1)
  OBVIOUS
<1>1. mid \in Nat /\ mid + 1 <= Len(ks) /\ Len(ks) \in Nat
  BY CutPlace
<1>2. mid + 1 \in 1 .. Len(ks) /\ mid + 1 \in 0 .. Len(ks) /\ (mid + 1) + 1 = mid + 2 /\ (mid + 1) - 1 = mid
  BY <1>1
<1>3. PICK u : u = mid + 1
  OBVIOUS
<1>4. A \in Seq(Key) /\ rkeys \in Seq(Key) /\ Len(A) = u /\ Len(rkeys) = Len(ks) - u /\ Joins(ks, A, rkeys)
  <2>1. u \in 0 .. Len(ks) /\ A = SubSeq(ks, 1, u) /\ rkeys = SubSeq(ks, u + 1, Len(ks))
    BY <1>2, <1>3, <1>b, <1>c
  <2> QED
    BY <2>1, CutIs
<1>5. A = Append(lkeys, ks[mid + 1]) /\ ks[mid + 1] \in Key
  <2>1. u \in 1 .. Len(ks) /\ u - 1 = mid
    BY <1>2, <1>3
  <2>2. SubSeq(ks, 1, u) = Append(SubSeq(ks, 1, u - 1), ks[u])
    BY <2>1, CutAppend
  <2> QED
    BY <2>1, <2>2, <1>3, <1>a, <1>c
<1>6. lkeys \in Seq(Key) /\ Len(lkeys) = mid
  <2>1. mid \in 0 .. Len(ks)
    BY <1>1
  <2> QED
    BY <2>1, <1>a, CutIs
<1>7. PICK i : i = slot + 1
  OBVIOUS
<1>8. kt \in Seq(Key) /\ Inserted(ks, kt, i, key)
  <2>1. i \in 1 .. Len(ks) + 1
    BY <1>1, <1>7
  <2> QED
    BY <1>7, <2>1, InsertAtIs
<1>9. CASE CutBetween(ks, cc, mid, slot, key, x, lk, lc, rk, rc, up)
  <2>1. slot = mid + 1 /\ lk = A /\ rk = rkeys /\ up = key
    BY <1>9, <1>5, <1>a, <1>b DEF CutBetween
  <2>2. i = Len(A) + 1 /\ i \in 1 .. Len(A) + 1
    BY <2>1, <1>1, <1>3, <1>4, <1>7
  <2>3. PICK h : h = Append(A, key)
    OBVIOUS
  <2>4. h \in Seq(Key) /\ Inserted(A, h, i, key)
    BY <2>2, <2>3, <1>4, AppendIs
  <2>5. Joins(kt, h, rkeys)
    BY <2>2, <2>4, <1>4, <1>8, JoinLeft
  <2> QED
    BY <2>1, <2>3, <2>5
<1>10. CASE CutRight(ks, cc, mid, slot, key, x, lk, lc, rk, rc, up)
  <2>j. PICK j : j = slot - mid
    OBVIOUS
  <2>1. slot >= mid + 1 /\ lk = lkeys /\ rk = InsertAt(rkeys, j, key) /\ up = ks[mid + 1]
    BY <1>10, <2>j, <1>a, <1>b DEF CutRight
  <2>2. j \in 1 .. Len(rkeys) + 1 /\ i = Len(A) + j
    <3>1. PICK n \in Nat : n = Len(ks)
      BY <1>1
    <3>2. slot \in Nat /\ slot <= n /\ slot >= mid + 1 /\ mid + 1 <= n /\ u = mid + 1
      BY <3>1, <1>1, <1>3, <2>1
    <3>3. slot - mid \in 1 .. (n - u) + 1 /\ slot + 1 = u + (slot - mid)
      BY <3>2, <1>1
    <3>4. Len(rkeys) = n - u /\ Len(A) = u
      BY <3>1, <1>4
    <3> QED
      BY <3>3, <3>4, <1>7, <2>j
  <2>3. rk \in Seq(Key) /\ Inserted(rkeys, rk, j, key)
    BY <2>1, <2>2, <1>4, InsertAtIs
  <2>4. Joins(kt, A, rk)
    BY <2>2, <2>3, <1>4, <1>8, JoinRight
  <2> QED
    BY <2>1, <2>4, <1>5
<1>11. CASE CutLeft(ks, cc, mid, slot, key, x, lk, lc, rk, rc, up)
  <2>1. slot < mid + 1 /\ rk = rkeys /\ lk = InsertAt(lkeys, i, key) /\ up = ks[mid + 1]
    BY <1>11, <1>7, <1>a, <1>b DEF CutLeft
  <2>2. i \in 1 .. Len(lkeys) + 1 /\ i \in 1 .. Len(A) + 1
    BY <2>1, <1>1, <1>3, <1>4, <1>6, <1>7
  <2>3. lk \in Seq(Key) /\ Inserted(lkeys, lk, i, key)
    BY <2>1, <2>2, <1>6, InsertAtIs
  <2>4. Inserted(A, Append(lk, up), i, key)
    BY <2>1, <2>3, <1>5, <1>6, InsertedAppend
  <2>5. PICK h \in Seq(Key) : h = Append(lk, up)
    BY <2>1, <2>3, <1>5, AppendProperties
  <2>6. Joins(kt, h, rkeys)
    BY <2>2, <2>4, <2>5, <1>4, <1>8, JoinLeft
  <2> QED
    BY <2>1, <2>5, <2>6
<1> QED
  BY <1>9, <1>10, <1>11 DEF IsCut

\* The halves of a full leaf and the pair that is added are the leaf with it.
LEMMA HalvesJoin ==
  ASSUME NEW S, NEW s \in Seq(S), NEW x \in S, NEW mid \in 0 .. Len(s), NEW slot \in 0 .. Len(s),
         NEW l, l = LeftHalf(s, mid, slot, x), NEW r, r = RightHalf(s, mid, slot, x)
  PROVE  Joins(InsertAt(s, slot + 1, x), l, r)
<1>a. PICK lo : lo = SubSeq(s, 1, mid)
  OBVIOUS
<1>b. PICK hi : hi = SubSeq(s, mid + 1, Len(s))
  OBVIOUS
<1>1. lo \in Seq(S) /\ hi \in Seq(S) /\ Len(lo) = mid /\ Len(hi) = Len(s) - mid /\ Joins(s, lo, hi)
  BY <1>a, <1>b, CutIs
<1>2. PICK i, t : i = slot + 1 /\ t = InsertAt(s, slot + 1, x)
  OBVIOUS
<1>3. t \in Seq(S) /\ Inserted(s, t, i, x)
  <2>1. i \in 1 .. Len(s) + 1
    BY <1>2
  <2> QED
    BY <1>2, <2>1, InsertAtIs
<1>4. CASE slot < mid
  <2>1. l = InsertAt(lo, i, x) /\ r = hi
    BY <1>4, <1>a, <1>b, <1>2 DEF LeftHalf, RightHalf
  <2>2. i \in 1 .. Len(lo) + 1
    BY <1>4, <1>1, <1>2
  <2>3. l \in Seq(S) /\ Inserted(lo, l, i, x)
    BY <2>1, <2>2, <1>1, InsertAtIs
  <2>4. Joins(t, l, hi)
    BY <2>2, <2>3, <1>1, <1>3, JoinLeft
  <2> QED
    BY <2>1, <2>4, <1>2
<1>5. CASE ~(slot < mid)
  <2>k. PICK k : k = slot - mid + 1
    OBVIOUS
  <2>1. l = lo /\ r = InsertAt(hi, k, x)
    BY <1>5, <1>a, <1>b, <2>k DEF LeftHalf, RightHalf
  <2>2. k \in 1 .. Len(hi) + 1 /\ i = Len(lo) + k
    BY <1>5, <1>1, <1>2, <2>k
  <2>3. r \in Seq(S) /\ Inserted(hi, r, k, x)
    BY <2>1, <2>2, <1>1, InsertAtIs
  <2>4. Joins(t, lo, r)
    BY <2>2, <2>3, <1>1, <1>3, JoinRight
  <2> QED
    BY <2>1, <2>4, <1>2
<1> QED
  BY <1>4, <1>5

-----------------------------------------------------------------------------
(* The order in the phases of a call                                       *)

InOrder(H) == \E lo, hi : Keyed(H, {}, lo, hi, hi)

\* The pair with this key belongs below c; the nodes above know already.
DownOrder(H, c, key) ==
  \E lo, hi : \E b, m \in Int :
    /\ Keyed(H, {c}, lo, hi, hi) /\ NodeKeyed(H, lo, hi, c, b, m) /\ b <= m
    /\ lo[c] = Lesser(b, key) /\ hi[c] = Greater(m, key)
    /\ slotuse(H, c) = 0 => m <= key

\* d was split off c, and the parent of c takes c for both.
SplitOrder(H, c, d, key) ==
  \E lo, hi : /\ Keyed(H, {}, lo, hi, [hi EXCEPT ![c] = hi[d]])
              /\ hi[c] = key /\ key <= lo[d]

\* c ends with key, and its parent does not know.
OpenOrder(H, c, key) ==
  \E lo, hi : \E x \in Int :
    Keyed(H, {}, lo, hi, [hi EXCEPT ![c] = x]) /\ hi[c] = key /\ key <= x

\* h was merged into m; key is reported when the parent has none for h.
MergedOrder(H, m, h, key) ==
  \E lo, hi : \E y \in Int :
    /\ Keyed(H, {h}, lo, hi, [hi EXCEPT ![m] = y])
    /\ IF key = NULL THEN hi[h] = hi[m] ELSE hi[m] = key /\ key <= hi[h]

\* insert starts on a tree in order.
LEMMA StartKeyed ==
  ASSUME NEW H \in Heaps, NEW root, root # NULL, NEW R, Tree(H, root, {}, R), InOrder(H),
         slotuse(H, root) # 0, NEW key \in Key
  PROVE  DownOrder(H, root, key)
<1>1. PICK lo, hi : Keyed(H, {}, lo, hi, hi)
  BY DEF InOrder
<1>2. root \in Allocated(H) /\ root \in NodeId
  BY RootIs, NodeIs
<1>3. lo \in [NodeId -> Int] /\ hi \in [NodeId -> Int] /\ key \in Int
  BY <1>1, KeysAreInts DEF Keyed
<1>4. PICK lp, hp : lp = [lo EXCEPT ![root] = Lesser(lo[root], key)]
                    /\ hp = [hi EXCEPT ![root] = Greater(hi[root], key)]
  OBVIOUS
<1>5. /\ lp \in [NodeId -> Int] /\ hp \in [NodeId -> Int]
      /\ lp[root] = Lesser(lo[root], key) /\ hp[root] = Greater(hi[root], key)
      /\ \A n \in NodeId : n # root => lp[n] = lo[n] /\ hp[n] = hi[n]
      /\ lo[root] \in Int /\ hi[root] \in Int /\ lo[root] <= hi[root]
  <2>1. lo[root] \in Int /\ hi[root] \in Int /\ lo[root] <= hi[root]
    BY <1>1, <1>2, <1>3 DEF Keyed
  <2> QED
    BY <2>1, <1>2, <1>3, <1>4 DEF Lesser, Greater
<1>6. lp[root] <= hp[root]
  BY <1>5, <1>3 DEF Lesser, Greater
<1>7. Hung(H, root, {}, {root}, {root})
  BY DEF Hung
<1>8. Allocated(H) \subseteq NodeId
  BY DEF Allocated
<1>9. \A n \in Allocated(H) \ ({root} \cup {root}) :
        n \notin {} /\ SameContent(H, H, n) /\ lp[n] = lo[n] /\ hp[n] = hi[n]
  BY <1>5, <1>8 DEF SameContent
<1>10. Keyed(H, {root}, lp, hp, hp)
  <2>1. \A n \in Allocated(H) \ {root} : lp[n] = lo[n] /\ hp[n] = hi[n]
    BY <1>5, <1>8
  <2>2. \A n \in Allocated(H) : n \in {root} \/ n \notin Allocated(H) => lp[n] <= hp[n]
    BY <1>6
  <2>3. \A n \in Allocated(H) : n \in {root} /\ n \notin {root} => NodeKeyed(H, lp, hp, n, lp[n], hp[n])
    OBVIOUS
  <2> QED
    BY <1>1, <1>5, <1>7, <1>9, <2>1, <2>2, <2>3, KeyedChange
<1>11. NodeKeyed(H, lp, hp, root, lo[root], hi[root])
  <2>1. NodeKeyed(H, lo, hi, root, lo[root], hi[root])
    BY <1>1, <1>2 DEF Keyed
  <2>2. SameContent(H, H, root)
    BY <1>2 DEF SameContent
  <2>3. Forest(Allocated(H), LevelsOf(H), KidsOf(H), ({root} \ {NULL}) \cup {}, R)
    BY TreeIs
  <2>4. \A i \in 1 .. Len(Kids(H, root)) : Kids(H, root)[i] \in NodeId /\ Kids(H, root)[i] # root
    BY <2>3, <1>2, <1>8, KidsAre
  <2>5. \A i \in 1 .. Len(Kids(H, root)) :
          lp[Kids(H, root)[i]] = lo[Kids(H, root)[i]] /\ hp[Kids(H, root)[i]] = hi[Kids(H, root)[i]]
    BY <2>4, <1>5
  <2> QED
    BY <2>1, <2>2, <2>5, <1>2, NodeKeyedSame
<1> QED
  BY <1>5, <1>10, <1>11 DEF DownOrder

\* ... or on a new, empty leaf.
LEMMA StartEmpty ==
  ASSUME NEW G \in Heaps, NEW n, Allocated(G) = {n}, isleafnode(G, n), G[n].slots = <<>>,
         NEW key \in Key
  PROVE  DownOrder(G, n, key)
<1>1. key \in Int
  BY KeysAreInts
<1>2. PICK f : f = [k \in NodeId |-> key]
  OBVIOUS
<1>3. n \in NodeId /\ f \in [NodeId -> Int] /\ f[n] = key
  BY <1>1, <1>2 DEF Allocated
<1>4. Keyed(G, {n}, f, f, f)
  BY <1>1, <1>3 DEF Keyed
<1>5. NodeKeyed(G, f, f, n, key, key)
  BY DEF NodeKeyed, Run
<1>6. Lesser(key, key) = key /\ Greater(key, key) = key /\ key <= key
  BY <1>1 DEF Lesser, Greater
<1> QED
  BY <1>1, <1>3, <1>4, <1>5, <1>6 DEF DownOrder

\* It goes down to the child the search finds.
LEMMA DescendKeyed ==
  ASSUME NEW H \in Heaps, NEW root, NEW R, Tree(H, root, {}, R), NodesHold(H, {}),
         NEW p \in InnerNodes(H), NEW key \in Key, DownOrder(H, p, key),
         NEW slot, slot = find_lower(H, p, key), NEW d, d = childid(H, p, slot),
         slotuse(H, d) # 0
  PROVE  DownOrder(H, d, key)
<1>1. PICK lo, hi : \E b, m \in Int :
        /\ Keyed(H, {p}, lo, hi, hi) /\ NodeKeyed(H, lo, hi, p, b, m) /\ b <= m
        /\ lo[p] = Lesser(b, key) /\ hi[p] = Greater(m, key)
  BY DEF DownOrder
<1>2. PICK b, m \in Int :
        /\ Keyed(H, {p}, lo, hi, hi) /\ NodeKeyed(H, lo, hi, p, b, m) /\ b <= m
        /\ lo[p] = Lesser(b, key) /\ hi[p] = Greater(m, key)
  BY <1>1
<1>3. PICK ks, cs : RowOf(H, p, ks, cs, lo, hi, b, m)
  BY <1>2, RowOfNode
<1>4. p \in Allocated(H) /\ p \in NodeId /\ ~isleafnode(H, p) /\ key \in Int
  BY InnerNode, KeysAreInts
<1>5. /\ slot \in 0 .. Len(ks)
      /\ slot > 0 => ~(key <= ks[slot])
      /\ slot < Len(ks) => key <= ks[slot + 1]
  <2>1. SlotKeys(H, p) = ks /\ slotuse(H, p) = Len(ks)
    BY <1>3, <1>4 DEF RowOf, SlotKeys
  <2> QED
    BY <2>1, <1>4, FindLowerPlace
<1>6. PICK s : s = slot + 1
  OBVIOUS
<1>7. s \in 1 .. Len(cs) /\ d = cs[s] /\ Len(cs) = Len(ks) + 1 /\ Len(ks) \in Nat
  <2>1. Len(cs) = Len(ks) + 1 /\ Len(ks) \in Nat /\ cs = H[p].child
    BY <1>3 DEF RowOf
  <2> QED
    BY <2>1, <1>5, <1>6 DEF childid
<1>8. d \in Allocated(H) /\ d \in NodeId /\ d # p
      /\ \A i \in 1 .. Len(cs) : i # s => cs[i] # d
  BY <1>3, <1>7 DEF RowOf
<1>9. lo \in [NodeId -> Int] /\ hi \in [NodeId -> Int]
  BY <1>2 DEF Keyed
<1>10. PICK lp, hp : lp = [lo EXCEPT ![d] = Lesser(lo[d], key)]
                    /\ hp = [hi EXCEPT ![d] = Greater(hi[d], key)]
  OBVIOUS
<1>11. lo[d] \in Int /\ hi[d] \in Int /\ lo[d] <= hi[d]
  BY <1>2, <1>8, <1>9 DEF Keyed
<1>12. /\ lp \in [NodeId -> Int] /\ hp \in [NodeId -> Int]
       /\ lp[d] = Lesser(lo[d], key) /\ hp[d] = Greater(hi[d], key)
       /\ \A n \in NodeId : n # d => lp[n] = lo[n] /\ hp[n] = hi[n]
  BY <1>4, <1>8, <1>9, <1>10, <1>11 DEF Lesser, Greater
<1>13. lp[d] <= hp[d]
  BY <1>4, <1>11, <1>12 DEF Lesser, Greater
<1>14. Allocated(H) \subseteq NodeId
  BY DEF Allocated
<1>15. NodeKeyed(H, lp, hp, p, lp[p], hp[p])
  <2>1. /\ ks \in Seq(Key) /\ cs \in Seq(NodeId) /\ Row(ks, cs, lo, hi, b, m)
        /\ ks = H[p].keys /\ cs = H[p].child
        /\ \A i \in 1 .. Len(cs) : cs[i] \in Allocated(H) /\ cs[i] \in NodeId
    BY <1>3 DEF RowOf
  <2>2. Bounds(NodeId, lo, hi) /\ Spanned(cs, lo, hi)
    BY <1>2, <1>9, <2>1 DEF Bounds, Spanned, Keyed
  <2>3. /\ \A i \in 1 .. Len(cs) : i # s => lp[cs[i]] = lo[cs[i]] /\ hp[cs[i]] = hi[cs[i]]
        /\ lp[cs[s]] = Lesser(lo[cs[s]], key) /\ hp[cs[s]] = Greater(hi[cs[s]], key)
    BY <1>7, <1>8, <1>12, <2>1
  <2>4. \A i \in 1 .. Len(ks) : ks[i] \in Int
    <3>1. \A i \in 1 .. Len(ks) : ks[i] \in Key
      BY <2>1
    <3> QED
      BY <3>1, KeysAreInts
  <2>5. (s > 1 => ks[s - 1] <= key) /\ (s < Len(cs) => key <= ks[s])
    <3>1. s > 1 => slot > 0 /\ slot = s - 1 /\ slot \in 1 .. Len(ks)
      BY <1>5, <1>6
    <3>2. s < Len(cs) => slot < Len(ks)
      BY <1>6, <1>7, <1>5
    <3> QED
      BY <3>1, <3>2, <1>4, <1>5, <1>6, <2>4
  <2>6. Row(ks, cs, lp, hp, Lesser(b, key), Greater(m, key))
    <3>1. s > 1 => ks[s - 1] <= key
      BY <2>5
    <3>2. s < Len(cs) => key <= ks[s]
      BY <2>5
    <3>3. Row(ks, cs, lo, hi, b, m) /\ ks \in Seq(Key) /\ cs \in Seq(NodeId) /\ Key \subseteq Int
      BY <2>1, KeysAreInts
    <3>4. s \in 1 .. Len(cs) /\ key \in Int
      BY <1>4, <1>7
    <3>5. Widened(ks, cs, lo, hi, s, key, lp, hp)
      BY <2>3, <3>1, <3>2 DEF Widened
    <3> QED
      BY <2>2, <3>3, <3>4, <3>5, RowWiden
  <2>7. lp[p] = Lesser(b, key) /\ hp[p] = Greater(m, key)
    BY <1>2, <1>4, <1>8, <1>12
  <2> QED
    BY <2>1, <2>6, <2>7, <1>4, RowNode
<1>16. Keyed(H, {d}, lp, hp, hp)
  <2>1. Hung(H, root, {}, {p, d}, {d})
    <3>1. Kids(H, p) = cs
      BY <1>3 DEF RowOf
    <3>2. p \in {p, d} \cap Allocated(H) /\ s \in 1 .. Len(Kids(H, p)) /\ Kids(H, p)[s] = d
      BY <3>1, <1>4, <1>7
    <3> QED
      BY <3>2 DEF Hung
  <2>2. \A n \in Allocated(H) \ ({d} \cup {p, d}) :
          n \notin {p} /\ SameContent(H, H, n) /\ lp[n] = lo[n] /\ hp[n] = hi[n]
    BY <1>12, <1>14 DEF SameContent
  <2>3. \A n \in Allocated(H) \ {d} : lp[n] = lo[n] /\ hp[n] = hi[n]
    BY <1>12, <1>14
  <2>4. \A n \in Allocated(H) : n \in {d} \/ n \notin Allocated(H) => lp[n] <= hp[n]
    BY <1>13
  <2>5. \A n \in Allocated(H) : n \in {p, d} /\ n \notin {d} => NodeKeyed(H, lp, hp, n, lp[n], hp[n])
    BY <1>15
  <2> QED
    BY <1>2, <1>12, <2>1, <2>2, <2>3, <2>4, <2>5, KeyedChange
<1>17. NodeKeyed(H, lp, hp, d, lo[d], hi[d])
  <2>1. NodeKeyed(H, lo, hi, d, lo[d], hi[d])
    BY <1>2, <1>8 DEF Keyed
  <2>2. SameContent(H, H, d)
    BY <1>8 DEF SameContent
  <2>3. Forest(Allocated(H), LevelsOf(H), KidsOf(H), ({root} \ {NULL}) \cup {}, R)
    BY TreeIs
  <2>4. \A i \in 1 .. Len(Kids(H, d)) : Kids(H, d)[i] \in NodeId /\ Kids(H, d)[i] # d
    <3>1. H[d].level \in Nat
      BY <1>8, NodeIs
    <3> QED
      BY <2>3, <3>1, <1>8, <1>14, KidsAre
  <2>5. \A i \in 1 .. Len(Kids(H, d)) :
          lp[Kids(H, d)[i]] = lo[Kids(H, d)[i]] /\ hp[Kids(H, d)[i]] = hi[Kids(H, d)[i]]
    BY <2>4, <1>12
  <2> QED
    BY <2>1, <2>2, <2>5, <1>8, NodeKeyedSame
<1> QED
  BY <1>11, <1>12, <1>16, <1>17 DEF DownOrder

\* The pair goes where the search ends.
LEMMA PairPut ==
  ASSUME NEW H \in Heaps, NEW a \in Leaves(H), NEW s, s = H[a].slots, NEW lo, NEW hi,
         NEW b \in Int, NEW m \in Int, NodeKeyed(H, lo, hi, a, b, m), NEW x \in Pair,
         slotuse(H, a) = 0 => m <= x.key, NEW slot, slot = find_lower(H, a, x.key),
         NEW t, t = InsertAt(s, slot + 1, x)
  PROVE  Run(t, Lesser(b, x.key), Greater(m, x.key)) /\ t \in Seq(Pair)
<1>1. /\ a \in Allocated(H) /\ isleafnode(H, a) /\ s \in Seq(Pair) /\ slotuse(H, a) = Len(s)
  BY LeafNode
<1>2. Run(s, b, m)
  BY <1>1 DEF NodeKeyed
<1>3. SlotKeys(H, a) = [i \in DOMAIN s |-> s[i].key]
  BY <1>1 DEF SlotKeys
<1>4. /\ slot \in 0 .. Len(s)
      /\ slot > 0 => ~(x.key <= SlotKeys(H, a)[slot])
      /\ slot < Len(s) => x.key <= SlotKeys(H, a)[slot + 1]
  BY <1>1, FindLowerPlace
<1>5. /\ x.key \in Int /\ \A i \in 1 .. Len(s) : s[i].key \in Int /\ i \in DOMAIN s
  <2>1. \A i \in 1 .. Len(s) : s[i] \in Pair /\ i \in DOMAIN s
    BY <1>1
  <2> QED
    BY <2>1, KeysAreInts DEF Pair
<1>6. PICK i : i = slot + 1
  OBVIOUS
<1>7. i > 1 => s[i - 1].key <= x.key
  <2>1. i > 1 => i - 1 = slot /\ slot \in 1 .. Len(s) /\ slot > 0
    BY <1>4, <1>6
  <2>2. SUFFICES ASSUME i > 1
                 PROVE  s[slot].key <= x.key
    BY <2>1
  <2>3. SlotKeys(H, a)[slot] = s[slot].key
    BY <1>3, <1>5, <2>1, <2>2
  <2> QED
    BY <1>4, <1>5, <2>1, <2>2, <2>3
<1>8. i <= Len(s) => x.key <= s[i].key
  <2>1. i <= Len(s) => i \in 1 .. Len(s) /\ slot < Len(s) /\ i = slot + 1
    BY <1>4, <1>6
  <2> QED
    BY <1>3, <1>4, <1>5, <2>1
<1>9. t \in Seq(Pair) /\ Inserted(s, t, i, x)
  <2>1. slot + 1 \in 1 .. Len(s) + 1
    BY <1>4
  <2> QED
    BY <1>1, <1>6, <2>1, InsertAtIs
<1>10. s = <<>> => m <= x.key
  BY <1>1
<1> QED
  BY <1>1, <1>2, <1>7, <1>8, <1>9, <1>10, PairsHaveKeys, RunPut

\* A leaf with room.
LEMMA PutKeyed ==
  ASSUME NEW H \in Heaps, NEW root, NEW R, Tree(H, root, {}, R), NEW a \in Leaves(H),
         NEW x \in Pair, DownOrder(H, a, x.key), NEW slot, slot = find_lower(H, a, x.key),
         NEW t, t = InsertAt(H[a].slots, slot + 1, x), NEW G, Refilled(H, G, a, t)
  PROVE  InOrder(G)
<1>1. PICK lo, hi : \E b, m \in Int :
        /\ Keyed(H, {a}, lo, hi, hi) /\ NodeKeyed(H, lo, hi, a, b, m)
        /\ lo[a] = Lesser(b, x.key) /\ hi[a] = Greater(m, x.key) /\ (slotuse(H, a) = 0 => m <= x.key)
  BY DEF DownOrder
<1>2. PICK b, m \in Int :
        /\ Keyed(H, {a}, lo, hi, hi) /\ NodeKeyed(H, lo, hi, a, b, m)
        /\ lo[a] = Lesser(b, x.key) /\ hi[a] = Greater(m, x.key) /\ (slotuse(H, a) = 0 => m <= x.key)
  BY <1>1
<1>3. Run(t, lo[a], hi[a]) /\ t \in Seq(Pair)
  BY <1>2, PairPut
<1>4. /\ SameNodes(H, G) /\ G[a].slots = t /\ Leaves(G) = Leaves(H)
      /\ \A n \in NodeId \ {a} : G[n] = H[n]
  <2>1. PICK s \in Seq(Pair) : s = t
    BY <1>3
  <2>2. Refilled(H, G, a, s)
    BY <2>1
  <2>3. /\ G \in Heaps /\ SameNodes(H, G) /\ SameLinks(H, G) /\ Kept(H, G, 0)
        /\ G[a].slots = s /\ slotuse(G, a) = Len(s)
        /\ \A n \in NodeId \ {a} : G[n] = H[n] /\ slotuse(G, n) = slotuse(H, n)
        /\ Leaves(G) = Leaves(H) /\ InnerNodes(G) = InnerNodes(H)
    BY <2>2, RefillOne
  <2> QED
    BY <2>1, <2>3
<1>5. isleafnode(G, a) /\ a \in Allocated(H)
  BY <1>4 DEF Leaves
<1>6. NodeKeyed(G, lo, hi, a, lo[a], hi[a])
  BY <1>3, <1>4, <1>5 DEF NodeKeyed
<1>7. Allocated(G) = Allocated(H) /\ Allocated(H) \subseteq NodeId
  BY <1>4 DEF SameNodes, Allocated
<1>8. lo \in [NodeId -> Int] /\ hi \in [NodeId -> Int]
  BY <1>2 DEF Keyed
<1>9. Keyed(G, {}, lo, hi, hi)
  <2>1. Hung(H, root, {}, {a}, {})
    BY DEF Hung
  <2>2. \A n \in Allocated(G) \ ({} \cup {a}) :
          n \notin {a} /\ SameContent(H, G, n) /\ lo[n] = lo[n] /\ hi[n] = hi[n]
    BY <1>4, <1>7 DEF SameContent
  <2>3. \A n \in Allocated(G) : n \in {} \/ n \notin Allocated(H) => lo[n] <= hi[n]
    BY <1>7
  <2>4. \A n \in Allocated(G) : n \in {a} /\ n \notin {} => NodeKeyed(G, lo, hi, n, lo[n], hi[n])
    BY <1>6
  <2>5. \A n \in Allocated(H) \ {} : lo[n] = lo[n] /\ hi[n] = hi[n]
    OBVIOUS
  <2> QED
    BY <1>2, <1>8, <2>1, <2>2, <2>3, <2>4, <2>5, KeyedChange
<1> QED
  BY <1>9 DEF InOrder

\* A full leaf is split.
LEMMA SplitLeafKeyed ==
  ASSUME NEW H \in Heaps, NEW root, NEW R, Tree(H, root, {}, R), NEW a \in Leaves(H), NextOf(H, a),
         NEW x \in Pair, DownOrder(H, a, x.key), NEW slot, slot = find_lower(H, a, x.key),
         NEW t, t = InsertAt(H[a].slots, slot + 1, x), NEW d \in NodeId \ Allocated(H),
         NEW l \in Seq(Pair), NEW r \in Seq(Pair), l # <<>>, r # <<>>, Joins(t, l, r),
         NEW G, G = SplitOff(H, a, d, l, r)
  PROVE  SplitOrder(G, a, d, Last(l).key)
<1>1. PICK lo, hi : \E b, m \in Int :
        /\ Keyed(H, {a}, lo, hi, hi) /\ NodeKeyed(H, lo, hi, a, b, m)
        /\ lo[a] = Lesser(b, x.key) /\ hi[a] = Greater(m, x.key) /\ (slotuse(H, a) = 0 => m <= x.key)
  BY DEF DownOrder
<1>2. PICK b, m \in Int :
        /\ Keyed(H, {a}, lo, hi, hi) /\ NodeKeyed(H, lo, hi, a, b, m)
        /\ lo[a] = Lesser(b, x.key) /\ hi[a] = Greater(m, x.key) /\ (slotuse(H, a) = 0 => m <= x.key)
  BY <1>1
<1>3. Run(t, lo[a], hi[a]) /\ t \in Seq(Pair)
  BY <1>2, PairPut
<1>4. a \in Allocated(H) /\ a \in NodeId /\ a # d
  BY LeafNode
<1>5. lo \in [NodeId -> Int] /\ hi \in [NodeId -> Int] /\ lo[a] \in Int /\ hi[a] \in Int
  BY <1>2, <1>4 DEF Keyed
<1>6. PICK u : u = l[Len(l)].key
  OBVIOUS
<1>7. Run(l, lo[a], u) /\ Run(r, u, hi[a])
  BY <1>3, <1>6, PairsHaveKeys, RunCut
<1>8. u \in Int /\ lo[a] <= u
  BY <1>5, <1>7, PairsHaveKeys, RunIs
<1>9. hi[a] \in Int /\ u <= hi[a]
  BY <1>7, <1>8, PairsHaveKeys, RunIs
<1>10. PICK lp, hp, uq : /\ lp = [lo EXCEPT ![d] = u] /\ hp = [hi EXCEPT ![a] = u, ![d] = hi[a]]
                         /\ uq = [hp EXCEPT ![a] = hp[d]]
  OBVIOUS
<1>11. /\ lp \in [NodeId -> Int] /\ hp \in [NodeId -> Int] /\ uq \in [NodeId -> Int]
       /\ lp[d] = u /\ hp[a] = u /\ hp[d] = hi[a] /\ uq[a] = hi[a] /\ uq[d] = hi[a] /\ lp[a] = lo[a]
       /\ \A n \in NodeId \ {a, d} : lp[n] = lo[n] /\ hp[n] = hi[n] /\ uq[n] = hi[n]
  BY <1>4, <1>5, <1>8, <1>10
<1>12. /\ Allocated(G) = Allocated(H) \cup {d} /\ G[a].level = 0 /\ G[a].slots = l
       /\ G[d].level = 0 /\ G[d].slots = r
       /\ \A n \in Allocated(H) \ {a} : G[n].level = H[n].level
  BY SplitOffIs
<1>13. ASSUME NEW n \in Allocated(H), n # a
       PROVE  SameContent(H, G, n)
  <2>1. n # d /\ n \in NodeId
    BY <1>13 DEF Allocated
  <2>2. IF isleafnode(H, n) THEN G[n].slots = H[n].slots ELSE G[n] = H[n]
    <3>1. CASE H[a].next = NULL
      <4>1. G = [H EXCEPT ![a] = [H[a] EXCEPT !.slots = l, !.next = d],
                          ![d] = [level |-> 0, slots |-> r, prev |-> a, next |-> H[a].next]]
        BY <3>1 DEF SplitOff
      <4> QED
        BY <4>1, <2>1, <1>13 DEF Heaps
    <3>2. CASE H[a].next # NULL
      <4>0. PICK M : M = [H EXCEPT ![a] = [H[a] EXCEPT !.slots = l, !.next = d],
                          ![d] = [level |-> 0, slots |-> r, prev |-> a, next |-> H[a].next]]
        OBVIOUS
      <4>1. G = [M EXCEPT ![H[a].next].prev = d]
        BY <3>2, <4>0 DEF SplitOff
      <4>2. M[n] = H[n] /\ DOMAIN M = NodeId
        BY <4>0, <2>1, <1>13 DEF Heaps
      <4>3. H[a].next \in Leaves(H)
        BY <3>2 DEF NextOf
      <4>4. CASE n = H[a].next
        <5>1. G[n] = [H[n] EXCEPT !.prev = d]
          BY <4>1, <4>2, <4>4, <2>1
        <5>2. H[n] = [level |-> 0, slots |-> H[n].slots, prev |-> H[n].prev, next |-> H[n].next]
              /\ isleafnode(H, n)
          BY <4>3, <4>4, LeafNode
        <5>3. G[n].slots = H[n].slots
          BY <5>1, <5>2
        <5> QED
          BY <5>2, <5>3
      <4>5. CASE n # H[a].next
        <5>1. G[n] = H[n]
          BY <4>1, <4>2, <4>5, <2>1
        <5> QED
          BY <5>1
      <4> QED
        BY <4>4, <4>5
    <3> QED
      BY <3>1, <3>2
  <2> QED
    BY <2>2, <1>12, <1>13 DEF SameContent
<1>14. Allocated(G) \subseteq NodeId /\ Allocated(H) \subseteq NodeId
  BY DEF Allocated
<1>15. Keyed(G, {}, lp, hp, uq)
  <2>1. Hung(H, root, {}, {a, d}, {})
    BY DEF Hung
  <2>2. \A n \in Allocated(G) \ ({} \cup {a, d}) :
          n \notin {a} /\ SameContent(H, G, n) /\ lp[n] = lo[n] /\ hp[n] = hi[n]
    BY <1>11, <1>12, <1>13, <1>14
  <2>3. \A n \in Allocated(G) : n \in {} \/ n \notin Allocated(H) => lp[n] <= uq[n]
    BY <1>9, <1>11, <1>12
  <2>4. \A n \in Allocated(G) : n \in {a, d} /\ n \notin {} => NodeKeyed(G, lp, uq, n, lp[n], hp[n])
    <3>1. NodeKeyed(G, lp, uq, a, lp[a], hp[a])
      BY <1>7, <1>11, <1>12 DEF NodeKeyed, isleafnode
    <3>2. NodeKeyed(G, lp, uq, d, lp[d], hp[d])
      BY <1>7, <1>11, <1>12 DEF NodeKeyed, isleafnode
    <3> QED
      BY <3>1, <3>2
  <2>5. \A n \in Allocated(H) \ {} : lp[n] = lo[n] /\ uq[n] = hi[n]
    <3>1. TAKE n \in Allocated(H) \ {}
    <3>2. n # d /\ n \in NodeId
      BY <1>14
    <3> QED
      BY <3>2, <1>11
  <2> QED
    <3>1. Keyed(H, {a}, lo, hi, hi)
      BY <1>2
    <3>2. lp \in [NodeId -> Int] /\ hp \in [NodeId -> Int] /\ uq \in [NodeId -> Int]
      BY <1>11
    <3>3. Moved(H, root, {}, {a}, lo, hi, hi, G, {}, {a, d}, {}, lp, hp, uq)
      BY <2>1, <2>2, <2>3, <2>4, <2>5, <3>1, <3>2 DEF Moved
    <3> QED
      BY <3>3, MovedKeyed
<1>16. u = Last(l).key /\ u <= lp[d]
  <2>1. Last(l) = l[Len(l)]
    BY FrontIs
  <2>2. u <= lp[d]
    BY <1>8, <1>11
  <2> QED
    BY <1>6, <2>1, <2>2
<1> QED
  BY <1>10, <1>11, <1>15, <1>16 DEF SplitOrder

\* A child for an inner node; all bounds are as the parents say then.
IsAdding(H, root, c, p, lo, hi, kt, ct) ==
  /\ kt \in Seq(Key) /\ ct \in Seq(NodeId) /\ Row(kt, ct, lo, hi, lo[p], hi[p])
  /\ \A i \in 1 .. Len(ct) : ct[i] \in Allocated(H)
  /\ \A n \in Allocated(H) : lo[n] <= hi[n]
  /\ lo \in [NodeId -> Int] /\ hi \in [NodeId -> Int] /\ c \in NodeId /\ c # p
  /\ \E i \in 1 .. Len(Kids(H, p)) : Kids(H, p)[i] = c

LEMMA NodeBounds ==
  ASSUME NEW H \in Heaps, NEW root, NEW S, NEW R, Tree(H, root, S, R),
         NEW lo, NEW hi, NEW up, Keyed(H, {}, lo, hi, up), NEW c \in Allocated(H), slotuse(H, c) >= 1
  PROVE  lo[c] <= hi[c]
<1>1. lo \in [NodeId -> Int] /\ up \in [NodeId -> Int] /\ c \in NodeId
  BY DEF Keyed, Allocated
<1>2. \A n \in Allocated(H) : lo[n] <= up[n]
  BY DEF Keyed
<1>3. NodeKeyed(H, lo, up, c, lo[c], hi[c])
  BY DEF Keyed
<1>4. lo[c] \in Int
  BY <1>1
<1> QED
  BY <1>1, <1>2, <1>3, <1>4, NodeSpan

LEMMA Adding ==
  ASSUME NEW H \in Heaps, NEW root, NEW R, NEW d, Tree(H, root, {d}, R), NodesHold(H, {}),
         Filled(H, {}, root, 1), NEW p \in InnerNodes(H), NEW slot \in 0 .. slotuse(H, p),
         NEW c, c = childid(H, p, slot), NEW key \in Key, d \in Allocated(H),
         NEW lo, NEW hi, Keyed(H, {}, lo, hi, [hi EXCEPT ![c] = hi[d]]), hi[c] = key, key <= lo[d],
         NEW kt, kt = InsertAt(H[p].keys, slot + 1, key), NEW ct, ct = InsertAt(H[p].child, slot + 2, d)
  PROVE  IsAdding(H, root, c, p, lo, hi, kt, ct)
<1>1. PICK up : up = [hi EXCEPT ![c] = hi[d]]
  OBVIOUS
<1>2. Keyed(H, {}, lo, hi, up)
  BY <1>1
<1>3. p \in Allocated(H) /\ p \in NodeId /\ ~isleafnode(H, p) /\ H[p].level > 0
  BY InnerNode
<1>4. NodeKeyed(H, lo, up, p, lo[p], hi[p])
  BY <1>2, <1>3 DEF Keyed
<1>5. PICK ks, cs : RowOf(H, p, ks, cs, lo, up, lo[p], hi[p])
  BY <1>4, RowOfNode
<1>6. /\ ks = H[p].keys /\ cs = H[p].child /\ Kids(H, p) = cs
      /\ ks \in Seq(Key) /\ cs \in Seq(NodeId) /\ Len(ks) = slotuse(H, p) /\ Len(ks) \in Nat
      /\ Len(cs) = Len(ks) + 1 /\ Row(ks, cs, lo, up, lo[p], hi[p])
  BY <1>5 DEF RowOf
<1>7. /\ \A i \in 1 .. Len(cs) : cs[i] \in Allocated(H) /\ cs[i] \in NodeId /\ cs[i] # p
      /\ \A i, j \in 1 .. Len(cs) : i # j => cs[i] # cs[j]
  BY <1>5 DEF RowOf
<1>8. PICK s : s = slot + 1
  OBVIOUS
<1>9. s \in 1 .. Len(cs) /\ c = cs[s] /\ s + 1 \in 1 .. Len(cs) + 1 /\ s \in 1 .. Len(ks) + 1
      /\ slot + 2 = s + 1
  BY <1>6, <1>8 DEF childid
<1>10. lo \in [NodeId -> Int] /\ hi \in [NodeId -> Int] /\ up \in [NodeId -> Int]
  BY <1>2, <1>1 DEF Keyed
<1>11. c \in NodeId /\ c \in Allocated(H) /\ c # p /\ d \in NodeId
  BY <1>7, <1>9 DEF Allocated
<1>12. up[c] = hi[d] /\ \A n \in NodeId : n # c => up[n] = hi[n]
  BY <1>1, <1>10, <1>11
<1>13. c # root /\ c # d
  BY <1>3, ChildOf
<1>14. slotuse(H, c) >= 1
  <2>1. slotuse(H, c) >= mininnerslots /\ slotuse(H, c) \in Nat
    BY <1>11, <1>13, NodeIs DEF Filled
  <2> QED
    BY <2>1, Sizes
<1>15. lo[c] <= hi[c]
  BY <1>2, <1>11, <1>14, NodeBounds
<1>16. \A n \in Allocated(H) : lo[n] <= hi[n]
  <2>1. TAKE n \in Allocated(H)
  <2>2. lo[n] <= up[n] /\ n \in NodeId
    BY <1>2 DEF Keyed, Allocated
  <2> QED
    BY <1>12, <1>15, <2>2
<1>17. kt \in Seq(Key) /\ Inserted(ks, kt, s, key)
  BY <1>6, <1>8, <1>9, InsertAtIs
<1>18. ct \in Seq(NodeId) /\ Inserted(cs, ct, s + 1, d)
  BY <1>6, <1>8, <1>9, <1>11, InsertAtIs
<1>19. Row(kt, ct, lo, hi, lo[p], hi[p])
  <2>1. \A i \in 1 .. Len(cs) : i # s => hi[cs[i]] = up[cs[i]]
    BY <1>7, <1>9, <1>12
  <2>2. hi[cs[s]] = key /\ hi[d] = up[cs[s]]
    BY <1>9, <1>12
  <2>3. \A i \in 1 .. Len(cs) : lo[cs[i]] = lo[cs[i]]
    OBVIOUS
  <2> QED
    <3>1. ks \in Seq(Key) /\ cs \in Seq(NodeId) /\ kt \in Seq(Key) /\ ct \in Seq(NodeId)
      BY <1>6, <1>17, <1>18
    <3>2. Row(ks, cs, lo, up, lo[p], hi[p]) /\ s \in 1 .. Len(cs)
      BY <1>6, <1>9
    <3>3. Inserted(ks, kt, s, key) /\ Inserted(cs, ct, s + 1, d)
      BY <1>17, <1>18
    <3>4. hi[cs[s]] = key /\ hi[d] = up[cs[s]] /\ key <= lo[d]
      BY <2>2
    <3>5. PutBounds(cs, s, d, key, lo, up, lo, hi)
      BY <2>1, <2>3, <3>4 DEF PutBounds
    <3> QED
      BY <3>1, <3>2, <3>3, <3>5, RowPut
<1>20. \A i \in 1 .. Len(ct) : ct[i] \in Allocated(H)
  <2>1. TAKE i \in 1 .. Len(ct)
  <2>1a. /\ Len(ct) = Len(cs) + 1 /\ ct[s + 1] = d
         /\ \A j \in 1 .. (s + 1) - 1 : ct[j] = cs[j]
    BY <1>18 DEF Inserted
  <2>1b. Len(cs) \in Nat /\ s \in Int /\ i \in Int /\ i >= 1 /\ i <= Len(cs) + 1
    BY <1>6, <1>9, <2>1a
  <2>1c. i < s + 1 => i \in 1 .. (s + 1) - 1
    BY <2>1b
  <2>2. Len(ct) = Len(cs) + 1 /\ ct[s + 1] = d /\ (i < s + 1 => ct[i] = cs[i])
        /\ Len(cs) \in Nat /\ i \in Int /\ s \in Int
    BY <2>1a, <2>1b, <2>1c
  <2>3. i > s + 1 => ct[i] = cs[i - 1] /\ i - 1 \in 1 .. Len(cs)
    <3>1. i > s + 1 => i - 1 \in s + 1 .. Len(cs) /\ (i - 1) + 1 = i /\ i - 1 \in 1 .. Len(cs)
      BY <2>2, <1>9
    <3>2. \A j \in s + 1 .. Len(cs) : ct[j + 1] = cs[j]
      BY <1>18 DEF Inserted
    <3> QED
      BY <3>1, <3>2
  <2>4. i < s + 1 => i \in 1 .. Len(cs)
    BY <2>2, <1>9
  <2> QED
    BY <1>7, <2>2, <2>3, <2>4
<1>21. \E i \in 1 .. Len(Kids(H, p)) : Kids(H, p)[i] = c
  BY <1>6, <1>9
<1> QED
  BY <1>10, <1>11, <1>16, <1>17, <1>18, <1>19, <1>20, <1>21 DEF IsAdding

\* An inner node with room takes the new node.
LEMMA GrowKeyed ==
  ASSUME NEW H \in Heaps, NEW root, NEW R, NEW d, Tree(H, root, {d}, R), NodesHold(H, {}),
         Filled(H, {}, root, 1), NEW p \in InnerNodes(H), NEW slot \in 0 .. slotuse(H, p),
         NEW c, c = childid(H, p, slot), NEW key \in Key, d \in Allocated(H), SplitOrder(H, c, d, key),
         NEW kt, kt = InsertAt(H[p].keys, slot + 1, key), NEW ct, ct = InsertAt(H[p].child, slot + 2, d),
         NEW G, Rewritten(H, G, p, kt, ct)
  PROVE  InOrder(G)
<1>1. PICK lo, hi : /\ Keyed(H, {}, lo, hi, [hi EXCEPT ![c] = hi[d]])
                    /\ hi[c] = key /\ key <= lo[d]
  BY DEF SplitOrder
<1>2. IsAdding(H, root, c, p, lo, hi, kt, ct)
  BY <1>1, Adding
<1>3. PICK up : up = [hi EXCEPT ![c] = hi[d]]
  OBVIOUS
<1>4. /\ kt \in Seq(Key) /\ ct \in Seq(NodeId) /\ Row(kt, ct, lo, hi, lo[p], hi[p])
      /\ \A n \in Allocated(H) : lo[n] <= hi[n]
      /\ lo \in [NodeId -> Int] /\ hi \in [NodeId -> Int] /\ c \in NodeId
      /\ \E i \in 1 .. Len(Kids(H, p)) : Kids(H, p)[i] = c
  BY <1>2 DEF IsAdding
<1>5. \A n \in NodeId : n # c => up[n] = hi[n]
  BY <1>3, <1>4
<1>6. SameFrame(H, G, {p}) /\ G[p].keys = kt /\ G[p].child = ct
  BY <1>4, RewriteIs
<1>7. p \in Allocated(H) /\ p \in NodeId /\ ~isleafnode(H, p) /\ DOMAIN H = NodeId
  BY InnerNode DEF Heaps
<1>8. Allocated(G) = Allocated(H) /\ ~isleafnode(G, p) /\ Allocated(H) \subseteq NodeId
  BY <1>6, <1>7 DEF SameFrame, Allocated
<1>9. \A n \in NodeId : n # p => G[n] = H[n]
  BY <1>7 DEF Rewritten
<1>10. Moved(H, root, {d}, {}, lo, hi, up, G, {}, {p}, {c}, lo, hi, hi)
  <2>1. Hung(H, root, {d}, {p}, {c})
    BY <1>4, <1>7 DEF Hung
  <2>2. \A n \in Allocated(G) \ ({} \cup {p}) :
          n \notin {} /\ SameContent(H, G, n) /\ lo[n] = lo[n] /\ hi[n] = hi[n]
    BY <1>8, <1>9 DEF SameContent
  <2>3. \A n \in Allocated(H) \ {c} : lo[n] = lo[n] /\ hi[n] = up[n]
    BY <1>5, <1>8
  <2>4. \A n \in Allocated(G) : n \in {c} \/ n \notin Allocated(H) => lo[n] <= hi[n]
    BY <1>4, <1>8
  <2>5. NodeKeyed(G, lo, hi, p, lo[p], hi[p])
    BY <1>4, <1>6, <1>8, RowNode
  <2>6. \A n \in Allocated(G) : n \in {p} /\ n \notin {} => NodeKeyed(G, lo, hi, n, lo[n], hi[n])
    BY <2>5
  <2>7. Keyed(H, {}, lo, hi, up)
    BY <1>1, <1>3
  <2> QED
    BY <1>4, <2>1, <2>2, <2>3, <2>4, <2>6, <2>7 DEF Moved
<1>11. Keyed(G, {}, lo, hi, hi)
  BY <1>10, MovedKeyed
<1> QED
  BY <1>11 DEF InOrder

\* A full one is split.
LEMMA SplitInnerKeyed ==
  ASSUME NEW H \in Heaps, NEW root, NEW R, NEW d, Tree(H, root, {d}, R), NodesHold(H, {}),
         Filled(H, {}, root, 1), NEW p \in InnerNodes(H), NEW slot \in 0 .. slotuse(H, p),
         NEW c, c = childid(H, p, slot), NEW key \in Key, d \in Allocated(H), SplitOrder(H, c, d, key),
         NEW kt, kt = InsertAt(H[p].keys, slot + 1, key), NEW ct, ct = InsertAt(H[p].child, slot + 2, d),
         NEW e \in NodeId \ Allocated(H), NEW u \in Key,
         NEW lk \in Seq(Key), NEW rk \in Seq(Key), NEW lc \in Seq(NodeId), NEW rc \in Seq(NodeId),
         Joins(ct, lc, rc), Joins(kt, Append(lk, u), rk), Len(lc) = Len(lk) + 1, Len(rc) = Len(rk) + 1,
         NEW G, SplitInner(H, G, p, e, lk, lc, rk, rc)
  PROVE  SplitOrder(G, p, e, u)
<1>1. PICK lo, hi : /\ Keyed(H, {}, lo, hi, [hi EXCEPT ![c] = hi[d]])
                    /\ hi[c] = key /\ key <= lo[d]
  BY DEF SplitOrder
<1>2. IsAdding(H, root, c, p, lo, hi, kt, ct)
  BY <1>1, Adding
<1>3. PICK up : up = [hi EXCEPT ![c] = hi[d]]
  OBVIOUS
<1>4. /\ kt \in Seq(Key) /\ ct \in Seq(NodeId) /\ Row(kt, ct, lo, hi, lo[p], hi[p])
      /\ \A i \in 1 .. Len(ct) : ct[i] \in Allocated(H)
      /\ \A n \in Allocated(H) : lo[n] <= hi[n]
      /\ lo \in [NodeId -> Int] /\ hi \in [NodeId -> Int] /\ c \in NodeId /\ c # p
      /\ \E i \in 1 .. Len(Kids(H, p)) : Kids(H, p)[i] = c
  BY <1>2 DEF IsAdding
<1>5. \A n \in NodeId : n # c => up[n] = hi[n]
  BY <1>3, <1>4
<1>6. p \in Allocated(H) /\ p \in NodeId /\ ~isleafnode(H, p) /\ DOMAIN H = NodeId /\ p # e
      /\ Allocated(H) \subseteq NodeId /\ H[p].level \in Nat
  BY InnerNode DEF Heaps, Allocated
<1>7. /\ G[p] = [level |-> H[p].level, keys |-> lk, child |-> lc]
      /\ G[e] = [level |-> H[p].level, keys |-> rk, child |-> rc]
      /\ \A n \in NodeId \ {p, e} : G[n] = H[n]
  BY <1>6 DEF SplitInner
<1>8. Allocated(G) \subseteq Allocated(H) \cup {e}
  <2>1. SUFFICES ASSUME NEW n \in Allocated(G), n # e
                 PROVE  n \in Allocated(H)
    OBVIOUS
  <2>2. n \in NodeId /\ G[n] # NULL
    BY DEF Allocated
  <2>3. n # p => G[n] = H[n]
    BY <1>7, <2>1, <2>2
  <2> QED
    BY <1>6, <2>2, <2>3 DEF Allocated
<1>9. ~isleafnode(G, p) /\ ~isleafnode(G, e)
  BY <1>6, <1>7 DEF isleafnode
<1>10. Row(lk, lc, lo, hi, lo[p], u) /\ Row(rk, rc, lo, hi, u, hi[p])
  BY <1>4, RowCut
<1>11. /\ \A i \in 1 .. Len(lc) : lc[i] \in Allocated(H)
       /\ \A i \in 1 .. Len(rc) : rc[i] \in Allocated(H)
  <2>1. /\ \A j \in 1 .. Len(lc) : j \in 1 .. Len(ct) /\ ct[j] = lc[j]
        /\ \A j \in 1 .. Len(rc) : j + Len(lc) \in 1 .. Len(ct) /\ ct[j + Len(lc)] = rc[j]
    <3>1. Joins(ct, lc, rc) /\ ct \in Seq(NodeId)
      BY <1>4
    <3> QED
      BY <3>1, JoinsElements, ZenonT(40)
  <2>2. \A i \in 1 .. Len(ct) : ct[i] \in Allocated(H)
    BY <1>4
  <2> QED
    BY <2>1, <2>2
<1>12. u \in Int /\ u <= hi[p]
  <2>1. u \in Int
    BY KeysAreInts
  <2>2. Bounds(NodeId, lo, hi) /\ Spanned(rc, lo, hi)
    BY <1>4, <1>11 DEF Bounds, Spanned
  <2>3. Row(rk, rc, lo, hi, u, hi[p])
    BY <1>10
  <2>4. u <= hi[p]
    BY <2>1, <2>2, <2>3, RowGrows
  <2> QED
    BY <2>1, <2>4
<1>13. PICK lp, hp, uq : /\ lp = [lo EXCEPT ![e] = u] /\ hp = [hi EXCEPT ![p] = u, ![e] = hi[p]]
                         /\ uq = [hp EXCEPT ![p] = hp[e]]
  OBVIOUS
<1>14. hi[p] \in Int
  BY <1>4, <1>6
<1>15. /\ lp \in [NodeId -> Int] /\ hp \in [NodeId -> Int] /\ uq \in [NodeId -> Int]
       /\ lp[e] = u /\ hp[p] = u /\ hp[e] = hi[p] /\ uq[p] = hi[p] /\ uq[e] = hi[p] /\ lp[p] = lo[p]
       /\ \A n \in NodeId \ {e} : lp[n] = lo[n] /\ uq[n] = hi[n]
       /\ \A n \in NodeId \ {e, p} : hp[n] = hi[n]
  BY <1>4, <1>6, <1>12, <1>13, <1>14
<1>16. \A n \in Allocated(H) : lp[n] = lo[n] /\ uq[n] = hi[n]
  BY <1>15, <1>6
<1>17. NodeKeyed(G, lp, uq, p, lp[p], hp[p])
  <2>1. Len(lk) \in Nat
    OBVIOUS
  <2>2. SameBounds(lc, lo, hi, lp, uq)
    BY <1>11, <1>16 DEF SameBounds
  <2>5. Row(lk, lc, lp, uq, lo[p], u)
    BY <1>10, <2>1, <2>2, RowKept
  <2>6. G[p].keys = lk /\ G[p].child = lc /\ lp[p] = lo[p] /\ hp[p] = u
    BY <1>7, <1>15
  <2>7. Row(G[p].keys, G[p].child, lp, uq, lp[p], hp[p])
    BY <2>5, <2>6
  <2> QED
    BY <2>7, <1>9, RowNode
<1>18. NodeKeyed(G, lp, uq, e, lp[e], hp[e])
  <2>1. Len(rk) \in Nat
    OBVIOUS
  <2>2. SameBounds(rc, lo, hi, lp, uq)
    BY <1>11, <1>16 DEF SameBounds
  <2>5. Row(rk, rc, lp, uq, u, hi[p])
    BY <1>10, <2>1, <2>2, RowKept
  <2>6. G[e].keys = rk /\ G[e].child = rc /\ lp[e] = u /\ hp[e] = hi[p]
    BY <1>7, <1>15
  <2>7. Row(G[e].keys, G[e].child, lp, uq, lp[e], hp[e])
    BY <2>5, <2>6
  <2> QED
    BY <2>7, <1>9, RowNode
<1>19. Moved(H, root, {d}, {}, lo, hi, up, G, {}, {p, e}, {c}, lp, hp, uq)
  <2>1. Hung(H, root, {d}, {p, e}, {c})
    BY <1>4, <1>6 DEF Hung
  <2>2. \A n \in Allocated(G) \ ({} \cup {p, e}) :
          n \notin {} /\ SameContent(H, G, n) /\ lp[n] = lo[n] /\ hp[n] = hi[n]
    <3>1. TAKE n \in Allocated(G) \ ({} \cup {p, e})
    <3>2. n \in Allocated(H) /\ n \in NodeId \ {p, e}
      BY <1>6, <1>8
    <3> QED
      BY <1>7, <1>15, <3>2 DEF SameContent
  <2>3. \A n \in Allocated(H) \ {c} : lp[n] = lo[n] /\ uq[n] = up[n]
    BY <1>5, <1>6, <1>16
  <2>4. \A n \in Allocated(G) : n \in {c} \/ n \notin Allocated(H) => lp[n] <= uq[n]
    <3>1. \A n \in Allocated(H) : lp[n] <= uq[n]
      BY <1>4, <1>16
    <3>2. lp[e] <= uq[e]
      BY <1>12, <1>15
    <3> QED
      BY <3>1, <3>2, <1>8
  <2>5. \A n \in Allocated(G) : n \in {p, e} /\ n \notin {} => NodeKeyed(G, lp, uq, n, lp[n], hp[n])
    BY <1>17, <1>18
  <2>6. Keyed(H, {}, lo, hi, up)
    BY <1>1, <1>3
  <2> QED
    BY <1>15, <2>1, <2>2, <2>3, <2>4, <2>5, <2>6 DEF Moved
<1>20. Keyed(G, {}, lp, hp, uq)
  BY <1>19, MovedKeyed
<1>21. u <= lp[e]
  BY <1>12, <1>15
<1> QED
  BY <1>13, <1>15, <1>20, <1>21 DEF SplitOrder

\* The root was split: a new one above the two.
LEMMA CrownKeyed ==
  ASSUME NEW H \in Heaps, NEW root, root # NULL, NEW R, NEW d, Tree(H, root, {d}, R),
         Filled(H, {}, NULL, 1), root # d, d \in Allocated(H),
         NEW key \in Key, SplitOrder(H, root, d, key), NEW n \in NodeId \ Allocated(H),
         NEW G, Born(H, G, n, [level |-> H[root].level + 1, keys |-> <<key>>, child |-> <<root, d>>])
  PROVE  InOrder(G)
<1>1. PICK lo, hi : /\ Keyed(H, {}, lo, hi, [hi EXCEPT ![root] = hi[d]])
                    /\ hi[root] = key /\ key <= lo[d]
  BY DEF SplitOrder
<1>2. PICK up : up = [hi EXCEPT ![root] = hi[d]]
  OBVIOUS
<1>3. Keyed(H, {}, lo, hi, up)
  BY <1>1, <1>2
<1>4. /\ root \in Allocated(H) /\ root \in NodeId /\ H[root].level \in Nat /\ d \in NodeId
      /\ root # n /\ d # n /\ DOMAIN H = NodeId /\ Allocated(H) \subseteq NodeId
  BY RootIs, NodeIs DEF Heaps, Allocated
<1>5. lo \in [NodeId -> Int] /\ hi \in [NodeId -> Int]
  BY <1>3 DEF Keyed
<1>6. up[root] = hi[d] /\ \A x \in NodeId : x # root => up[x] = hi[x]
  BY <1>2, <1>4, <1>5
<1>7. lo[root] <= hi[root]
  <2>1. slotuse(H, root) >= mininnerslots /\ slotuse(H, root) \in Nat
    BY <1>4, NodeIs DEF Filled
  <2>2. slotuse(H, root) >= 1
    BY <2>1, Sizes
  <2> QED
    BY <1>3, <1>4, <2>2, NodeBounds
<1>8. \A x \in Allocated(H) : lo[x] <= hi[x]
  <2>1. TAKE x \in Allocated(H)
  <2>2. lo[x] <= up[x] /\ x \in NodeId
    BY <1>3, <1>4 DEF Keyed
  <2> QED
    BY <1>6, <1>7, <2>2
<1>9. lo[root] \in Int /\ hi[root] \in Int /\ lo[d] \in Int /\ hi[d] \in Int
  BY <1>4, <1>5
<1>10. lo[root] <= hi[d]
  BY <1>1, <1>7, <1>8, <1>9
<1>11. PICK lp, hp : lp = [lo EXCEPT ![n] = lo[root]] /\ hp = [hi EXCEPT ![n] = hi[d]]
  OBVIOUS
<1>12. /\ lp \in [NodeId -> Int] /\ hp \in [NodeId -> Int] /\ lp[n] = lo[root] /\ hp[n] = hi[d]
       /\ \A x \in NodeId \ {n} : lp[x] = lo[x] /\ hp[x] = hi[x]
  BY <1>4, <1>5, <1>9, <1>11
<1>13. \A x \in Allocated(H) : lp[x] = lo[x] /\ hp[x] = hi[x] /\ x # n
  BY <1>4, <1>12
<1>14. /\ G[n] = [level |-> H[root].level + 1, keys |-> <<key>>, child |-> <<root, d>>]
       /\ \A x \in NodeId \ {n} : G[x] = H[x]
  BY <1>4 DEF Born
<1>15. Allocated(G) \subseteq Allocated(H) \cup {n} /\ ~isleafnode(G, n)
  BY <1>4, <1>14 DEF Allocated, isleafnode
<1>16. NodeKeyed(G, lp, hp, n, lp[n], hp[n])
  <2>1. PICK ks, cs : ks = <<key>> /\ cs = <<root, d>>
    OBVIOUS
  <2>2. Len(ks) = 1 /\ Len(cs) = 2 /\ cs[1] = root /\ cs[2] = d /\ ks[1] = key
    BY <2>1
  <2>3. lo[root] <= lp[root] /\ hi[d] = hp[d] /\ key = hp[root] /\ key <= lp[d]
    BY <1>1, <1>4, <1>9, <1>13
  <2>4. \A i \in 1 .. 1 : ks[i] = hp[cs[i]] /\ ks[i] <= lp[cs[i + 1]]
    BY <2>2, <2>3
  <2>5. Row(ks, cs, lp, hp, lo[root], hi[d])
    BY <2>2, <2>3, <2>4 DEF Row
  <2>6. G[n].keys = ks /\ G[n].child = cs
    BY <1>14, <2>1
  <2> QED
    BY <2>5, <2>6, <1>12, <1>15, RowNode
<1>17. Moved(H, root, {d}, {}, lo, hi, up, G, {}, {n}, {root}, lp, hp, hp)
  <2>1. Hung(H, root, {d}, {n}, {root})
    BY DEF Hung
  <2>2. \A x \in Allocated(G) \ ({} \cup {n}) :
          x \notin {} /\ SameContent(H, G, x) /\ lp[x] = lo[x] /\ hp[x] = hi[x]
    <3>1. TAKE x \in Allocated(G) \ ({} \cup {n})
    <3>2. x \in Allocated(H) /\ x \in NodeId \ {n}
      BY <1>4, <1>15
    <3> QED
      BY <1>14, <1>13, <3>2 DEF SameContent
  <2>3. \A x \in Allocated(H) \ {root} : lp[x] = lo[x] /\ hp[x] = up[x]
    BY <1>4, <1>6, <1>13
  <2>4. \A x \in Allocated(G) : x \in {root} \/ x \notin Allocated(H) => lp[x] <= hp[x]
    <3>1. \A x \in Allocated(H) : lp[x] <= hp[x]
      BY <1>8, <1>13
    <3>2. lp[n] <= hp[n]
      BY <1>10, <1>12
    <3> QED
      BY <3>1, <3>2, <1>15
  <2>5. \A x \in Allocated(G) : x \in {n} /\ x \notin {} => NodeKeyed(G, lp, hp, x, lp[x], hp[x])
    BY <1>16
  <2> QED
    BY <1>3, <1>12, <2>1, <2>2, <2>3, <2>4, <2>5 DEF Moved
<1>18. Keyed(G, {}, lp, hp, hp)
  BY <1>17, MovedKeyed
<1> QED
  BY <1>18 DEF InOrder

-----------------------------------------------------------------------------
(* The keys stay in order: insert                                          *)

\* Without nodes everything is in order.
LEMMA NothingInOrder ==
  ASSUME NEW H, Allocated(H) = {}
  PROVE  InOrder(H)
<1>1. PICK f : f = [n \in NodeId |-> 0]
  OBVIOUS
<1>2. f \in [NodeId -> Int]
  BY <1>1
<1>3. Keyed(H, {}, f, f, f)
  BY <1>2 DEF Keyed
<1> QED
  BY <1>3 DEF InOrder

\* A bound of one node changes.
LEMMA BoundSet ==
  ASSUME NEW f \in [NodeId -> Int], NEW c \in NodeId, NEW x \in Int, NEW g, g = [f EXCEPT ![c] = x]
  PROVE  /\ g \in [NodeId -> Int] /\ g[c] = x
         /\ \A n \in NodeId : n # c => g[n] = f[n]
         /\ x = f[c] => g = f
OBVIOUS

LEMMA BoundSame ==
  ASSUME NEW f \in [NodeId -> Int], NEW g \in [NodeId -> Int], \A n \in NodeId : g[n] = f[n]
  PROVE  g = f
OBVIOUS

\* A key of an inner node is written.
LEMMA KeyWritten ==
  ASSUME NEW G \in Heaps, NEW p \in InnerNodes(G), NEW s \in 0 .. slotuse(G, p), s < slotuse(G, p),
         NEW k \in Key, NEW M, M = SetKey(G, p, s, k)
  PROVE  /\ M \in Heaps /\ Allocated(M) = Allocated(G) /\ ~isleafnode(M, p) /\ M[p].level = G[p].level
         /\ M[p].keys = [G[p].keys EXCEPT ![s + 1] = k] /\ M[p].child = G[p].child
         /\ \A n \in NodeId \ {p} : M[n] = G[n]
         /\ SameNodes(G, M) /\ SameLinks(G, M) /\ SameSizes(G, M)
<1>1. /\ p \in NodeId /\ p \in Allocated(G) /\ ~isleafnode(G, p) /\ G[p].level > 0
      /\ G[p] \in Inner /\ slotuse(G, p) \in Nat
  BY InnerNode
<1>2. M \in Heaps /\ Rekeyed(G, M)
  BY <1>1, SetKeyIs
<1>3. M = [G EXCEPT ![p].keys[s + 1] = k]
  BY DEF SetKey
<1>4. /\ M[p].level = G[p].level /\ M[p].keys = [G[p].keys EXCEPT ![s + 1] = k]
      /\ M[p].child = G[p].child /\ \A n \in NodeId \ {p} : M[n] = G[n]
  BY <1>1, <1>3 DEF Heaps, Inner
<1> QED
  BY <1>1, <1>2, <1>4 DEF Rekeyed, SameNodes, isleafnode

\* The parent of c learns that c ends with k.
LEMMA SetKeyed ==
  ASSUME NEW G \in Heaps, NEW root, NEW R, Tree(G, root, {}, R), NEW p \in InnerNodes(G),
         NEW s \in 0 .. slotuse(G, p), s < slotuse(G, p), NEW c, c = childid(G, p, s),
         NEW E, p \notin E, NEW lo, NEW hi, NEW up, Keyed(G, E, lo, hi, up),
         NEW k \in Key, k <= up[c], lo[c] <= k, NEW M, M = SetKey(G, p, s, k)
  PROVE  Keyed(M, E, lo, hi, [up EXCEPT ![c] = k])
<1>1. p \in Allocated(G) /\ p \in NodeId
  BY InnerNode
<1>2. lo \in [NodeId -> Int] /\ hi \in [NodeId -> Int] /\ up \in [NodeId -> Int]
      /\ NodeKeyed(G, lo, up, p, lo[p], hi[p])
  BY <1>1 DEF Keyed
<1>3. PICK ks, cs : RowOf(G, p, ks, cs, lo, up, lo[p], hi[p])
  BY <1>2, RowOfNode
<1>4. /\ ks = G[p].keys /\ cs = G[p].child /\ Kids(G, p) = cs
      /\ ks \in Seq(Key) /\ cs \in Seq(NodeId) /\ Len(ks) = slotuse(G, p) /\ Len(ks) \in Nat
      /\ Len(cs) = Len(ks) + 1 /\ Row(ks, cs, lo, up, lo[p], hi[p])
      /\ \A i \in 1 .. Len(cs) : cs[i] \in Allocated(G) /\ cs[i] \in NodeId /\ cs[i] # p
      /\ \A i, j \in 1 .. Len(cs) : i # j => cs[i] # cs[j]
  BY <1>3 DEF RowOf
<1>5. PICK t : t = s + 1
  OBVIOUS
<1>6. t \in 1 .. Len(ks) /\ t \in 1 .. Len(cs) /\ t + 1 \in 1 .. Len(cs) /\ c = cs[t]
  BY <1>4, <1>5 DEF childid
<1>7. c \in NodeId /\ c \in Allocated(G) /\ c # p /\ k \in Int
  BY <1>4, <1>6, KeysAreInts
<1>8. PICK uq : uq = [up EXCEPT ![c] = k]
  OBVIOUS
<1>9. uq \in [NodeId -> Int] /\ uq[c] = k /\ \A n \in NodeId : n # c => uq[n] = up[n]
  BY <1>2, <1>7, <1>8, BoundSet
<1>10. PICK kt : kt = [ks EXCEPT ![t] = k]
  OBVIOUS
<1>11. /\ Allocated(M) = Allocated(G) /\ ~isleafnode(M, p) /\ M[p].keys = kt /\ M[p].child = cs
       /\ \A n \in NodeId \ {p} : M[n] = G[n]
  BY <1>4, <1>5, <1>10, KeyWritten
<1>12. kt \in Seq(Key) /\ Len(kt) = Len(ks) /\ kt[t] = k /\ \A i \in 1 .. Len(ks) : i # t => kt[i] = ks[i]
  BY <1>4, <1>6, <1>10
<1>13. k <= lo[cs[t + 1]]
  <2>1. ks[t] = up[c] /\ ks[t] <= lo[cs[t + 1]]
    BY <1>4, <1>6 DEF Row
  <2>2. up[c] \in Int /\ lo[cs[t + 1]] \in Int
    BY <1>2, <1>4, <1>6, <1>7
  <2> QED
    BY <1>7, <2>1, <2>2
<1>14. \A i \in 1 .. Len(cs) : i # t => uq[cs[i]] = up[cs[i]]
  BY <1>4, <1>6, <1>9
<1>15. uq[cs[t]] = k
  BY <1>6, <1>9
<1>16. Row(kt, cs, lo, uq, lo[p], hi[p])
  <2>1. SetBounds(ks, kt, cs, t, k, lo, up, lo, uq)
    BY <1>12, <1>13, <1>14, <1>15 DEF SetBounds
  <2>2. Row(ks, cs, lo, up, lo[p], hi[p]) /\ ks \in Seq(Key) /\ cs \in Seq(NodeId)
    BY <1>4
  <2> QED
    BY <2>1, <2>2, <1>6, RowSet
<1>17. NodeKeyed(M, lo, uq, p, lo[p], hi[p])
  BY <1>11, <1>16, RowNode
<1>18. Moved(G, root, {}, E, lo, hi, up, M, E, {p}, {c}, lo, hi, uq)
  <2>1. Hung(G, root, {}, {p}, {c})
    BY <1>1, <1>4, <1>6 DEF Hung
  <2>2. \A n \in Allocated(M) \ (E \cup {p}) :
          n \notin E /\ SameContent(G, M, n) /\ lo[n] = lo[n] /\ hi[n] = hi[n]
    BY <1>11 DEF SameContent, Allocated
  <2>3. \A n \in Allocated(G) \ {c} : lo[n] = lo[n] /\ uq[n] = up[n]
    BY <1>9 DEF Allocated
  <2>4. \A n \in Allocated(M) : n \in {c} \/ n \notin Allocated(G) => lo[n] <= uq[n]
    BY <1>9, <1>11
  <2>5. \A n \in Allocated(M) : n \in {p} /\ n \notin E => NodeKeyed(M, lo, uq, n, lo[n], hi[n])
    BY <1>17
  <2> QED
    BY <1>2, <1>9, <2>1, <2>2, <2>3, <2>4, <2>5 DEF Moved
<1> QED
  BY <1>8, <1>18, MovedKeyed

-----------------------------------------------------------------------------
(* An erase on its way up                                                  *)

\* c ends with k, and its parent has another bound; or k is NULL.
Opens(H, c, k, own) ==
  \E lo, hi : \E x \in Int :
    /\ Keyed(H, {}, lo, hi, [hi EXCEPT ![c] = x])
    /\ IF k = NULL THEN x = hi[c] ELSE hi[c] = k /\ k <= x /\ ~own

LEMMA OpensNothing ==
  ASSUME NEW H, NEW c \in NodeId, NEW own, Opens(H, c, NULL, own)
  PROVE  InOrder(H)
<1>1. PICK lo, hi : \E x \in Int : Keyed(H, {}, lo, hi, [hi EXCEPT ![c] = x]) /\ x = hi[c]
  BY DEF Opens
<1>2. [hi EXCEPT ![c] = hi[c]] = hi /\ Keyed(H, {}, lo, hi, [hi EXCEPT ![c] = hi[c]])
  BY <1>1 DEF Keyed
<1> QED
  BY <1>2 DEF InOrder

LEMMA OrderOpens ==
  ASSUME NEW H, NEW c \in NodeId, InOrder(H), NEW own
  PROVE  Opens(H, c, NULL, own)
<1>1. PICK lo, hi : Keyed(H, {}, lo, hi, hi)
  BY DEF InOrder
<1>2. hi \in [NodeId -> Int]
  BY <1>1 DEF Keyed
<1>3. [hi EXCEPT ![c] = hi[c]] = hi /\ hi[c] \in Int
  BY <1>2
<1>4. Keyed(H, {}, lo, hi, [hi EXCEPT ![c] = hi[c]])
  BY <1>1, <1>3
<1> QED
  BY <1>3, <1>4 DEF Opens

\* Nothing is above the root.
LEMMA OpensRoot ==
  ASSUME NEW H \in Heaps, NEW c \in Allocated(H), NEW R, Tree(H, c, {}, R), slotuse(H, c) >= 1,
         NEW k, NEW own, Opens(H, c, k, own)
  PROVE  InOrder(H)
<1>1. PICK lo, hi : \E x \in Int : Keyed(H, {}, lo, hi, [hi EXCEPT ![c] = x])
  BY DEF Opens
<1>2. PICK x \in Int : Keyed(H, {}, lo, hi, [hi EXCEPT ![c] = x])
  BY <1>1
<1>3. PICK up : up = [hi EXCEPT ![c] = x]
  OBVIOUS
<1>4. Keyed(H, {}, lo, hi, up) /\ c \in NodeId
  BY <1>2, <1>3 DEF Allocated
<1>5. lo \in [NodeId -> Int] /\ hi \in [NodeId -> Int] /\ up \in [NodeId -> Int]
      /\ NodeKeyed(H, lo, up, c, lo[c], hi[c]) /\ \A n \in Allocated(H) : lo[n] <= up[n]
  BY <1>4 DEF Keyed
<1>6. \A n \in NodeId : n # c => up[n] = hi[n]
  BY <1>3, <1>4, <1>5, BoundSet
<1>7. lo[c] \in Int
  BY <1>4, <1>5
<1>8. lo[c] <= hi[c]
  BY <1>5, <1>7, NodeSpan
<1>9. \A i \in 1 .. Len(Kids(H, c)) : Kids(H, c)[i] # c /\ Kids(H, c)[i] \in NodeId
  <2>1. Forest(Allocated(H), LevelsOf(H), KidsOf(H), ({c} \ {NULL}) \cup {}, R)
    BY TreeIs
  <2>2. H[c].level \in Nat
    BY NodeIs
  <2>3. \A i \in 1 .. Len(Kids(H, c)) :
          Kids(H, c)[i] \in Allocated(H) /\ H[Kids(H, c)[i]].level = H[c].level - 1
    BY <2>1, KidsAre
  <2>4. \A i \in 1 .. Len(Kids(H, c)) : Kids(H, c)[i] \in NodeId
    BY <2>3 DEF Allocated
  <2>5. \A i \in 1 .. Len(Kids(H, c)) : H[Kids(H, c)[i]].level # H[c].level
    BY <2>2, <2>3
  <2> QED
    BY <2>4, <2>5
<1>10. NodeKeyed(H, lo, hi, c, lo[c], hi[c])
  <2>1. \A i \in 1 .. Len(Kids(H, c)) :
          lo[Kids(H, c)[i]] = lo[Kids(H, c)[i]] /\ hi[Kids(H, c)[i]] = up[Kids(H, c)[i]]
    BY <1>6, <1>9
  <2>2. SameContent(H, H, c)
    BY DEF SameContent
  <2> QED
    BY <1>5, <2>1, <2>2, NodeKeyedSame
<1>11. Moved(H, c, {}, {}, lo, hi, up, H, {}, {c}, {c}, lo, hi, hi)
  <2>1. Hung(H, c, {}, {c}, {c})
    BY DEF Hung
  <2>2. \A n \in Allocated(H) \ ({} \cup {c}) :
          n \notin {} /\ SameContent(H, H, n) /\ lo[n] = lo[n] /\ hi[n] = hi[n]
    BY DEF SameContent
  <2>3. \A n \in Allocated(H) \ {c} : lo[n] = lo[n] /\ hi[n] = up[n]
    BY <1>6 DEF Allocated
  <2>4. \A n \in Allocated(H) : n \in {c} \/ n \notin Allocated(H) => lo[n] <= hi[n]
    BY <1>8
  <2>5. \A n \in Allocated(H) : n \in {c} /\ n \notin {} => NodeKeyed(H, lo, hi, n, lo[n], hi[n])
    BY <1>10
  <2> QED
    BY <1>4, <1>5, <2>1, <2>2, <2>3, <2>4, <2>5 DEF Moved
<1>12. Keyed(H, {}, lo, hi, hi)
  BY <1>11, MovedKeyed
<1> QED
  BY <1>12 DEF InOrder

\* A leaf has a pair less; when that was the last one, it ends with another key.
LEMMA TakeOpens ==
  ASSUME NEW H \in Heaps, NEW root, NEW R, Tree(H, root, {}, R), NEW a \in Leaves(H), InOrder(H),
         NEW t \in Seq(Pair), t # <<>>, NEW i \in Int, NEW y, Inserted(t, H[a].slots, i, y),
         NEW G, Refilled(H, G, a, t), NEW k, k = IF i <= Len(t) THEN NULL ELSE t[Len(t)].key
  PROVE  Opens(G, a, k, FALSE)
<1>1. PICK lo, hi : Keyed(H, {}, lo, hi, hi)
  BY DEF InOrder
<1>2. a \in NodeId /\ a \in Allocated(H) /\ isleafnode(H, a) /\ H[a].slots \in Seq(Pair)
  BY LeafNode
<1>3. lo \in [NodeId -> Int] /\ hi \in [NodeId -> Int] /\ NodeKeyed(H, lo, hi, a, lo[a], hi[a])
      /\ \A n \in Allocated(H) : lo[n] <= hi[n]
  BY <1>1, <1>2 DEF Keyed
<1>4. PICK s \in Seq(Pair) : s = H[a].slots
  BY <1>2
<1>5. PICK b \in Int : b = lo[a]
  BY <1>2, <1>3
<1>6. PICK m \in Int : m = hi[a]
  BY <1>2, <1>3
<1>7. Run(s, b, m) /\ Inserted(t, s, i, y)
  BY <1>2, <1>3, <1>4, <1>5, <1>6 DEF NodeKeyed
<1>8. PICK u : u = t[Len(t)].key
  OBVIOUS
<1>9. Run(t, b, u) /\ u <= m /\ (i <= Len(t) => u = m) /\ m \in Int /\ u \in Int
  BY <1>7, <1>8, PairsHaveKeys, RunLess
<1>10. PICK hp : hp = [hi EXCEPT ![a] = u]
  OBVIOUS
<1>11. hp \in [NodeId -> Int] /\ hp[a] = u /\ \A n \in NodeId : n # a => hp[n] = hi[n]
  BY <1>2, <1>3, <1>9, <1>10, BoundSet
<1>12. /\ SameNodes(H, G) /\ G[a].slots = t /\ \A n \in NodeId \ {a} : G[n] = H[n]
  BY RefillOne
<1>13. Allocated(G) = Allocated(H) /\ isleafnode(G, a)
  BY <1>2, <1>12 DEF SameNodes, isleafnode
<1>14. Moved(H, root, {}, {}, lo, hi, hi, G, {}, {a}, {}, lo, hp, hi)
  <2>1. Hung(H, root, {}, {a}, {})
    BY DEF Hung
  <2>2. \A n \in Allocated(G) \ ({} \cup {a}) :
          n \notin {} /\ SameContent(H, G, n) /\ lo[n] = lo[n] /\ hp[n] = hi[n]
    BY <1>11, <1>12, <1>13 DEF SameContent, Allocated
  <2>3. \A n \in Allocated(H) \ {} : lo[n] = lo[n] /\ hi[n] = hi[n]
    OBVIOUS
  <2>4. \A n \in Allocated(G) : n \in {} \/ n \notin Allocated(H) => lo[n] <= hi[n]
    BY <1>13
  <2>5. \A n \in Allocated(G) : n \in {a} /\ n \notin {} => NodeKeyed(G, lo, hi, n, lo[n], hp[n])
    BY <1>5, <1>9, <1>11, <1>12, <1>13 DEF NodeKeyed
  <2> QED
    BY <1>1, <1>3, <1>11, <2>1, <2>2, <2>3, <2>4, <2>5 DEF Moved
<1>15. Keyed(G, {}, lo, hp, hi)
  BY <1>14, MovedKeyed
<1>16. hi = [hp EXCEPT ![a] = m]
  BY <1>2, <1>3, <1>6, <1>10, <1>11
<1>17. Keyed(G, {}, lo, hp, [hp EXCEPT ![a] = m])
  BY <1>15, <1>16
<1>18. u # NULL => (k = NULL \/ k = u)
  BY <1>8
<1>19. IF k = NULL THEN m = hp[a] ELSE hp[a] = k /\ k <= m /\ ~FALSE
  <2>1. CASE i <= Len(t)
    BY <2>1, <1>9, <1>11
  <2>2. CASE ~(i <= Len(t))
    <3>1. k = u /\ u \in Key
      <4>1. t[Len(t)] \in Pair
        BY <1>8
      <4> QED
        BY <2>2, <1>8, <4>1 DEF Pair
    <3> QED
      BY <3>1, <1>9, <1>11, NULLAssumption
  <2> QED
    BY <2>1, <2>2
<1> QED
  BY <1>17, <1>19 DEF Opens

\* The parent learns the key.
LEMMA OpensSet ==
  ASSUME NEW G \in Heaps, NEW root, NEW R, Tree(G, root, {}, R), NEW p \in InnerNodes(G),
         NEW s \in 0 .. slotuse(G, p), s < slotuse(G, p), NEW c \in Allocated(G), c = childid(G, p, s),
         slotuse(G, c) >= 1, NEW k \in Key, Opens(G, c, k, FALSE), NEW M, M = SetKey(G, p, s, k), NEW own
  PROVE  Opens(M, c, NULL, own)
<1>1. k # NULL
  BY NULLAssumption
<1>2. PICK lo, hi : \E x \in Int : Keyed(G, {}, lo, hi, [hi EXCEPT ![c] = x]) /\ hi[c] = k /\ k <= x
  BY <1>1 DEF Opens
<1>3. PICK x \in Int : Keyed(G, {}, lo, hi, [hi EXCEPT ![c] = x]) /\ hi[c] = k /\ k <= x
  BY <1>2
<1>4. PICK up : up = [hi EXCEPT ![c] = x]
  OBVIOUS
<1>5. Keyed(G, {}, lo, hi, up)
  BY <1>3, <1>4
<1>6. c \in NodeId /\ lo \in [NodeId -> Int] /\ hi \in [NodeId -> Int] /\ up \in [NodeId -> Int]
  BY <1>5 DEF Keyed, Allocated
<1>7. up[c] = x /\ k <= up[c]
  BY <1>3, <1>4, <1>6
<1>8. lo[c] <= k
  BY <1>3, <1>5, NodeBounds
<1>9. Keyed(M, {}, lo, hi, [up EXCEPT ![c] = k])
  BY <1>5, <1>7, <1>8, SetKeyed
<1>10. [up EXCEPT ![c] = k] = [hi EXCEPT ![c] = k] /\ hi[c] = k /\ k \in Int
  BY <1>3, <1>4, <1>6, KeysAreInts
<1>11. Keyed(M, {}, lo, hi, [hi EXCEPT ![c] = k]) /\ k = hi[c]
  BY <1>9, <1>10
<1> QED
  BY <1>10, <1>11 DEF Opens

\* The key of a last child is that of the node.
LEMMA LiftKeyed ==
  ASSUME NEW H \in Heaps, NEW root, NEW R, Tree(H, root, {}, R), NEW p \in InnerNodes(H),
         NEW c, c = childid(H, p, slotuse(H, p)), c \in Allocated(H), slotuse(H, c) >= 1,
         NEW k \in Key, OpenOrder(H, c, k)
  PROVE  Opens(H, p, k, FALSE)
<1>1. PICK lo, hi : \E x \in Int : Keyed(H, {}, lo, hi, [hi EXCEPT ![c] = x]) /\ hi[c] = k /\ k <= x
  BY DEF OpenOrder
<1>2. PICK x \in Int : Keyed(H, {}, lo, hi, [hi EXCEPT ![c] = x]) /\ hi[c] = k /\ k <= x
  BY <1>1
<1>3. PICK up : up = [hi EXCEPT ![c] = x]
  OBVIOUS
<1>4. Keyed(H, {}, lo, hi, up) /\ p \in Allocated(H) /\ p \in NodeId /\ c \in NodeId /\ ~isleafnode(H, p)
  BY <1>2, <1>3, InnerNode DEF Allocated
<1>5. lo \in [NodeId -> Int] /\ hi \in [NodeId -> Int] /\ up \in [NodeId -> Int]
      /\ NodeKeyed(H, lo, up, p, lo[p], hi[p]) /\ \A n \in Allocated(H) : lo[n] <= up[n]
  BY <1>4 DEF Keyed
<1>6. up[c] = x /\ \A n \in NodeId : n # c => up[n] = hi[n]
  BY <1>3, <1>4, <1>5, BoundSet
<1>7. PICK ks, cs : RowOf(H, p, ks, cs, lo, up, lo[p], hi[p])
  BY <1>5, RowOfNode
<1>8. /\ ks = H[p].keys /\ cs = H[p].child /\ Kids(H, p) = cs
      /\ ks \in Seq(Key) /\ cs \in Seq(NodeId) /\ Len(ks) = slotuse(H, p) /\ Len(ks) \in Nat
      /\ Len(cs) = Len(ks) + 1 /\ Row(ks, cs, lo, up, lo[p], hi[p])
      /\ \A i \in 1 .. Len(cs) : cs[i] \in Allocated(H) /\ cs[i] \in NodeId /\ cs[i] # p
      /\ \A i, j \in 1 .. Len(cs) : i # j => cs[i] # cs[j]
  BY <1>7 DEF RowOf
<1>9. Len(cs) \in 1 .. Len(cs) /\ 1 \in 1 .. Len(cs) /\ c = cs[Len(cs)]
  BY <1>8 DEF childid
<1>10. c # p /\ k \in Int /\ lo[c] <= k
  <2>1. lo[c] <= hi[c]
    BY <1>4, NodeBounds
  <2> QED
    BY <1>2, <1>8, <1>9, <2>1, KeysAreInts
<1>11. hi[p] = x /\ lo[p] <= lo[cs[1]]
  BY <1>6, <1>8, <1>9 DEF Row
<1>12. PICK hp : hp = [hi EXCEPT ![p] = k]
  OBVIOUS
<1>13. hp \in [NodeId -> Int] /\ hp[p] = k /\ \A n \in NodeId : n # p => hp[n] = hi[n]
  BY <1>4, <1>5, <1>10, <1>12, BoundSet
<1>14. hi = [hp EXCEPT ![p] = x]
  BY <1>4, <1>5, <1>11, <1>12
<1>15. NodeKeyed(H, lo, hi, p, lo[p], k)
  <2>1. \A i \in 1 .. Len(cs) : i # Len(cs) => hi[cs[i]] = up[cs[i]]
    BY <1>6, <1>8, <1>9
  <2>2. EndBounds(cs, lo[p], k, lo, up, lo, hi)
    BY <1>2, <1>9, <1>11, <2>1 DEF EndBounds
  <2>3. Row(ks, cs, lo, hi, lo[p], k)
    BY <1>8, <2>2, RowSame
  <2> QED
    BY <1>4, <1>8, <2>3, RowNode
<1>16. Moved(H, root, {}, {}, lo, hi, up, H, {}, {p}, {c}, lo, hp, hi)
  <2>1. Hung(H, root, {}, {p}, {c})
    BY <1>4, <1>8, <1>9 DEF Hung
  <2>2. \A n \in Allocated(H) \ ({} \cup {p}) :
          n \notin {} /\ SameContent(H, H, n) /\ lo[n] = lo[n] /\ hp[n] = hi[n]
    BY <1>13 DEF SameContent, Allocated
  <2>3. \A n \in Allocated(H) \ {c} : lo[n] = lo[n] /\ hi[n] = up[n]
    BY <1>6 DEF Allocated
  <2>4. \A n \in Allocated(H) : n \in {c} \/ n \notin Allocated(H) => lo[n] <= hi[n]
    BY <1>2, <1>10
  <2>5. \A n \in Allocated(H) : n \in {p} /\ n \notin {} => NodeKeyed(H, lo, hi, n, lo[n], hp[n])
    BY <1>13, <1>15
  <2> QED
    BY <1>4, <1>5, <1>13, <2>1, <2>2, <2>3, <2>4, <2>5 DEF Moved
<1>17. Keyed(H, {}, lo, hp, hi)
  BY <1>16, MovedKeyed
<1>18. Keyed(H, {}, lo, hp, [hp EXCEPT ![p] = x])
  BY <1>14, <1>17
<1>19. k # NULL
  BY NULLAssumption
<1> QED
  BY <1>2, <1>13, <1>18, <1>19 DEF Opens

\* Two neighbours below p; the second one may end with k and p not know it.
Abreast(H, p, s, a, b, k) ==
  /\ a = childid(H, p, s) /\ b = childid(H, p, s + 1)
  /\ \E lo, hi : \E x \in Int :
       /\ Keyed(H, {}, lo, hi, [hi EXCEPT ![b] = x])
       /\ IF k = NULL THEN x = hi[b] ELSE hi[b] = k /\ k <= x

LEMMA AbreastLeft ==
  ASSUME NEW H, NEW p, NEW s, NEW a, a = childid(H, p, s), NEW b, b = childid(H, p, s + 1),
         NEW k, NEW own, Opens(H, b, k, own)
  PROVE  Abreast(H, p, s, a, b, k)
<1>1. PICK lo, hi : \E x \in Int :
        /\ Keyed(H, {}, lo, hi, [hi EXCEPT ![b] = x])
        /\ IF k = NULL THEN x = hi[b] ELSE hi[b] = k /\ k <= x
  BY DEF Opens
<1> QED
  BY <1>1 DEF Abreast

LEMMA AbreastRight ==
  ASSUME NEW H, NEW p, NEW s, NEW a \in NodeId, a = childid(H, p, s),
         NEW b \in NodeId, b = childid(H, p, s + 1), NEW k, Opens(H, a, k, TRUE)
  PROVE  Abreast(H, p, s, a, b, NULL) /\ k = NULL
<1>1. k = NULL
  BY DEF Opens
<1>2. InOrder(H)
  BY <1>1, OpensNothing
<1>3. Opens(H, b, NULL, FALSE)
  BY <1>2, OrderOpens
<1> QED
  BY <1>1, <1>3, AbreastLeft

\* What is known of the two: t is the place of the key between them.
Beside(H, p, a, b, k, lo, hi, up, x, ks, cs, t) ==
  /\ Keyed(H, {}, lo, hi, up) /\ up = [hi EXCEPT ![b] = x] /\ x \in Int
  /\ lo \in [NodeId -> Int] /\ hi \in [NodeId -> Int] /\ up \in [NodeId -> Int]
  /\ RowOf(H, p, ks, cs, lo, up, lo[p], hi[p])
  /\ t \in 1 .. Len(ks) /\ t \in 1 .. Len(cs) /\ t + 1 \in 1 .. Len(cs) /\ a = cs[t] /\ b = cs[t + 1]
  /\ a \in Allocated(H) /\ b \in Allocated(H) /\ a \in NodeId /\ b \in NodeId
  /\ a # b /\ a # p /\ b # p /\ p \in Allocated(H) /\ p \in NodeId
  /\ ks[t] = hi[a] /\ up[a] = hi[a] /\ up[b] = x /\ hi[a] <= lo[b]
  /\ lo[a] <= hi[a] /\ lo[b] <= hi[b] /\ hi[b] <= x
  /\ IF k = NULL THEN x = hi[b] ELSE hi[b] = k /\ k <= x

LEMMA BesideIs ==
  ASSUME NEW H \in Heaps, NEW root, NEW R, Tree(H, root, {}, R), NEW p \in InnerNodes(H),
         NEW s \in 0 .. slotuse(H, p), s < slotuse(H, p), NEW a, NEW b, NEW k,
         Abreast(H, p, s, a, b, k), slotuse(H, a) >= 1, slotuse(H, b) >= 1
  PROVE  \E lo, hi, up, x, ks, cs : Beside(H, p, a, b, k, lo, hi, up, x, ks, cs, s + 1)
<1>1. a = childid(H, p, s) /\ b = childid(H, p, s + 1)
  BY DEF Abreast
<1>2. PICK lo, hi : \E x \in Int : /\ Keyed(H, {}, lo, hi, [hi EXCEPT ![b] = x])
                                  /\ IF k = NULL THEN x = hi[b] ELSE hi[b] = k /\ k <= x
  BY DEF Abreast
<1>3. PICK x \in Int : /\ Keyed(H, {}, lo, hi, [hi EXCEPT ![b] = x])
                       /\ IF k = NULL THEN x = hi[b] ELSE hi[b] = k /\ k <= x
  BY <1>2
<1>4. PICK up : up = [hi EXCEPT ![b] = x]
  OBVIOUS
<1>5. p \in Allocated(H) /\ p \in NodeId
  BY InnerNode
<1>6. Keyed(H, {}, lo, hi, up) /\ lo \in [NodeId -> Int] /\ hi \in [NodeId -> Int] /\ up \in [NodeId -> Int]
      /\ NodeKeyed(H, lo, up, p, lo[p], hi[p])
  BY <1>3, <1>4, <1>5 DEF Keyed
<1>7. PICK ks, cs : RowOf(H, p, ks, cs, lo, up, lo[p], hi[p])
  BY <1>6, RowOfNode
<1>8. /\ ks = H[p].keys /\ cs = H[p].child
      /\ Len(ks) = slotuse(H, p) /\ Len(ks) \in Nat
      /\ Len(cs) = Len(ks) + 1 /\ Row(ks, cs, lo, up, lo[p], hi[p])
      /\ \A i \in 1 .. Len(cs) : cs[i] \in Allocated(H) /\ cs[i] \in NodeId /\ cs[i] # p
      /\ \A i, j \in 1 .. Len(cs) : i # j => cs[i] # cs[j]
  BY <1>7 DEF RowOf
<1>9. PICK t \in Nat : t = s + 1
  BY <1>8
<1>10. t \in 1 .. Len(ks) /\ t \in 1 .. Len(cs) /\ t + 1 \in 1 .. Len(cs) /\ t # t + 1
  BY <1>8, <1>9
<1>11. a = cs[t] /\ b = cs[t + 1]
  BY <1>1, <1>8, <1>9 DEF childid
<1>12. /\ a \in Allocated(H) /\ b \in Allocated(H) /\ a \in NodeId /\ b \in NodeId
       /\ a # b /\ a # p /\ b # p
  BY <1>8, <1>10, <1>11
<1>13. up[a] = hi[a] /\ up[b] = x
  BY <1>4, <1>6, <1>12
<1>14. ks[t] = hi[a] /\ hi[a] <= lo[b]
  BY <1>8, <1>10, <1>11, <1>13 DEF Row
<1>15. lo[a] <= hi[a] /\ lo[b] <= hi[b]
  BY <1>6, <1>12, NodeBounds
<1>16. hi[b] <= x
  <2>1. hi[b] \in Int
    BY <1>6, <1>12
  <2> QED
    BY <1>3, <2>1
<1>17. Beside(H, p, a, b, k, lo, hi, up, x, ks, cs, t)
  BY <1>3, <1>4, <1>5, <1>6, <1>7, <1>10, <1>11, <1>12, <1>13, <1>14, <1>15, <1>16 DEF Beside
<1> QED
  BY <1>9, <1>17

\* The second one was merged into the first.
LEMMA MergedTwo ==
  ASSUME NEW H \in Heaps, NEW root, NEW R, Tree(H, root, {}, R), NEW p, NEW a, NEW b, NEW k,
         NEW lo, NEW hi, NEW up, NEW x, NEW ks, NEW cs, NEW t,
         Beside(H, p, a, b, k, lo, hi, up, x, ks, cs, t),
         NEW G, Allocated(G) = Allocated(H),
         \A n \in Allocated(H) \ {a, b} : SameContent(H, G, n),
         NodeKeyed(G, lo, up, a, lo[a], hi[b])
  PROVE  MergedOrder(G, a, b, k)
<1>1. /\ Keyed(H, {}, lo, hi, up) /\ up = [hi EXCEPT ![b] = x] /\ x \in Int
      /\ lo \in [NodeId -> Int] /\ hi \in [NodeId -> Int] /\ up \in [NodeId -> Int]
      /\ a \in NodeId /\ b \in NodeId /\ a # b /\ up[a] = hi[a] /\ up[b] = x
      /\ IF k = NULL THEN x = hi[b] ELSE hi[b] = k /\ k <= x
  BY DEF Beside
<1>2. PICK hp : hp = [hi EXCEPT ![a] = hi[b], ![b] = x]
  OBVIOUS
<1>3. /\ hp \in [NodeId -> Int] /\ hp[a] = hi[b] /\ hp[b] = x /\ hi[a] \in Int
      /\ \A n \in NodeId : n # a /\ n # b => hp[n] = hi[n]
  BY <1>1, <1>2
<1>4. up = [hp EXCEPT ![a] = hi[a]]
  <2>1. PICK uq : uq = [hp EXCEPT ![a] = hi[a]]
    OBVIOUS
  <2>2. uq \in [NodeId -> Int] /\ uq[a] = hi[a] /\ \A n \in NodeId : n # a => uq[n] = hp[n]
    BY <1>1, <1>3, <2>1, BoundSet
  <2>3. \A n \in NodeId : n # b => up[n] = hi[n]
    BY <1>1
  <2>4. \A n \in NodeId : uq[n] = up[n]
    BY <1>1, <1>3, <2>2, <2>3
  <2> QED
    BY <1>1, <2>1, <2>2, <2>4, BoundSame
<1>5. Moved(H, root, {}, {}, lo, hi, up, G, {b}, {a, b}, {}, lo, hp, up)
  <2>1. Hung(H, root, {}, {a, b}, {})
    BY DEF Hung
  <2>2. \A n \in Allocated(G) \ ({b} \cup {a, b}) :
          n \notin {} /\ SameContent(H, G, n) /\ lo[n] = lo[n] /\ hp[n] = hi[n]
    BY <1>3 DEF Allocated
  <2>3. \A n \in Allocated(H) \ {} : lo[n] = lo[n] /\ up[n] = up[n]
    OBVIOUS
  <2>4. \A n \in Allocated(G) : n \in {} \/ n \notin Allocated(H) => lo[n] <= up[n]
    OBVIOUS
  <2>5. \A n \in Allocated(G) : n \in {a, b} /\ n \notin {b} => NodeKeyed(G, lo, up, n, lo[n], hp[n])
    BY <1>3
  <2> QED
    BY <1>1, <1>3, <2>1, <2>2, <2>3, <2>4, <2>5 DEF Moved
<1>6. Keyed(G, {b}, lo, hp, up)
  BY <1>5, MovedKeyed
<1>7. Keyed(G, {b}, lo, hp, [hp EXCEPT ![a] = hi[a]])
  BY <1>4, <1>6
<1>8. IF k = NULL THEN hp[b] = hp[a] ELSE hp[a] = k /\ k <= hp[b]
  BY <1>1, <1>3
<1> QED
  BY <1>3, <1>7, <1>8 DEF MergedOrder

\* The bound between the two becomes u, and what they hold with it.
Shifts(H, G, p, a, b, lo, hi, up, ks, cs, t, u, lp, uq) ==
  /\ Allocated(G) = Allocated(H) /\ ~isleafnode(G, p)
  /\ G[p].keys = [ks EXCEPT ![t] = u] /\ G[p].child = cs
  /\ \A n \in Allocated(H) \ {a, b, p} : SameContent(H, G, n)
  /\ lp = [lo EXCEPT ![b] = u] /\ uq = [up EXCEPT ![a] = u]
  /\ NodeKeyed(G, lp, uq, a, lo[a], u) /\ NodeKeyed(G, lp, uq, b, u, hi[b])
  /\ u \in Int /\ lo[a] <= u /\ u <= hi[b]

LEMMA ShiftedTwo ==
  ASSUME NEW H \in Heaps, NEW root, NEW R, Tree(H, root, {}, R), NEW p, NEW a, NEW b, NEW k,
         NEW lo, NEW hi, NEW up, NEW x, NEW ks, NEW cs, NEW t,
         Beside(H, p, a, b, k, lo, hi, up, x, ks, cs, t),
         NEW G, NEW u, NEW lp, NEW uq, Shifts(H, G, p, a, b, lo, hi, up, ks, cs, t, u, lp, uq)
  PROVE  Opens(G, b, k, FALSE)
<1>0. /\ Allocated(G) = Allocated(H) /\ ~isleafnode(G, p)
      /\ G[p].keys = [ks EXCEPT ![t] = u] /\ G[p].child = cs
      /\ \A n \in Allocated(H) \ {a, b, p} : SameContent(H, G, n)
      /\ lp = [lo EXCEPT ![b] = u] /\ uq = [up EXCEPT ![a] = u]
      /\ NodeKeyed(G, lp, uq, a, lo[a], u) /\ NodeKeyed(G, lp, uq, b, u, hi[b])
      /\ u \in Int /\ lo[a] <= u /\ u <= hi[b]
  BY DEF Shifts
<1>1. /\ Keyed(H, {}, lo, hi, up) /\ up = [hi EXCEPT ![b] = x] /\ x \in Int
      /\ lo \in [NodeId -> Int] /\ hi \in [NodeId -> Int] /\ up \in [NodeId -> Int]
      /\ a \in NodeId /\ b \in NodeId /\ p \in NodeId /\ p \in Allocated(H)
      /\ a # b /\ a # p /\ b # p /\ up[a] = hi[a] /\ up[b] = x /\ hi[b] <= x
      /\ a \in Allocated(H) /\ b \in Allocated(H)
      /\ IF k = NULL THEN x = hi[b] ELSE hi[b] = k /\ k <= x
  BY DEF Beside
<1>2. /\ RowOf(H, p, ks, cs, lo, up, lo[p], hi[p])
      /\ t \in 1 .. Len(ks) /\ t \in 1 .. Len(cs) /\ t + 1 \in 1 .. Len(cs) /\ a = cs[t] /\ b = cs[t + 1]
  BY DEF Beside
<1>3. /\ Kids(H, p) = cs /\ ks \in Seq(Key) /\ cs \in Seq(NodeId) /\ Len(ks) \in Nat
      /\ Row(ks, cs, lo, up, lo[p], hi[p])
      /\ \A i \in 1 .. Len(cs) : cs[i] \in Allocated(H) /\ cs[i] \in NodeId /\ cs[i] # p
      /\ \A i, j \in 1 .. Len(cs) : i # j => cs[i] # cs[j]
  BY <1>2 DEF RowOf
<1>4. lp \in [NodeId -> Int] /\ lp[b] = u /\ \A n \in NodeId : n # b => lp[n] = lo[n]
  BY <1>0, <1>1, BoundSet
<1>5. uq \in [NodeId -> Int] /\ uq[a] = u /\ \A n \in NodeId : n # a => uq[n] = up[n]
  BY <1>0, <1>1, BoundSet
<1>6. PICK hp : hp = [hi EXCEPT ![a] = u]
  OBVIOUS
<1>7. hp \in [NodeId -> Int] /\ hp[a] = u /\ \A n \in NodeId : n # a => hp[n] = hi[n]
  BY <1>0, <1>1, <1>6, BoundSet
<1>8. uq = [hp EXCEPT ![b] = x]
  <2>1. PICK vq : vq = [hp EXCEPT ![b] = x]
    OBVIOUS
  <2>2. vq \in [NodeId -> Int] /\ vq[b] = x /\ \A n \in NodeId : n # b => vq[n] = hp[n]
    BY <1>1, <1>7, <2>1, BoundSet
  <2>3. \A n \in NodeId : n # b => up[n] = hi[n]
    BY <1>1
  <2>4. \A n \in NodeId : uq[n] = vq[n]
    BY <1>1, <1>5, <1>7, <2>2, <2>3
  <2> QED
    BY <1>5, <2>1, <2>2, <2>4, BoundSame
<1>9. NodeKeyed(G, lp, uq, p, lo[p], hi[p])
  <2>1. PICK kt : kt = [ks EXCEPT ![t] = u]
    OBVIOUS
  <2>2. Len(kt) = Len(ks) /\ kt[t] = u /\ \A i \in 1 .. Len(ks) : i # t => kt[i] = ks[i]
    BY <1>2, <1>3, <2>1
  <2>3. \A i \in 1 .. Len(cs) : i # t + 1 => lp[cs[i]] = lo[cs[i]]
    BY <1>2, <1>3, <1>4
  <2>4. \A i \in 1 .. Len(cs) : i # t => uq[cs[i]] = up[cs[i]]
    BY <1>2, <1>3, <1>5
  <2>5. uq[cs[t]] = u /\ u <= lp[cs[t + 1]]
    BY <1>0, <1>2, <1>4, <1>5
  <2>6. SetBounds(ks, kt, cs, t, u, lo, up, lp, uq)
    BY <2>2, <2>3, <2>4, <2>5 DEF SetBounds
  <2>7. Row(kt, cs, lp, uq, lo[p], hi[p])
    BY <1>2, <1>3, <2>6, RowSet
  <2> QED
    BY <1>0, <2>1, <2>7, RowNode
<1>10. Moved(H, root, {}, {}, lo, hi, up, G, {}, {a, b, p}, {a, b}, lp, hp, uq)
  <2>1. Hung(H, root, {}, {a, b, p}, {a, b})
    BY <1>1, <1>2, <1>3 DEF Hung
  <2>2. \A n \in Allocated(G) \ ({} \cup {a, b, p}) :
          n \notin {} /\ SameContent(H, G, n) /\ lp[n] = lo[n] /\ hp[n] = hi[n]
    BY <1>0, <1>4, <1>7 DEF Allocated
  <2>3. \A n \in Allocated(H) \ {a, b} : lp[n] = lo[n] /\ uq[n] = up[n]
    BY <1>0, <1>4, <1>5 DEF Allocated
  <2>4. \A n \in Allocated(G) : n \in {a, b} \/ n \notin Allocated(H) => lp[n] <= uq[n]
    <3>1. lp[a] <= uq[a]
      BY <1>0, <1>1, <1>4, <1>5
    <3>2. lp[b] <= uq[b]
      <4>1. hi[b] \in Int
        BY <1>1
      <4>2. u <= x
        BY <1>0, <1>1, <4>1
      <4> QED
        BY <1>0, <1>1, <1>4, <1>5, <4>2
    <3> QED
      BY <1>0, <3>1, <3>2
  <2>5. \A n \in Allocated(G) : n \in {a, b, p} /\ n \notin {} => NodeKeyed(G, lp, uq, n, lp[n], hp[n])
    BY <1>0, <1>1, <1>4, <1>7, <1>9
  <2> QED
    BY <1>1, <1>4, <1>5, <1>7, <2>1, <2>2, <2>3, <2>4, <2>5 DEF Moved
<1>11. Keyed(G, {}, lp, hp, uq)
  BY <1>10, MovedKeyed
<1>12. Keyed(G, {}, lp, hp, [hp EXCEPT ![b] = x])
  BY <1>8, <1>11
<1>13. IF k = NULL THEN x = hp[b] ELSE hp[b] = k /\ k <= x /\ ~FALSE
  BY <1>1, <1>7
<1> QED
  BY <1>1, <1>12, <1>13 DEF Opens

-----------------------------------------------------------------------------
(* Leaves on the way up                                                    *)

LEMMA LeafLastKey ==
  ASSUME NEW H \in Heaps, NEW a \in Leaves(H), NEW s, s = H[a].slots, s # <<>>
  PROVE  LastKey(H, a) = s[Len(s)].key /\ LastKey(H, a) \in Key /\ s[Len(s)] \in Pair
<1>1. s \in Seq(Pair) /\ isleafnode(H, a) /\ slotuse(H, a) = Len(s)
  BY LeafNode
<1>2. Len(s) \in Nat /\ Len(s) >= 1 /\ DOMAIN s = 1 .. Len(s)
  BY <1>1
<1>3. s[Len(s)] \in Pair
  BY <1>1, <1>2
<1>4. (slotuse(H, a) - 1) + 1 = Len(s)
  BY <1>1, <1>2
<1>5. SlotKeys(H, a) = [i \in DOMAIN s |-> s[i].key]
  BY <1>1 DEF SlotKeys
<1>6. LastKey(H, a) = SlotKeys(H, a)[Len(s)]
  BY <1>4 DEF LastKey, slotkey
<1>7. Len(s) \in DOMAIN s
  BY <1>2
<1>8. LastKey(H, a) = s[Len(s)].key
  BY <1>5, <1>6, <1>7
<1>9. s[Len(s)].key \in Key
  BY <1>3 DEF Pair
<1> QED
  BY <1>3, <1>8, <1>9

\* What a merge leaves in the nodes.
LEMMA MergeLeavesHolds ==
  ASSUME NEW H \in Heaps, NEW a \in Leaves(H), NEW b \in Leaves(H), a # b,
         NextOf(H, b), H[b].next # a, NEW G, G = merge_leaves(H, a, b)
  PROVE  /\ G[a].slots = H[a].slots \o H[b].slots /\ isleafnode(G, a)
         /\ \A n \in Allocated(H) \ {a, b} : SameContent(H, G, n)
<1>a. PICK N : N = H[b].next
  OBVIOUS
<1>b. PICK s : s = H[a].slots \o H[b].slots
  OBVIOUS
<1> DEFINE M == [H EXCEPT ![a].slots = s, ![a].next = N, ![b].slots = <<>>]
<1>1. a \in NodeId /\ H[a] \in Leaf /\ b \in NodeId /\ H[b] \in Leaf /\ DOMAIN H = NodeId
  BY LeafNode DEF Heaps
<1>2. N # NULL => N \in Leaves(H) /\ N # a /\ N # b /\ N \in NodeId /\ H[N] \in Leaf
  <2>1. N # NULL => N \in Leaves(H) /\ N # b
    BY <1>a DEF NextOf
  <2> QED
    BY <1>a, <2>1, LeafNode
<1>3. M[a] = [H[a] EXCEPT !.slots = s, !.next = N]
  BY <1>1
<1>4. M[a].slots = s /\ M[a].level = 0
  BY <1>1, <1>3 DEF Leaf
<1>5. DOMAIN M = NodeId /\ \A n \in NodeId \ {a, b} : M[n] = H[n]
  BY <1>1
<1>6. G = IF N = NULL THEN M ELSE [M EXCEPT ![N].prev = a]
  BY <1>a, <1>b, <1>1 DEF merge_leaves
<1> HIDE DEF M
<1>7. G[a] = M[a] /\ \A n \in NodeId \ {a, b} : n # N \/ N = NULL => G[n] = H[n]
  <2>1. CASE N = NULL
    BY <1>5, <1>6, <2>1
  <2>2. CASE N # NULL
    <3>1. G = [M EXCEPT ![N].prev = a]
      BY <1>6, <2>2
    <3>2. \A n \in NodeId \ {N} : G[n] = M[n]
      BY <1>2, <1>5, <2>2, <3>1
    <3> QED
      BY <1>1, <1>2, <1>5, <2>2, <3>2
  <2> QED
    BY <2>1, <2>2
<1>8. N # NULL => G[N].level = 0 /\ G[N].slots = H[N].slots
  <2>1. SUFFICES ASSUME N # NULL
                 PROVE  G[N].level = 0 /\ G[N].slots = H[N].slots
    OBVIOUS
  <2>2. M[N] = H[N] /\ H[N] \in Leaf
    BY <1>2, <1>5, <2>1
  <2>3. G = [M EXCEPT ![N].prev = a]
    BY <1>6, <2>1
  <2>4. G[N] = [H[N] EXCEPT !.prev = a]
    BY <1>2, <1>5, <2>1, <2>2, <2>3
  <2> QED
    BY <2>2, <2>4 DEF Leaf
<1>9. ASSUME NEW n \in Allocated(H) \ {a, b}
      PROVE  SameContent(H, G, n)
  <2>1. n \in NodeId /\ n # NULL
    BY NodeIs
  <2>2. CASE n = N
    <3>1. H[n].level = 0 /\ isleafnode(H, n)
      BY <1>2, <2>1, <2>2, LeafNode
    <3> QED
      BY <1>8, <2>1, <2>2, <3>1 DEF SameContent
  <2>3. CASE n # N
    <3>1. G[n] = H[n]
      BY <1>7, <2>1, <2>3
    <3> QED
      BY <3>1 DEF SameContent
  <2> QED
    BY <2>2, <2>3
<1> QED
  BY <1>4, <1>7, <1>9, <1>b DEF isleafnode

\* The leaves of two neighbours hold runs that are in order.
LEMMA LeavesBeside ==
  ASSUME NEW H \in Heaps, NEW p, NEW a \in Leaves(H), NEW b \in Leaves(H), NEW k,
         NEW lo, NEW hi, NEW up, NEW x, NEW ks, NEW cs, NEW t,
         Beside(H, p, a, b, k, lo, hi, up, x, ks, cs, t),
         H[a].slots # <<>>, H[b].slots # <<>>,
         NEW z \in Seq(Pair), Joins(z, H[a].slots, H[b].slots)
  PROVE  Run(z, lo[a], hi[b]) /\ lo[a] \in Int /\ hi[b] \in Int
<1>1. /\ Keyed(H, {}, lo, hi, up) /\ hi[a] <= lo[b]
      /\ a \in NodeId /\ b \in NodeId /\ a \in Allocated(H) /\ b \in Allocated(H)
      /\ lo[a] \in Int /\ lo[b] \in Int /\ hi[a] \in Int /\ hi[b] \in Int
  BY DEF Beside
<1>2. NodeKeyed(H, lo, up, a, lo[a], hi[a]) /\ NodeKeyed(H, lo, up, b, lo[b], hi[b])
  BY <1>1 DEF Keyed
<1>3. /\ isleafnode(H, a) /\ H[a].slots \in Seq(Pair)
      /\ isleafnode(H, b) /\ H[b].slots \in Seq(Pair)
  BY LeafNode
<1>4. Run(H[a].slots, lo[a], hi[a]) /\ Run(H[b].slots, lo[b], hi[b])
  BY <1>2, <1>3 DEF NodeKeyed
<1>5. PICK s \in Seq(Pair), r \in Seq(Pair) : s = H[a].slots /\ r = H[b].slots
  BY <1>3
<1>6. Run(z, lo[a], hi[b])
  BY <1>1, <1>4, <1>5, PairsHaveKeys, RunJoin
<1> QED
  BY <1>1, <1>6

LEMMA LeavesMergedKeyed ==
  ASSUME NEW H \in Heaps, NEW root, NEW R, Tree(H, root, {}, R), NEW p \in InnerNodes(H),
         NEW s \in 0 .. slotuse(H, p), s < slotuse(H, p), NEW a \in Leaves(H), NEW b \in Leaves(H),
         NEW k, Abreast(H, p, s, a, b, k), H[a].slots # <<>>, H[b].slots # <<>>,
         NextOf(H, b), H[b].next # a, NEW G, G = merge_leaves(H, a, b), Allocated(G) = Allocated(H)
  PROVE  MergedOrder(G, a, b, k)
<1>1. /\ isleafnode(H, a) /\ H[a].slots \in Seq(Pair) /\ slotuse(H, a) = Len(H[a].slots)
      /\ isleafnode(H, b) /\ H[b].slots \in Seq(Pair) /\ slotuse(H, b) = Len(H[b].slots)
  BY LeafNode
<1>2. slotuse(H, a) >= 1 /\ slotuse(H, b) >= 1
  BY <1>1
<1>3. PICK lo, hi, up, x, ks, cs : Beside(H, p, a, b, k, lo, hi, up, x, ks, cs, s + 1)
  BY <1>2, BesideIs
<1>4. PICK t : t = s + 1
  OBVIOUS
<1>5. Beside(H, p, a, b, k, lo, hi, up, x, ks, cs, t) /\ a # b
  BY <1>3, <1>4 DEF Beside
<1>6. PICK z : z = H[a].slots \o H[b].slots
  OBVIOUS
<1>7. z \in Seq(Pair) /\ Joins(z, H[a].slots, H[b].slots)
  BY <1>1, <1>6, ConcatIs
<1>8. Run(z, lo[a], hi[b])
  BY <1>5, <1>7, LeavesBeside
<1>9. G[a].slots = z /\ isleafnode(G, a) /\ \A n \in Allocated(H) \ {a, b} : SameContent(H, G, n)
  BY <1>5, <1>6, MergeLeavesHolds
<1>10. NodeKeyed(G, lo, up, a, lo[a], hi[b])
  BY <1>8, <1>9 DEF NodeKeyed
<1> QED
  BY <1>5, <1>9, <1>10, MergedTwo

\* The pairs of two leaves are divided anew, and the parent learns where.
LEMMA LeavesCutKeyed ==
  ASSUME NEW H \in Heaps, NEW root, NEW R, Tree(H, root, {}, R), NEW p \in InnerNodes(H),
         NEW s \in 0 .. slotuse(H, p), s < slotuse(H, p), NEW a \in Leaves(H), NEW b \in Leaves(H),
         NEW k, Abreast(H, p, s, a, b, k), H[a].slots # <<>>, H[b].slots # <<>>,
         NEW z \in Seq(Pair), Joins(z, H[a].slots, H[b].slots),
         NEW l \in Seq(Pair), NEW r \in Seq(Pair), l # <<>>, r # <<>>, Joins(z, l, r),
         NEW M, RefilledTwo(H, M, a, b, l, r), NEW u, u = l[Len(l)].key,
         NEW G, G = SetKey(M, p, s, u)
  PROVE  Opens(G, b, k, FALSE)
<1>1. /\ isleafnode(H, a) /\ H[a].slots \in Seq(Pair) /\ slotuse(H, a) = Len(H[a].slots)
      /\ isleafnode(H, b) /\ H[b].slots \in Seq(Pair) /\ slotuse(H, b) = Len(H[b].slots)
  BY LeafNode
<1>2. slotuse(H, a) >= 1 /\ slotuse(H, b) >= 1
  BY <1>1
<1>3. PICK lo, hi, up, x, ks, cs : Beside(H, p, a, b, k, lo, hi, up, x, ks, cs, s + 1)
  BY <1>2, BesideIs
<1>4. PICK t : t = s + 1
  OBVIOUS
<1>5. /\ Beside(H, p, a, b, k, lo, hi, up, x, ks, cs, t) /\ a # b /\ a # p /\ b # p
      /\ RowOf(H, p, ks, cs, lo, up, lo[p], hi[p])
  BY <1>3, <1>4 DEF Beside
<1>6. Run(z, lo[a], hi[b]) /\ lo[a] \in Int /\ hi[b] \in Int
  BY <1>5, LeavesBeside
<1>7. Run(l, lo[a], u) /\ Run(r, u, hi[b])
  BY <1>6, PairsHaveKeys, RunCut
<1>8. l[Len(l)] \in Pair
  <2>1. Len(l) \in 1 .. Len(l)
    BY EmptySeq, LenProperties
  <2> QED
    BY <2>1
<1>9. u \in Key /\ u \in Int
  BY <1>8, KeysAreInts DEF Pair
<1>10. lo[a] <= u
  BY <1>6, <1>7, PairsHaveKeys, RunIs
<1>11. u <= hi[b]
  BY <1>7, <1>9, PairsHaveKeys, RunIs
<1>12. /\ M \in Heaps /\ Allocated(M) = Allocated(H) /\ M[a].slots = l /\ M[b].slots = r
       /\ \A n \in NodeId \ {a, b} : M[n] = H[n] /\ slotuse(M, n) = slotuse(H, n)
       /\ Leaves(M) = Leaves(H) /\ InnerNodes(M) = InnerNodes(H)
  BY DEF RefilledTwo, SameNodes
<1>13. p \in NodeId /\ p \in InnerNodes(M) /\ slotuse(M, p) = slotuse(H, p) /\ M[p] = H[p]
  BY <1>5, <1>12, InnerNode
<1>14. /\ G \in Heaps /\ Allocated(G) = Allocated(M) /\ ~isleafnode(G, p)
       /\ G[p].keys = [M[p].keys EXCEPT ![s + 1] = u] /\ G[p].child = M[p].child
       /\ \A n \in NodeId \ {p} : G[n] = M[n]
  BY <1>9, <1>12, <1>13, KeyWritten
<1>15. ks = H[p].keys /\ cs = H[p].child
  BY <1>5 DEF RowOf
<1>16. G[p].keys = [ks EXCEPT ![t] = u] /\ G[p].child = cs
  BY <1>4, <1>13, <1>14, <1>15
<1>17. a \in NodeId /\ b \in NodeId /\ a \in Leaves(M) /\ b \in Leaves(M)
  BY <1>12, LeafNode
<1>18. G[a] = M[a] /\ G[b] = M[b] /\ M[a].level = 0 /\ M[b].level = 0
  <2>1. G[a] = M[a] /\ G[b] = M[b]
    BY <1>5, <1>14, <1>17
  <2>2. M[a].level = 0 /\ M[b].level = 0
    BY <1>12, <1>17, LeafNode
  <2> QED
    BY <2>1, <2>2
<1>19. isleafnode(G, a) /\ isleafnode(G, b) /\ G[a].slots = l /\ G[b].slots = r
  BY <1>12, <1>18 DEF isleafnode
<1>20. PICK lp : lp = [lo EXCEPT ![b] = u]
  OBVIOUS
<1>21. PICK uq : uq = [up EXCEPT ![a] = u]
  OBVIOUS
<1>22. NodeKeyed(G, lp, uq, a, lo[a], u) /\ NodeKeyed(G, lp, uq, b, u, hi[b])
  BY <1>7, <1>19 DEF NodeKeyed
<1>23. \A n \in Allocated(H) \ {a, b, p} : SameContent(H, G, n)
  <2>1. TAKE n \in Allocated(H) \ {a, b, p}
  <2>2. n \in NodeId
    BY NodeIs
  <2>3. G[n] = H[n]
    BY <1>12, <1>14, <2>1, <2>2
  <2> QED
    BY <2>3 DEF SameContent
<1>24. Allocated(G) = Allocated(H)
  BY <1>12, <1>14
<1> QED
  <2>1. Beside(H, p, a, b, k, lo, hi, up, x, ks, cs, t)
    BY <1>5
  <2>2. Shifts(H, G, p, a, b, lo, hi, up, ks, cs, t, u, lp, uq)
    BY <1>9, <1>10, <1>11, <1>14, <1>16, <1>20, <1>21, <1>22, <1>23, <1>24 DEF Shifts
  <2> QED
    BY <2>1, <2>2, ShiftedTwo

-----------------------------------------------------------------------------
(* Inner nodes on the way up                                               *)

\* All nodes of zc are children of a or of b.
KidsIn(H, a, b, zc) ==
  \A i \in 1 .. Len(zc) : \/ \E j \in 1 .. Len(Kids(H, a)) : Kids(H, a)[j] = zc[i]
                          \/ \E j \in 1 .. Len(Kids(H, b)) : Kids(H, b)[j] = zc[i]

\* The rows of two neighbours, and the key between them, are one row.
LEMMA InnersBeside ==
  ASSUME NEW H \in Heaps, NEW root, NEW R, Tree(H, root, {}, R),
         NEW p, NEW a \in InnerNodes(H), NEW b \in InnerNodes(H), NEW k,
         NEW lo, NEW hi, NEW up, NEW x, NEW ks, NEW cs, NEW t,
         Beside(H, p, a, b, k, lo, hi, up, x, ks, cs, t),
         NEW z \in Seq(Key), NEW zc \in Seq(NodeId), Joins(zc, H[a].child, H[b].child),
         Joins(z, Append(H[a].keys, ks[t]), H[b].keys)
  PROVE  Row(z, zc, lo, up, lo[a], hi[b]) /\ KidsIn(H, a, b, zc)
<1>1. /\ Keyed(H, {}, lo, hi, up) /\ hi[a] <= lo[b] /\ ks[t] = hi[a]
      /\ a \in NodeId /\ b \in NodeId /\ a \in Allocated(H) /\ b \in Allocated(H)
      /\ lo \in [NodeId -> Int] /\ up \in [NodeId -> Int]
      /\ lo[a] \in Int /\ lo[b] \in Int /\ hi[a] \in Int /\ hi[b] \in Int
      /\ RowOf(H, p, ks, cs, lo, up, lo[p], hi[p]) /\ t \in 1 .. Len(ks)
  BY DEF Beside
<1>2. NodeKeyed(H, lo, up, a, lo[a], hi[a]) /\ NodeKeyed(H, lo, up, b, lo[b], hi[b])
  BY <1>1 DEF Keyed
<1>3. /\ ~isleafnode(H, a) /\ H[a].keys \in Seq(Key) /\ H[a].child \in Seq(NodeId) /\ Kids(H, a) = H[a].child
      /\ ~isleafnode(H, b) /\ H[b].keys \in Seq(Key) /\ H[b].child \in Seq(NodeId) /\ Kids(H, b) = H[b].child
  BY InnerNode
<1>4. PICK xk \in Seq(Key), yk \in Seq(Key), xc \in Seq(NodeId), yc \in Seq(NodeId) :
        xk = H[a].keys /\ yk = H[b].keys /\ xc = H[a].child /\ yc = H[b].child
  BY <1>3
<1>5. Row(xk, xc, lo, up, lo[a], hi[a]) /\ Row(yk, yc, lo, up, lo[b], hi[b])
  BY <1>2, <1>3, <1>4 DEF NodeKeyed
<1>6. PICK u \in Key : u = ks[t] /\ u = hi[a]
  <2>1. ks \in Seq(Key)
    BY <1>1 DEF RowOf
  <2>2. ks[t] \in Key
    BY <1>1, <2>1
  <2> QED
    BY <1>1, <2>2
<1>7. Joins(zc, xc, yc) /\ Joins(z, Append(xk, u), yk)
  BY <1>4, <1>6
<1>8. Bounds(NodeId, lo, up)
  BY <1>1 DEF Bounds
<1>9. Row(xk, xc, lo, up, lo[a], u) /\ u <= lo[b]
  BY <1>1, <1>5, <1>6
<1>10. Row(z, zc, lo, up, lo[a], hi[b])
  BY <1>1, <1>5, <1>7, <1>8, <1>9, RowJoin
<1>11. ASSUME NEW i \in 1 .. Len(zc)
       PROVE  \/ \E j \in 1 .. Len(Kids(H, a)) : Kids(H, a)[j] = zc[i]
              \/ \E j \in 1 .. Len(Kids(H, b)) : Kids(H, b)[j] = zc[i]
  <2>1. /\ Len(zc) = Len(xc) + Len(yc)
        /\ \A j \in 1 .. Len(xc) : zc[j] = xc[j]
        /\ \A j \in 1 .. Len(zc) : j > Len(xc) => j - Len(xc) \in 1 .. Len(yc) /\ zc[j] = yc[j - Len(xc)]
    <3>1. Len(zc) = Len(xc) + Len(yc)
      BY <1>7 DEF Joins
    <3>2. \A j \in 1 .. Len(xc) : zc[j] = xc[j]
      BY <1>7 DEF Joins
    <3> QED
      BY <1>7, <3>1, <3>2, JoinsElements
  <2>2. Len(xc) \in Nat /\ Len(zc) \in Nat
    OBVIOUS
  <2>3. CASE i <= Len(xc)
    <3>1. i \in 1 .. Len(xc)
      BY <2>2, <2>3
    <3> QED
      BY <1>3, <1>4, <2>1, <3>1
  <2>4. CASE i > Len(xc)
    <3>1. i - Len(xc) \in 1 .. Len(yc) /\ zc[i] = yc[i - Len(xc)]
      BY <2>1, <2>4
    <3> QED
      BY <1>3, <1>4, <3>1
  <2> QED
    BY <2>2, <2>3, <2>4
<1> QED
  BY <1>10, <1>11 DEF KidsIn

\* Nodes other than the two that are rewritten.
LEMMA TwoHold ==
  ASSUME NEW H \in Heaps, NEW a \in InnerNodes(H), NEW b \in InnerNodes(H), a # b,
         NEW ka, NEW ca, NEW kb, NEW cb, NEW G, RewrittenTwo(H, G, a, b, ka, ca, kb, cb)
  PROVE  /\ \A n \in NodeId \ {a, b} : G[n] = H[n]
         /\ \A n \in Allocated(H) \ {a, b} : SameContent(H, G, n)
<1>1. a \in NodeId /\ b \in NodeId /\ DOMAIN H = NodeId
  BY InnerNode DEF Heaps
<1>2. \A n \in NodeId \ {a, b} : G[n] = H[n]
  BY <1>1 DEF RewrittenTwo
<1>3. ASSUME NEW n \in Allocated(H) \ {a, b}
      PROVE  SameContent(H, G, n)
  <2>1. G[n] = H[n]
    BY <1>2, NodeIs
  <2> QED
    BY <2>1 DEF SameContent
<1> QED
  BY <1>2, <1>3

LEMMA InnersMergedKeyed ==
  ASSUME NEW H \in Heaps, NEW root, NEW R, Tree(H, root, {}, R), NEW p \in InnerNodes(H),
         NEW s \in 0 .. slotuse(H, p), s < slotuse(H, p), NEW a \in InnerNodes(H), NEW b \in InnerNodes(H),
         NEW k, Abreast(H, p, s, a, b, k), slotuse(H, a) >= 1, slotuse(H, b) >= 1,
         NEW G, G = merge_inner(H, a, b, p, s), Allocated(G) = Allocated(H)
  PROVE  MergedOrder(G, a, b, k)
<1>1. /\ a \in NodeId /\ b \in NodeId /\ DOMAIN H = NodeId /\ H[a] \in Inner /\ H[b] \in Inner
      /\ H[a].keys \in Seq(Key) /\ H[a].child \in Seq(NodeId)
      /\ H[b].keys \in Seq(Key) /\ H[b].child \in Seq(NodeId)
      /\ ~isleafnode(H, p) /\ ~isleafnode(H, a)
  BY InnerNode DEF Heaps
<1>3. PICK lo, hi, up, x, ks, cs : Beside(H, p, a, b, k, lo, hi, up, x, ks, cs, s + 1)
  BY BesideIs
<1>4. PICK t : t = s + 1
  OBVIOUS
<1>5. /\ Beside(H, p, a, b, k, lo, hi, up, x, ks, cs, t) /\ a # b
      /\ RowOf(H, p, ks, cs, lo, up, lo[p], hi[p]) /\ t \in 1 .. Len(ks)
  BY <1>3, <1>4 DEF Beside
<1>6. ks = H[p].keys /\ ks \in Seq(Key) /\ ks[t] \in Key
  BY <1>5 DEF RowOf
<1>7. PICK v \in Key : v = ks[t] /\ v = slotkey(H, p, s)
  BY <1>1, <1>4, <1>6 DEF slotkey, SlotKeys
<1>8. PICK xk \in Seq(Key), yk \in Seq(Key), xc \in Seq(NodeId), yc \in Seq(NodeId) :
        xk = H[a].keys /\ yk = H[b].keys /\ xc = H[a].child /\ yc = H[b].child
  BY <1>1
<1>9. PICK z, zc : z = Append(xk, v) \o yk /\ zc = xc \o yc
  OBVIOUS
<1>10. z \in Seq(Key) /\ Joins(z, Append(xk, v), yk)
  <2>1. Append(xk, v) \in Seq(Key)
    OBVIOUS
  <2> QED
    BY <1>9, <2>1, ConcatIs
<1>11. zc \in Seq(NodeId) /\ Joins(zc, xc, yc)
  BY <1>9, ConcatIs
<1>12. Row(z, zc, lo, up, lo[a], hi[b])
  <2>1. Joins(zc, H[a].child, H[b].child)
    BY <1>8, <1>11
  <2>2. Joins(z, Append(H[a].keys, ks[t]), H[b].keys)
    BY <1>7, <1>8, <1>10
  <2>3. z \in Seq(Key) /\ zc \in Seq(NodeId) /\ Beside(H, p, a, b, k, lo, hi, up, x, ks, cs, t)
    BY <1>5, <1>10, <1>11
  <2> QED
    BY <2>1, <2>2, <2>3, InnersBeside
<1>13. RewrittenTwo(H, G, a, b, z, zc, <<>>, <<>>)
  <2>1. G = [H EXCEPT ![a].keys = Append(@, slotkey(H, p, s)) \o H[b].keys,
                      ![a].child = @ \o H[b].child, ![b].keys = <<>>, ![b].child = <<>>]
    BY ZenonT(40) DEF merge_inner
  <2>2. G = [H EXCEPT ![a].keys = z, ![a].child = zc, ![b].keys = <<>>, ![b].child = <<>>]
    BY <1>1, <1>5, <1>7, <1>8, <1>9, <2>1 DEF Inner
  <2> QED
    BY <2>2 DEF RewrittenTwo
<1>14. PICK kb, cb : kb = <<>> /\ cb = <<>>
  OBVIOUS
<1>15. IsTwo(H, G, a, b, z, zc, kb, cb)
  <2>1. kb \in Seq(Key) /\ cb \in Seq(NodeId) /\ RewrittenTwo(H, G, a, b, z, zc, kb, cb)
    BY <1>13, <1>14
  <2> QED
    BY <1>5, <1>10, <1>11, <2>1, RewriteTwoIs
<1>16. G[a].keys = z /\ G[a].child = zc /\ ~isleafnode(G, a)
  <2>1. a \in Allocated(H)
    BY InnerNode
  <2> QED
    BY <1>1, <1>15, <2>1 DEF IsTwo, SameFrame
<1>17. NodeKeyed(G, lo, up, a, lo[a], hi[b])
  BY <1>12, <1>16, RowNode
<1>18. \A n \in Allocated(H) \ {a, b} : SameContent(H, G, n)
  BY <1>5, <1>13, TwoHold
<1> QED
  BY <1>5, <1>17, <1>18, MergedTwo

\* What a shift between two inner nodes writes.
InnersCut(H, G, a, b, p, slot) ==
  \E ka, kb \in Seq(Key), ca, cb \in Seq(NodeId), u \in Key : \E M :
    /\ Joins(H[a].child \o H[b].child, ca, cb)
    /\ Joins(Append(H[a].keys, slotkey(H, p, slot)) \o H[b].keys, Append(ka, u), kb)
    /\ Len(ca) = Len(ka) + 1 /\ Len(cb) = Len(kb) + 1
    /\ RewrittenTwo(H, M, a, b, ka, ca, kb, cb) /\ G = SetKey(M, p, slot, u)

\* The children of two neighbours are not one of them.
LEMMA KidsOfTwo ==
  ASSUME NEW H \in Heaps, NEW root, NEW S, NEW R, Tree(H, root, S, R), NEW a \in Allocated(H),
         NEW b \in Allocated(H), H[a].level = H[b].level, NEW zc, KidsIn(H, a, b, zc)
  PROVE  \A i \in 1 .. Len(zc) : zc[i] \in Allocated(H) /\ zc[i] # a /\ zc[i] # b /\ zc[i] \in NodeId
<1>1. PICK X : X = ({root} \ {NULL}) \cup S
  OBVIOUS
<1>2. Forest(Allocated(H), LevelsOf(H), KidsOf(H), X, R)
  BY <1>1, TreeIs
<1>3. ASSUME NEW i \in 1 .. Len(zc)
      PROVE  zc[i] \in Allocated(H) /\ H[zc[i]].level = H[a].level - 1
  <2>1. CASE \E j \in 1 .. Len(Kids(H, a)) : Kids(H, a)[j] = zc[i]
    BY <1>2, <2>1, KidsAre
  <2>2. CASE \E j \in 1 .. Len(Kids(H, b)) : Kids(H, b)[j] = zc[i]
    BY <1>2, <2>2, KidsAre
  <2> QED
    BY <2>1, <2>2 DEF KidsIn
<1>4. H[a].level \in Nat /\ H[b].level \in Nat
  BY NodeIs
<1>5. H[a].level - 1 # H[a].level /\ H[a].level - 1 # H[b].level
  BY <1>4
<1> QED
  BY <1>3, <1>5, NodeIs

\* The parts of a row, with the bound between them in the bounds of the nodes.
CutRow(lk, lc, rk, rc, lo, up, lp, uq, b, u, m) ==
  Row(lk, lc, lp, uq, b, u) /\ Row(rk, rc, lp, uq, u, m) /\ b <= u /\ u <= m

LEMMA RowCutBetween ==
  ASSUME NEW z \in Seq(Key), NEW zc \in Seq(NodeId), NEW lo, NEW up, Bounds(NodeId, lo, up),
         Spanned(zc, lo, up), NEW b \in Int, NEW m \in Int, Row(z, zc, lo, up, b, m),
         NEW lk \in Seq(Key), NEW rk \in Seq(Key), NEW u \in Key, NEW lc \in Seq(NodeId), NEW rc \in Seq(NodeId),
         Joins(zc, lc, rc), Joins(z, Append(lk, u), rk),
         Len(lc) = Len(lk) + 1, Len(rc) = Len(rk) + 1, NEW lp, NEW uq,
         \A i \in 1 .. Len(zc) : lp[zc[i]] = lo[zc[i]] /\ uq[zc[i]] = up[zc[i]]
  PROVE  CutRow(lk, lc, rk, rc, lo, up, lp, uq, b, u, m)
<1>1. Row(lk, lc, lo, up, b, u) /\ Row(rk, rc, lo, up, u, m)
  BY RowCut
<1>2. /\ \A j \in 1 .. Len(lc) : j \in 1 .. Len(zc) /\ zc[j] = lc[j]
      /\ \A j \in 1 .. Len(rc) : j + Len(lc) \in 1 .. Len(zc) /\ zc[j + Len(lc)] = rc[j]
  <2>1. Len(zc) \in Nat /\ Len(lc) \in Nat /\ Len(rc) \in Nat
    OBVIOUS
  <2>2. /\ Len(zc) = Len(lc) + Len(rc)
        /\ \A j \in 1 .. Len(lc) : zc[j] = lc[j]
        /\ \A j \in 1 .. Len(rc) : zc[j + Len(lc)] = rc[j]
    BY DEF Joins
  <2> QED
    BY <2>1, <2>2
<1>3. SameBounds(lc, lo, up, lp, uq) /\ Spanned(lc, lo, up)
  <2>1. ASSUME NEW j \in 1 .. Len(lc)
        PROVE  lp[lc[j]] = lo[lc[j]] /\ uq[lc[j]] = up[lc[j]] /\ lo[lc[j]] <= up[lc[j]]
    <3>1. PICK i \in 1 .. Len(zc) : zc[i] = lc[j]
      BY <1>2
    <3>2. lp[zc[i]] = lo[zc[i]] /\ uq[zc[i]] = up[zc[i]]
      OBVIOUS
    <3>3. lo[zc[i]] <= up[zc[i]]
      BY DEF Spanned
    <3> QED
      BY <3>1, <3>2, <3>3
  <2> QED
    BY <2>1 DEF SameBounds, Spanned
<1>4. SameBounds(rc, lo, up, lp, uq) /\ Spanned(rc, lo, up)
  <2>1. ASSUME NEW j \in 1 .. Len(rc)
        PROVE  lp[rc[j]] = lo[rc[j]] /\ uq[rc[j]] = up[rc[j]] /\ lo[rc[j]] <= up[rc[j]]
    <3>1. PICK i \in 1 .. Len(zc) : zc[i] = rc[j]
      BY <1>2
    <3>2. lp[zc[i]] = lo[zc[i]] /\ uq[zc[i]] = up[zc[i]]
      OBVIOUS
    <3>3. lo[zc[i]] <= up[zc[i]]
      BY DEF Spanned
    <3> QED
      BY <3>1, <3>2, <3>3
  <2> QED
    BY <2>1 DEF SameBounds, Spanned
<1>5. Len(lk) \in Nat /\ Len(rk) \in Nat /\ u \in Int
  BY KeysAreInts
<1>6. Row(lk, lc, lp, uq, b, u)
  BY <1>1, <1>3, <1>5, RowKept
<1>7. Row(rk, rc, lp, uq, u, m)
  BY <1>1, <1>4, <1>5, RowKept
<1>8. b <= u
  BY <1>1, <1>3, RowGrows
<1>9. u <= m
  BY <1>1, <1>4, <1>5, RowGrows
<1> QED
  BY <1>6, <1>7, <1>8, <1>9 DEF CutRow

LEMMA InnersCutKeyed ==
  ASSUME NEW H \in Heaps, NEW root, NEW R, Tree(H, root, {}, R), NEW p \in InnerNodes(H),
         NEW s \in 0 .. slotuse(H, p), s < slotuse(H, p), NEW a \in InnerNodes(H), NEW b \in InnerNodes(H),
         NEW k, Abreast(H, p, s, a, b, k), slotuse(H, a) >= 1, slotuse(H, b) >= 1,
         H[a].level = H[b].level, NEW G, InnersCut(H, G, a, b, p, s)
  PROVE  Opens(G, b, k, FALSE)
<1>1. /\ a \in NodeId /\ b \in NodeId /\ a \in Allocated(H) /\ b \in Allocated(H)
      /\ H[a].keys \in Seq(Key) /\ H[a].child \in Seq(NodeId)
      /\ H[b].keys \in Seq(Key) /\ H[b].child \in Seq(NodeId)
      /\ ~isleafnode(H, p) /\ ~isleafnode(H, a) /\ ~isleafnode(H, b)
  BY InnerNode
<1>m. PICK lk \in Seq(Key), rk \in Seq(Key), lc \in Seq(NodeId), rc \in Seq(NodeId), u \in Key : \E M :
        /\ Joins(H[a].child \o H[b].child, lc, rc)
        /\ Joins(Append(H[a].keys, slotkey(H, p, s)) \o H[b].keys, Append(lk, u), rk)
        /\ Len(lc) = Len(lk) + 1 /\ Len(rc) = Len(rk) + 1
        /\ RewrittenTwo(H, M, a, b, lk, lc, rk, rc) /\ G = SetKey(M, p, s, u)
  BY DEF InnersCut
<1>2. PICK M :
        /\ Joins(H[a].child \o H[b].child, lc, rc)
        /\ Joins(Append(H[a].keys, slotkey(H, p, s)) \o H[b].keys, Append(lk, u), rk)
        /\ Len(lc) = Len(lk) + 1 /\ Len(rc) = Len(rk) + 1
        /\ RewrittenTwo(H, M, a, b, lk, lc, rk, rc) /\ G = SetKey(M, p, s, u)
  BY <1>m
<1>3. PICK lo, hi, up, x, ks, cs : Beside(H, p, a, b, k, lo, hi, up, x, ks, cs, s + 1)
  BY BesideIs
<1>4. PICK t : t = s + 1
  OBVIOUS
<1>5. /\ Beside(H, p, a, b, k, lo, hi, up, x, ks, cs, t) /\ a # b /\ a # p /\ b # p
      /\ RowOf(H, p, ks, cs, lo, up, lo[p], hi[p]) /\ t \in 1 .. Len(ks) /\ p \in NodeId
      /\ Keyed(H, {}, lo, hi, up) /\ lo \in [NodeId -> Int] /\ hi \in [NodeId -> Int] /\ up \in [NodeId -> Int]
  BY <1>3, <1>4 DEF Beside
<1>6. ks = H[p].keys /\ cs = H[p].child /\ ks \in Seq(Key) /\ ks[t] \in Key
  <2>1. ks = H[p].keys /\ cs = H[p].child /\ ks \in Seq(Key)
    BY <1>5 DEF RowOf
  <2> QED
    BY <1>5, <2>1
<1>7. PICK v \in Key : v = ks[t] /\ v = slotkey(H, p, s)
  BY <1>1, <1>4, <1>6 DEF slotkey, SlotKeys
<1>8. PICK xk \in Seq(Key), yk \in Seq(Key), xc \in Seq(NodeId), yc \in Seq(NodeId) :
        xk = H[a].keys /\ yk = H[b].keys /\ xc = H[a].child /\ yc = H[b].child
  BY <1>1
<1>9. PICK z, zc : z = Append(xk, v) \o yk /\ zc = xc \o yc
  OBVIOUS
<1>10. z \in Seq(Key) /\ Joins(z, Append(xk, v), yk)
  <2>1. Append(xk, v) \in Seq(Key)
    OBVIOUS
  <2> QED
    BY <1>9, <2>1, ConcatIs
<1>11. zc \in Seq(NodeId) /\ Joins(zc, xc, yc)
  BY <1>9, ConcatIs
<1>12. /\ Row(z, zc, lo, up, lo[a], hi[b])
       /\ \A i \in 1 .. Len(zc) : zc[i] \in Allocated(H) /\ zc[i] # a /\ zc[i] # b /\ zc[i] \in NodeId
  <2>1. Joins(zc, H[a].child, H[b].child)
    BY <1>8, <1>11
  <2>2. Joins(z, Append(H[a].keys, ks[t]), H[b].keys)
    BY <1>7, <1>8, <1>10
  <2>3. z \in Seq(Key) /\ zc \in Seq(NodeId) /\ Beside(H, p, a, b, k, lo, hi, up, x, ks, cs, t)
    BY <1>5, <1>10, <1>11
  <2>4. Row(z, zc, lo, up, lo[a], hi[b]) /\ KidsIn(H, a, b, zc)
    BY <2>1, <2>2, <2>3, InnersBeside
  <2>5. \A i \in 1 .. Len(zc) : zc[i] \in Allocated(H) /\ zc[i] # a /\ zc[i] # b /\ zc[i] \in NodeId
    BY <1>1, <2>4, KidsOfTwo
  <2> QED
    BY <2>4, <2>5
<1>13. PICK lp : lp = [lo EXCEPT ![b] = u]
  OBVIOUS
<1>14. PICK uq : uq = [up EXCEPT ![a] = u]
  OBVIOUS
<1>15. CutRow(lk, lc, rk, rc, lo, up, lp, uq, lo[a], u, hi[b])
  <2>1. Joins(zc, lc, rc) /\ Joins(z, Append(lk, u), rk) /\ Len(lc) = Len(lk) + 1 /\ Len(rc) = Len(rk) + 1
    BY <1>2, <1>7, <1>8, <1>9
  <2>2. \A i \in 1 .. Len(zc) : lp[zc[i]] = lo[zc[i]] /\ uq[zc[i]] = up[zc[i]]
    BY <1>5, <1>12, <1>13, <1>14
  <2>3. Spanned(zc, lo, up) /\ Bounds(NodeId, lo, up)
    BY <1>5, <1>12 DEF Spanned, Bounds, Keyed
  <2>4. lo[a] \in Int /\ hi[b] \in Int
    BY <1>1, <1>5
  <2> QED
    BY <1>10, <1>11, <1>12, <2>1, <2>2, <2>3, <2>4, RowCutBetween
<1>16. IsTwo(H, M, a, b, lk, lc, rk, rc)
  BY <1>2, <1>5, RewriteTwoIs
<1>17. /\ M \in Heaps /\ Allocated(M) = Allocated(H) /\ InnerNodes(M) = InnerNodes(H)
       /\ M[a].keys = lk /\ M[a].child = lc /\ M[b].keys = rk /\ M[b].child = rc
       /\ ~isleafnode(M, a) /\ ~isleafnode(M, b)
  BY <1>1, <1>16 DEF IsTwo, SameFrame
<1>18. \A n \in NodeId \ {a, b} : M[n] = H[n]
  BY <1>2, <1>5, TwoHold
<1>19. M[p] = H[p] /\ p \in InnerNodes(M) /\ slotuse(M, p) = slotuse(H, p)
  <2>1. M[p] = H[p]
    BY <1>5, <1>18
  <2> QED
    BY <1>17, <2>1 DEF slotuse, isleafnode
<1>20. /\ Allocated(G) = Allocated(M) /\ ~isleafnode(G, p)
       /\ G[p].keys = [M[p].keys EXCEPT ![s + 1] = u] /\ G[p].child = M[p].child
       /\ \A n \in NodeId \ {p} : G[n] = M[n]
  BY <1>2, <1>17, <1>19, KeyWritten
<1>21. G[p].keys = [ks EXCEPT ![t] = u] /\ G[p].child = cs
  BY <1>4, <1>6, <1>19, <1>20
<1>22. G[a] = M[a] /\ G[b] = M[b]
  BY <1>1, <1>5, <1>20
<1>23. NodeKeyed(G, lp, uq, a, lo[a], u) /\ NodeKeyed(G, lp, uq, b, u, hi[b]) /\ lo[a] <= u /\ u <= hi[b]
  <2>1. ~isleafnode(G, a) /\ ~isleafnode(G, b)
    BY <1>17, <1>22 DEF isleafnode
  <2> QED
    BY <1>15, <1>17, <1>22, <2>1 DEF NodeKeyed, CutRow
<1>24. \A n \in Allocated(H) \ {a, b, p} : SameContent(H, G, n)
  <2>1. TAKE n \in Allocated(H) \ {a, b, p}
  <2>2. n \in NodeId
    BY NodeIs
  <2>3. G[n] = H[n]
    BY <1>18, <1>20, <2>1, <2>2
  <2> QED
    BY <2>3 DEF SameContent
<1>25. u \in Int
  BY KeysAreInts
<1>26. Shifts(H, G, p, a, b, lo, hi, up, ks, cs, t, u, lp, uq)
  BY <1>13, <1>14, <1>17, <1>20, <1>21, <1>23, <1>24, <1>25 DEF Shifts
<1> QED
  BY <1>5, <1>26, ShiftedTwo

-----------------------------------------------------------------------------
(* The node a merge has emptied goes                                       *)

\* What is known of m, and of h behind it, which m holds all pairs of.
Absorbed(H, p, s, m, h, lo, hi, up) ==
  /\ m = childid(H, p, s - 1) /\ h = childid(H, p, s) /\ p # h
  /\ Keyed(H, {h}, lo, hi, up) /\ up[h] = hi[h]
  /\ s < slotuse(H, p) => hi[m] = hi[h]
  /\ slotuse(H, m) >= 1

\* The row of p, and the places of m and h.
AbsorbedRow(H, p, s, m, h, lo, hi, up, ks, cs) ==
  /\ RowOf(H, p, ks, cs, lo, up, lo[p], hi[p])
  /\ s \in 1 .. Len(ks) /\ s \in 1 .. Len(cs) /\ s + 1 \in 1 .. Len(cs)
  /\ m = cs[s] /\ h = cs[s + 1] /\ m # h /\ m # p
  /\ lo[m] <= hi[m] /\ lo[p] <= hi[m]

LEMMA AbsorbedRowIs ==
  ASSUME NEW H \in Heaps, NEW root, NEW R, Tree(H, root, {}, R), NEW p \in InnerNodes(H),
         NEW s \in 1 .. slotuse(H, p), NEW m, NEW h, NEW lo, NEW hi, NEW up,
         Absorbed(H, p, s, m, h, lo, hi, up)
  PROVE  \E ks, cs : AbsorbedRow(H, p, s, m, h, lo, hi, up, ks, cs)
<1>1. /\ m = childid(H, p, s - 1) /\ h = childid(H, p, s) /\ p # h
      /\ Keyed(H, {h}, lo, hi, up) /\ slotuse(H, m) >= 1
  BY DEF Absorbed
<1>2. p \in NodeId /\ p \in Allocated(H) /\ slotuse(H, p) \in Nat
  BY InnerNode
<1>3. /\ lo \in [NodeId -> Int] /\ hi \in [NodeId -> Int] /\ up \in [NodeId -> Int]
      /\ \A n \in Allocated(H) : n # h => NodeKeyed(H, lo, up, n, lo[n], hi[n])
      /\ \A n \in Allocated(H) : lo[n] <= up[n]
  BY <1>1 DEF Keyed
<1>4. PICK ks, cs : RowOf(H, p, ks, cs, lo, up, lo[p], hi[p])
  BY <1>1, <1>2, <1>3, RowOfNode
<1>5. /\ ks = H[p].keys /\ cs = H[p].child /\ Kids(H, p) = cs
      /\ ks \in Seq(Key) /\ cs \in Seq(NodeId) /\ Len(ks) = slotuse(H, p) /\ Len(ks) \in Nat
      /\ Len(cs) = Len(ks) + 1
      /\ Row(ks, cs, lo, up, lo[p], hi[p])
      /\ \A i \in 1 .. Len(cs) : cs[i] \in Allocated(H) /\ cs[i] \in NodeId /\ cs[i] # p
      /\ \A i, j \in 1 .. Len(cs) : i # j => cs[i] # cs[j]
  BY <1>4 DEF RowOf
<1>6. s \in 1 .. Len(ks) /\ s \in 1 .. Len(cs) /\ s + 1 \in 1 .. Len(cs) /\ s # s + 1 /\ (s - 1) + 1 = s
  BY <1>2, <1>5
<1>7. m = cs[s] /\ h = cs[s + 1]
  BY <1>1, <1>5, <1>6 DEF childid
<1>8. m # h /\ m # p /\ m \in Allocated(H) /\ m \in NodeId
  BY <1>5, <1>6, <1>7
<1>9. lo[m] \in Int /\ hi[m] \in Int /\ lo[p] \in Int
  BY <1>2, <1>3, <1>8
<1>10. lo[m] <= hi[m]
  <2>1. NodeKeyed(H, lo, up, m, lo[m], hi[m])
    BY <1>3, <1>8
  <2> QED
    BY <1>1, <1>3, <1>8, <1>9, <2>1, NodeSpan
<1>11. lo[p] <= lo[m]
  <2>1. Bounds(NodeId, lo, up)
    BY <1>3 DEF Bounds
  <2>2. Spanned(cs, lo, up)
    BY <1>3, <1>5 DEF Spanned
  <2>3. \A i \in 1 .. Len(cs) : lo[p] <= lo[cs[i]]
    BY <1>5, <1>9, <2>1, <2>2, RowGrows
  <2> QED
    BY <1>6, <1>7, <2>3
<1>12. lo[p] <= hi[m]
  BY <1>9, <1>10, <1>11
<1> QED
  BY <1>4, <1>6, <1>7, <1>8, <1>10, <1>12 DEF AbsorbedRow

\* G is U without the child h of p, and the key before it.
PruneOf(U, G, p, s, h) ==
  \E M : /\ Rewritten(U, M, p, RemoveAt(U[p].keys, s), RemoveAt(U[p].child, s + 1))
         /\ G = [M EXCEPT ![h] = NULL]

\* ... and the bounds after it.
Pruning(H, G, p, s, m, h, hi, up, hp, uq) ==
  /\ PruneOf(H, G, p, s, h)
  /\ hp = [hi EXCEPT ![p] = IF s < slotuse(H, p) THEN hi[p] ELSE hi[m]]
  /\ uq = [up EXCEPT ![m] = hi[m]]

LEMMA PruneCore ==
  ASSUME NEW H \in Heaps, NEW root, NEW R, Tree(H, root, {}, R), NEW p \in InnerNodes(H),
         NEW s \in 1 .. slotuse(H, p), NEW m, NEW h, NEW lo, NEW hi, NEW up,
         Absorbed(H, p, s, m, h, lo, hi, up),
         NEW G, NEW hp, NEW uq, Pruning(H, G, p, s, m, h, hi, up, hp, uq)
  PROVE  Keyed(G, {}, lo, hp, uq)
<1>a. PICK kt, ct : kt = RemoveAt(H[p].keys, s) /\ ct = RemoveAt(H[p].child, s + 1)
  OBVIOUS
<1>b. PICK M : Rewritten(H, M, p, kt, ct) /\ G = [M EXCEPT ![h] = NULL]
  BY <1>a DEF Pruning, PruneOf
<1>c. PICK w : w = (IF s < slotuse(H, p) THEN hi[p] ELSE hi[m])
  OBVIOUS
<1>d. hp = [hi EXCEPT ![p] = w] /\ uq = [up EXCEPT ![m] = hi[m]]
  BY <1>c DEF Pruning
<1> USE <1>a, <1>b, <1>c, <1>d
<1>1. /\ Keyed(H, {h}, lo, hi, up) /\ up[h] = hi[h] /\ p # h
      /\ s < slotuse(H, p) => hi[m] = hi[h]
  BY DEF Absorbed
<1>2. PICK ks, cs : AbsorbedRow(H, p, s, m, h, lo, hi, up, ks, cs)
  BY AbsorbedRowIs
<1>3. /\ RowOf(H, p, ks, cs, lo, up, lo[p], hi[p])
      /\ s \in 1 .. Len(ks) /\ s \in 1 .. Len(cs) /\ s + 1 \in 1 .. Len(cs)
      /\ m = cs[s] /\ h = cs[s + 1] /\ m # h /\ m # p
      /\ lo[m] <= hi[m]
  BY <1>2 DEF AbsorbedRow
<1>4. /\ ks = H[p].keys /\ cs = H[p].child /\ Kids(H, p) = cs
      /\ ks \in Seq(Key) /\ cs \in Seq(NodeId) /\ Len(ks) = slotuse(H, p) /\ Len(ks) \in Nat
      /\ Len(cs) = Len(ks) + 1
      /\ Row(ks, cs, lo, up, lo[p], hi[p])
      /\ \A i \in 1 .. Len(cs) : cs[i] \in Allocated(H) /\ cs[i] \in NodeId /\ cs[i] # p
      /\ \A i, j \in 1 .. Len(cs) : i # j => cs[i] # cs[j]
  BY <1>3 DEF RowOf
<1>5. /\ p \in NodeId /\ p \in Allocated(H) /\ ~isleafnode(H, p) /\ DOMAIN H = NodeId /\ H[p] \in Inner
  BY InnerNode DEF Heaps
<1>6. lo \in [NodeId -> Int] /\ hi \in [NodeId -> Int] /\ up \in [NodeId -> Int]
  BY <1>1 DEF Keyed
<1>7. m \in NodeId /\ h \in NodeId /\ m \in Allocated(H) /\ h \in Allocated(H)
  BY <1>3, <1>4
<1>8. w \in Int
  BY <1>5, <1>6, <1>7, <1>c
<1>9. hp \in [NodeId -> Int] /\ hp[p] = w /\ \A n \in NodeId : n # p => hp[n] = hi[n]
  BY <1>5, <1>6, <1>8, BoundSet
<1>10. uq \in [NodeId -> Int] /\ uq[m] = hi[m] /\ \A n \in NodeId : n # m => uq[n] = up[n]
  <2>1. hi[m] \in Int
    BY <1>6, <1>7
  <2> QED
    BY <1>6, <1>7, <2>1, BoundSet
<1>11. kt \in Seq(Key) /\ Inserted(kt, ks, s, ks[s]) /\ Len(kt) = Len(ks) - 1
  <2>1. kt \in Seq(Key) /\ Inserted(kt, ks, s, ks[s])
    BY <1>3, <1>4, RemoveAtIs
  <2>2. Len(ks) = Len(kt) + 1 /\ Len(kt) \in Nat
    BY <2>1 DEF Inserted
  <2> QED
    BY <2>1, <2>2
<1>12. PICK e : e = s + 1
  OBVIOUS
<1>13. ct \in Seq(NodeId) /\ Inserted(ct, cs, e, h) /\ Len(ct) = Len(cs) - 1 /\ \A i \in 1 .. s : ct[i] = cs[i]
  <2>1. e \in 1 .. Len(cs) /\ ct = RemoveAt(cs, e) /\ h = cs[e]
    BY <1>3, <1>4, <1>12
  <2>2. ct \in Seq(NodeId) /\ Inserted(ct, cs, e, h)
    BY <1>4, <2>1, RemoveAtIs
  <2>3. Len(cs) = Len(ct) + 1 /\ Len(ct) \in Nat /\ \A j \in 1 .. e - 1 : cs[j] = ct[j]
    BY <2>2 DEF Inserted
  <2>4. s = e - 1
    BY <1>12
  <2> QED
    BY <2>2, <2>3, <2>4
<1>14. PICK u1 : u1 = [up EXCEPT ![m] = up[h]]
  OBVIOUS
<1>15. u1 \in [NodeId -> Int] /\ u1[m] = up[h] /\ \A n \in NodeId : n # m => u1[n] = up[n]
  <2>1. up[h] \in Int
    BY <1>6, <1>7
  <2> QED
    BY <1>6, <1>7, <1>14, <2>1, BoundSet
<1>16. Row(kt, ct, lo, u1, lo[p], hi[p])
  <2>1. \A i \in 1 .. Len(cs) : i # s => u1[cs[i]] = up[cs[i]]
    BY <1>3, <1>4, <1>15
  <2>2. PruneBounds(cs, s, h, up, u1)
    BY <1>3, <1>15, <2>1 DEF PruneBounds
  <2>3. PruneBounds(ct, s, h, up, u1)
    <3>1. ASSUME NEW i \in 1 .. Len(ct), i # s
          PROVE  u1[ct[i]] = up[ct[i]]
      <4>1. ct[i] = IF i <= s THEN cs[i] ELSE cs[i + 1]
        <5>1. CASE i <= s
          BY <1>13, <5>1
        <5>2. CASE i > s
          <6>1. i \in e .. Len(ct)
            BY <1>12, <5>2
          <6>2. cs[i + 1] = ct[i]
            BY <1>13, <6>1 DEF Inserted
          <6> QED
            BY <5>2, <6>2
        <5> QED
          BY <5>1, <5>2
      <4>2. (IF i <= s THEN i ELSE i + 1) \in 1 .. Len(cs) /\ (IF i <= s THEN i ELSE i + 1) # s
        BY <1>4, <1>13, <3>1
      <4>3. PICK j \in 1 .. Len(cs) : ct[i] = cs[j] /\ j # s
        BY <4>1, <4>2
      <4> QED
        BY <2>1, <4>3
    <3>2. u1[ct[s]] = up[h]
      <4>1. s \in 1 .. s
        BY <1>3
      <4>2. ct[s] = m
        BY <1>3, <1>13, <4>1
      <4> QED
        BY <1>15, <4>2
    <3> QED
      BY <3>1, <3>2 DEF PruneBounds
  <2> QED
    BY <1>3, <1>4, <1>11, <1>12, <1>13, <2>2, <2>3, RowPrune
<1>17. Row(kt, ct, lo, uq, lo[p], w)
  <2>1. CASE s < slotuse(H, p)
    <3>1. w = hi[p] /\ hi[m] = up[h]
      BY <1>1, <2>1
    <3>2. uq = u1
      BY <1>14, <3>1
    <3> QED
      BY <1>16, <3>1, <3>2
  <2>2. CASE ~(s < slotuse(H, p))
    <3>1. w = hi[m] /\ s = Len(ct)
      BY <1>3, <1>4, <1>13, <2>2
    <3>2. ASSUME NEW i \in 1 .. Len(ct), i # Len(ct)
          PROVE  uq[ct[i]] = u1[ct[i]]
      <4>1. i \in 1 .. s /\ i \in 1 .. Len(cs) /\ i # s
        BY <1>4, <1>13, <3>1, <3>2
      <4>2. ct[i] = cs[i] /\ cs[i] # cs[s] /\ cs[i] \in NodeId
        BY <1>3, <1>4, <1>13, <4>1
      <4> QED
        BY <1>3, <1>10, <1>15, <4>2
    <3>3. ct[Len(ct)] = m
      BY <1>3, <1>13, <3>1
    <3>4. lo[p] <= lo[ct[1]]
      BY <1>16 DEF Row
    <3>5. EndBounds(ct, lo[p], w, lo, u1, lo, uq)
      BY <1>10, <3>1, <3>2, <3>3, <3>4 DEF EndBounds
    <3>6. Len(kt) \in Nat
      BY <1>11
    <3> QED
      BY <1>16, <3>5, <3>6, RowSame
  <2> QED
    BY <2>1, <2>2
<1>18. /\ G[p].keys = kt /\ G[p].child = ct /\ ~isleafnode(G, p)
       /\ \A n \in NodeId \ {p, h} : G[n] = H[n]
       /\ Allocated(G) \subseteq Allocated(H) \ {h}
  <2>1. M[p] = [H[p] EXCEPT !.keys = kt, !.child = ct] /\ DOMAIN M = NodeId /\ \A n \in NodeId \ {p} : M[n] = H[n]
    BY <1>5 DEF Rewritten
  <2>2. M[p].keys = kt /\ M[p].child = ct /\ M[p].level = H[p].level
    BY <1>5, <2>1 DEF Inner
  <2>3. G[p] = M[p] /\ G[h] = NULL /\ \A n \in NodeId \ {p, h} : G[n] = H[n]
    BY <1>1, <1>5, <1>7, <2>1
  <2>4. Allocated(G) \subseteq Allocated(H) \ {h}
    BY <1>5, <2>3 DEF Allocated
  <2> QED
    BY <1>5, <2>2, <2>3, <2>4 DEF isleafnode
<1>19. NodeKeyed(G, lo, uq, p, lo[p], w)
  BY <1>17, <1>18, RowNode
<1>20. Moved(H, root, {}, {h}, lo, hi, up, G, {}, {p}, {m}, lo, hp, uq)
  <2>1. Hung(H, root, {}, {p}, {m})
    BY <1>3, <1>4, <1>5 DEF Hung
  <2>2. \A n \in Allocated(G) \ ({} \cup {p}) :
          n \notin {h} /\ SameContent(H, G, n) /\ lo[n] = lo[n] /\ hp[n] = hi[n]
    <3>1. TAKE n \in Allocated(G) \ ({} \cup {p})
    <3>2. n \in Allocated(H) /\ n # h /\ n \in NodeId /\ n # p
      BY <1>18 DEF Allocated
    <3>3. G[n] = H[n] /\ hp[n] = hi[n]
      BY <1>9, <1>18, <3>2
    <3> QED
      BY <3>2, <3>3 DEF SameContent
  <2>3. \A n \in Allocated(H) \ {m} : lo[n] = lo[n] /\ uq[n] = up[n]
    BY <1>10 DEF Allocated
  <2>4. \A n \in Allocated(G) : n \in {m} \/ n \notin Allocated(H) => lo[n] <= uq[n]
    BY <1>3, <1>10, <1>18
  <2>5. \A n \in Allocated(G) : n \in {p} /\ n \notin {} => NodeKeyed(G, lo, uq, n, lo[n], hp[n])
    BY <1>9, <1>19
  <2> QED
    BY <1>1, <1>6, <1>9, <1>10, <2>1, <2>2, <2>3, <2>4, <2>5 DEF Moved
<1> QED
  BY <1>20, MovedKeyed

\* h was merged into m, its neighbour below p.
Hollowed(J, p, s, m, h, k) ==
  /\ s \in 1 .. slotuse(J, p) /\ m = childid(J, p, s - 1) /\ h = childid(J, p, s)
  /\ p # h /\ m # h /\ m # p /\ m \in NodeId /\ h \in NodeId /\ slotuse(J, m) >= 1
  /\ MergedOrder(J, m, h, k)
  /\ k # NULL => k \in Key /\ s = slotuse(J, p)

\* Its last child is that of p.
LEMMA AbsorbedLast ==
  ASSUME NEW H, NEW p, NEW s, NEW m, NEW h, NEW lo, NEW hi, NEW up, NEW ks, NEW cs,
         Absorbed(H, p, s, m, h, lo, hi, up), AbsorbedRow(H, p, s, m, h, lo, hi, up, ks, cs),
         s = slotuse(H, p)
  PROVE  hi[p] = hi[h]
<1>1. RowOf(H, p, ks, cs, lo, up, lo[p], hi[p]) /\ h = cs[s + 1]
  BY DEF AbsorbedRow
<1>2. Len(ks) = slotuse(H, p) /\ Row(ks, cs, lo, up, lo[p], hi[p])
  BY <1>1 DEF RowOf
<1>3. hi[p] = up[cs[Len(cs)]] /\ Len(cs) = Len(ks) + 1
  BY <1>2 DEF Row
<1>4. up[h] = hi[h]
  BY DEF Absorbed
<1> QED
  BY <1>1, <1>2, <1>3, <1>4

LEMMA PruneQuiet ==
  ASSUME NEW J \in Heaps, NEW root, NEW R, Tree(J, root, {}, R), NEW p \in InnerNodes(J),
         NEW s, NEW m, NEW h, Hollowed(J, p, s, m, h, NULL), NEW G, PruneOf(J, G, p, s, h)
  PROVE  InOrder(G)
<1>1. /\ s \in 1 .. slotuse(J, p) /\ m = childid(J, p, s - 1) /\ h = childid(J, p, s)
      /\ p # h /\ m # h /\ m # p /\ m \in NodeId /\ h \in NodeId /\ slotuse(J, m) >= 1
      /\ MergedOrder(J, m, h, NULL)
  BY DEF Hollowed
<1>2. PICK lo, hi : \E y \in Int : Keyed(J, {h}, lo, hi, [hi EXCEPT ![m] = y]) /\ hi[h] = hi[m]
  BY <1>1 DEF MergedOrder
<1>3. PICK y \in Int : Keyed(J, {h}, lo, hi, [hi EXCEPT ![m] = y]) /\ hi[h] = hi[m]
  BY <1>2
<1>4. PICK up : up = [hi EXCEPT ![m] = y]
  OBVIOUS
<1>5. lo \in [NodeId -> Int] /\ hi \in [NodeId -> Int] /\ p \in NodeId /\ slotuse(J, p) \in Nat
  BY <1>3, InnerNode DEF Keyed
<1>6. up \in [NodeId -> Int] /\ \A n \in NodeId : n # m => up[n] = hi[n]
  BY <1>1, <1>4, <1>5, BoundSet
<1>7. Absorbed(J, p, s, m, h, lo, hi, up)
  BY <1>1, <1>3, <1>4, <1>6 DEF Absorbed
<1>8. PICK ks, cs : AbsorbedRow(J, p, s, m, h, lo, hi, up, ks, cs)
  BY <1>1, <1>7, AbsorbedRowIs
<1>10. PICK w : w = (IF s < slotuse(J, p) THEN hi[p] ELSE hi[m])
  OBVIOUS
<1>11. PICK hp, uq : hp = [hi EXCEPT ![p] = w] /\ uq = [up EXCEPT ![m] = hi[m]]
  OBVIOUS
<1>111. Pruning(J, G, p, s, m, h, hi, up, hp, uq)
  BY <1>10, <1>11 DEF Pruning
<1>12. Keyed(G, {}, lo, hp, uq)
  BY <1>1, <1>7, <1>111, PruneCore
<1>13. w = hi[p]
  <2>1. CASE s < slotuse(J, p)
    BY <1>10, <2>1
  <2>2. CASE ~(s < slotuse(J, p))
    <3>1. s = slotuse(J, p)
      BY <1>1, <1>5, <2>2
    <3> QED
      BY <1>3, <1>7, <1>8, <1>10, <2>2, <3>1, AbsorbedLast
  <2> QED
    BY <2>1, <2>2
<1>14. hp = hi
  BY <1>5, <1>11, <1>13
<1>15. uq = hi
  BY <1>1, <1>4, <1>5, <1>11
<1> QED
  BY <1>12, <1>14, <1>15 DEF InOrder

LEMMA PruneReports ==
  ASSUME NEW J \in Heaps, NEW root, NEW R, Tree(J, root, {}, R), NEW p \in InnerNodes(J),
         NEW s, NEW m, NEW h, NEW k \in Key, Hollowed(J, p, s, m, h, k), NEW G, PruneOf(J, G, p, s, h)
  PROVE  Opens(G, p, k, FALSE)
<1>0. k # NULL
  BY NULLAssumption
<1>1. /\ s \in 1 .. slotuse(J, p) /\ m = childid(J, p, s - 1) /\ h = childid(J, p, s)
      /\ p # h /\ m # h /\ m # p /\ m \in NodeId /\ h \in NodeId /\ slotuse(J, m) >= 1
      /\ MergedOrder(J, m, h, k) /\ s = slotuse(J, p)
  BY <1>0 DEF Hollowed
<1>2. PICK lo, hi : \E y \in Int : /\ Keyed(J, {h}, lo, hi, [hi EXCEPT ![m] = y])
                                   /\ hi[m] = k /\ k <= hi[h]
  BY <1>0, <1>1 DEF MergedOrder
<1>3. PICK y \in Int : Keyed(J, {h}, lo, hi, [hi EXCEPT ![m] = y]) /\ hi[m] = k /\ k <= hi[h]
  BY <1>2
<1>4. PICK up : up = [hi EXCEPT ![m] = y]
  OBVIOUS
<1>5. lo \in [NodeId -> Int] /\ hi \in [NodeId -> Int] /\ p \in NodeId /\ slotuse(J, p) \in Nat
  BY <1>3, InnerNode DEF Keyed
<1>6. up \in [NodeId -> Int] /\ \A n \in NodeId : n # m => up[n] = hi[n]
  BY <1>1, <1>4, <1>5, BoundSet
<1>61. ~(s < slotuse(J, p))
  BY <1>1, <1>5
<1>7. Absorbed(J, p, s, m, h, lo, hi, up)
  BY <1>1, <1>3, <1>4, <1>6, <1>61 DEF Absorbed
<1>8. PICK ks, cs : AbsorbedRow(J, p, s, m, h, lo, hi, up, ks, cs)
  BY <1>1, <1>7, AbsorbedRowIs
<1>10. k = (IF s < slotuse(J, p) THEN hi[p] ELSE hi[m])
  BY <1>3, <1>61
<1>11. PICK hp, uq : hp = [hi EXCEPT ![p] = k] /\ uq = [up EXCEPT ![m] = hi[m]]
  OBVIOUS
<1>111. Pruning(J, G, p, s, m, h, hi, up, hp, uq)
  BY <1>10, <1>11 DEF Pruning
<1>12. Keyed(G, {}, lo, hp, uq)
  BY <1>1, <1>7, <1>111, PruneCore
<1>13. hi[p] = hi[h]
  BY <1>1, <1>7, <1>8, AbsorbedLast
<1>14. PICK x : x = hi[p]
  OBVIOUS
<1>15. uq = hi /\ x \in Int /\ k \in Int
  BY <1>1, <1>4, <1>5, <1>11, <1>14, KeysAreInts
<1>16. [hp EXCEPT ![p] = x] = hi /\ hp[p] = k
  BY <1>5, <1>11, <1>14, <1>15
<1>17. /\ Keyed(G, {}, lo, hp, [hp EXCEPT ![p] = x])
       /\ hp[p] = k /\ k <= x /\ ~FALSE
  BY <1>3, <1>12, <1>13, <1>14, <1>15, <1>16
<1> QED
  BY <1>0, <1>15, <1>17 DEF Opens

\* The parent P of p holds the key; it is updated first.
LEMMA PruneWrites ==
  ASSUME NEW J \in Heaps, NEW root, NEW R, Tree(J, root, {}, R), NEW p \in InnerNodes(J),
         NEW s, NEW m, NEW h, NEW k \in Key, Hollowed(J, p, s, m, h, k),
         NEW P \in InnerNodes(J), P # h, NEW t \in 0 .. slotuse(J, P), t < slotuse(J, P),
         p = childid(J, P, t), root = NULL \/ root \in Allocated(J),
         NEW U, U = SetKey(J, P, t, k), NEW G, PruneOf(U, G, p, s, h)
  PROVE  InOrder(G)
<1>0. k # NULL
  BY NULLAssumption
<1>1. /\ s \in 1 .. slotuse(J, p) /\ m = childid(J, p, s - 1) /\ h = childid(J, p, s)
      /\ p # h /\ m # h /\ m # p /\ m \in NodeId /\ h \in NodeId /\ slotuse(J, m) >= 1
      /\ MergedOrder(J, m, h, k) /\ s = slotuse(J, p)
  BY <1>0 DEF Hollowed
<1>2. PICK lo, hi : \E y \in Int : /\ Keyed(J, {h}, lo, hi, [hi EXCEPT ![m] = y])
                                   /\ hi[m] = k /\ k <= hi[h]
  BY <1>0, <1>1 DEF MergedOrder
<1>3. PICK y \in Int : Keyed(J, {h}, lo, hi, [hi EXCEPT ![m] = y]) /\ hi[m] = k /\ k <= hi[h]
  BY <1>2
<1>4. PICK up : up = [hi EXCEPT ![m] = y]
  OBVIOUS
<1>5. lo \in [NodeId -> Int] /\ hi \in [NodeId -> Int] /\ p \in NodeId /\ slotuse(J, p) \in Nat
  BY <1>3, InnerNode DEF Keyed
<1>6. up \in [NodeId -> Int] /\ \A n \in NodeId : n # m => up[n] = hi[n]
  BY <1>1, <1>4, <1>5, BoundSet
<1>61. ~(s < slotuse(J, p))
  BY <1>1, <1>5
<1>7. Absorbed(J, p, s, m, h, lo, hi, up)
  BY <1>1, <1>3, <1>4, <1>6, <1>61 DEF Absorbed
<1>8. PICK ks, cs : AbsorbedRow(J, p, s, m, h, lo, hi, up, ks, cs)
  BY <1>1, <1>7, AbsorbedRowIs
<1>9. hi[p] = hi[h] /\ lo[p] <= hi[m] /\ up[p] = hi[p]
  <2>1. hi[p] = hi[h]
    BY <1>1, <1>7, <1>8, AbsorbedLast
  <2>2. lo[p] <= hi[m]
    BY <1>8 DEF AbsorbedRow
  <2> QED
    BY <1>1, <1>5, <1>6, <2>1, <2>2
<1>10. k <= up[p] /\ lo[p] <= k /\ k \in Int
  BY <1>3, <1>9, KeysAreInts
<1>11. PICK u2 : u2 = [up EXCEPT ![p] = k]
  OBVIOUS
<1>12. Keyed(U, {h}, lo, hi, u2)
  <2>1. P \notin {h} /\ Keyed(J, {h}, lo, hi, up)
    BY <1>3, <1>4
  <2> QED
    BY <1>10, <1>11, <2>1, SetKeyed
<1>13. U \in Heaps /\ Rekeyed(J, U) /\ SameNodes(J, U)
  BY KeyWritten DEF Rekeyed
<1>14. /\ p \in InnerNodes(U) /\ slotuse(U, p) = slotuse(J, p) /\ \A i : childid(U, p, i) = childid(J, p, i)
  BY <1>13, RekeyedNode
<1>15. Tree(U, root, {}, R)
  BY <1>13, SameTree
<1>16. slotuse(U, m) = slotuse(J, m)
  <2>1. m \in Allocated(J)
    <3>1. RowOf(J, p, ks, cs, lo, up, lo[p], hi[p]) /\ m = cs[s] /\ s \in 1 .. Len(cs)
      BY <1>8 DEF AbsorbedRow
    <3> QED
      BY <3>1 DEF RowOf
  <2> QED
    BY <1>13, <2>1 DEF Rekeyed, SameSizes
<1>17. u2 \in [NodeId -> Int] /\ u2[p] = k /\ \A n \in NodeId : n # p => u2[n] = up[n]
  BY <1>5, <1>6, <1>10, <1>11, BoundSet
<1>18. Absorbed(U, p, s, m, h, lo, hi, u2)
  BY <1>1, <1>6, <1>12, <1>14, <1>16, <1>17, <1>61 DEF Absorbed
<1>20. k = (IF s < slotuse(U, p) THEN hi[p] ELSE hi[m])
  BY <1>3, <1>14, <1>61
<1>21. PICK hp, uq : hp = [hi EXCEPT ![p] = k] /\ uq = [u2 EXCEPT ![m] = hi[m]]
  OBVIOUS
<1>211. Pruning(U, G, p, s, m, h, hi, u2, hp, uq)
  BY <1>20, <1>21 DEF Pruning
<1>22. Keyed(G, {}, lo, hp, uq)
  <2>1. s \in 1 .. slotuse(U, p)
    BY <1>1, <1>14
  <2> QED
    BY <1>13, <1>14, <1>15, <1>18, <1>211, <2>1, PruneCore
<1>23. uq = hp
  BY <1>1, <1>4, <1>5, <1>10, <1>11, <1>21
<1> QED
  BY <1>22, <1>23 DEF InOrder

LEMMA PruneKeyed ==
  ASSUME NEW J \in Heaps, NEW root, NEW R, Tree(J, root, {}, R), NEW p \in InnerNodes(J),
         NEW s, NEW m, NEW h, NEW k, Hollowed(J, p, s, m, h, k), root = NULL \/ root \in Allocated(J),
         NEW own \in BOOLEAN, NEW P, NEW t,
         own => /\ P \in InnerNodes(J) /\ P # h /\ t \in 0 .. slotuse(J, P) /\ t < slotuse(J, P)
                /\ p = childid(J, P, t),
         NEW U, U = IF k # NULL /\ own THEN SetKey(J, P, t, k) ELSE J, NEW G, PruneOf(U, G, p, s, h)
  PROVE  Opens(G, p, IF own THEN NULL ELSE k, own)
<1>0. p \in NodeId
  BY InnerNode
<1>1. CASE k = NULL
  <2>1. InOrder(G)
    BY <1>1, PruneQuiet
  <2> QED
    BY <1>0, <1>1, <2>1, OrderOpens
<1>2. CASE k # NULL /\ own
  <2>1. k \in Key
    BY <1>2 DEF Hollowed
  <2>2. InOrder(G)
    BY <1>2, <2>1, PruneWrites
  <2> QED
    BY <1>0, <1>2, <2>2, OrderOpens
<1>3. CASE k # NULL /\ ~own
  <2>1. k \in Key
    BY <1>3 DEF Hollowed
  <2>2. Opens(G, p, k, FALSE)
    BY <1>3, <2>1, PruneReports
  <2>3. own = FALSE
    BY <1>3
  <2> QED
    BY <1>3, <2>2, <2>3
<1> QED
  BY <1>1, <1>2, <1>3

\* The key of a merged leaf is read from it again.
LEMMA LastKeySet ==
  ASSUME NEW G \in Heaps, NEW root, NEW R, Tree(G, root, {}, R), NEW p \in InnerNodes(G),
         NEW s \in 0 .. slotuse(G, p), NEW c \in Leaves(G), c = childid(G, p, s), G[c].slots # <<>>,
         NEW k, NEW own, Opens(G, p, k, own), NEW M, M = SetKey(G, p, s, LastKey(G, c))
  PROVE  Opens(M, p, k, own)
<1>1. CASE ~(s < slotuse(G, p))
  BY <1>1 DEF SetKey
<1>2. CASE s < slotuse(G, p)
  <2>1. PICK lo, hi : \E x \in Int :
          /\ Keyed(G, {}, lo, hi, [hi EXCEPT ![p] = x])
          /\ IF k = NULL THEN x = hi[p] ELSE hi[p] = k /\ k <= x /\ ~own
    BY DEF Opens
  <2>2. PICK x \in Int :
          /\ Keyed(G, {}, lo, hi, [hi EXCEPT ![p] = x])
          /\ IF k = NULL THEN x = hi[p] ELSE hi[p] = k /\ k <= x /\ ~own
    BY <2>1
  <2>3. PICK up : up = [hi EXCEPT ![p] = x]
    OBVIOUS
  <2>4. /\ lo \in [NodeId -> Int] /\ hi \in [NodeId -> Int] /\ up \in [NodeId -> Int]
        /\ \A n \in Allocated(G) : NodeKeyed(G, lo, up, n, lo[n], hi[n]) /\ lo[n] <= up[n]
    BY <2>2, <2>3 DEF Keyed
  <2>5. c \in Allocated(G) /\ isleafnode(G, c) /\ c \in NodeId /\ c # p
    <3>1. ~isleafnode(G, p)
      BY InnerNode
    <3>2. c \in Allocated(G) /\ isleafnode(G, c) /\ c \in NodeId
      BY LeafNode
    <3> QED
      BY <3>1, <3>2
  <2>6. up[c] = hi[c]
    BY <2>3, <2>4, <2>5
  <2>7. Run(G[c].slots, lo[c], hi[c])
    BY <2>4, <2>5 DEF NodeKeyed
  <2>8. hi[c] = G[c].slots[Len(G[c].slots)].key
    BY <2>7 DEF Run
  <2>9. LastKey(G, c) = hi[c] /\ LastKey(G, c) \in Key
    BY <2>8, LeafLastKey
  <2>10. hi[c] <= up[c] /\ lo[c] <= hi[c] /\ hi[c] \in Key
    BY <2>4, <2>5, <2>6, <2>9
  <2>11. M = SetKey(G, p, s, hi[c])
    BY <2>9
  <2>12. Keyed(G, {}, lo, hi, up) /\ p \notin {}
    BY <2>2, <2>3
  <2>13. Keyed(M, {}, lo, hi, [up EXCEPT ![c] = hi[c]])
    BY <1>2, <2>10, <2>11, <2>12, SetKeyed
  <2>14. [up EXCEPT ![c] = hi[c]] = up
    BY <2>4, <2>5, <2>6
  <2>15. Keyed(M, {}, lo, hi, [hi EXCEPT ![p] = x])
    BY <2>3, <2>13, <2>14
  <2> QED
    BY <2>2, <2>15 DEF Opens
<1> QED
  BY <1>1, <1>2

\* The root goes, and its only child stays in order.
LEMMA RootGoneKeyed ==
  ASSUME NEW H \in Heaps, NEW c \in NodeId, NEW R, Tree(H, c, {}, R), NEW k, NEW own,
         Opens(H, c, k, own), NEW G, G = [H EXCEPT ![c] = NULL]
  PROVE  InOrder(G)
<1>1. PICK lo, hi : \E x \in Int :
        /\ Keyed(H, {}, lo, hi, [hi EXCEPT ![c] = x])
        /\ IF k = NULL THEN x = hi[c] ELSE hi[c] = k /\ k <= x /\ ~own
  BY DEF Opens
<1>2. PICK x \in Int : Keyed(H, {}, lo, hi, [hi EXCEPT ![c] = x])
  BY <1>1
<1>3. PICK up : up = [hi EXCEPT ![c] = x]
  OBVIOUS
<1>4. lo \in [NodeId -> Int] /\ hi \in [NodeId -> Int] /\ DOMAIN H = NodeId
  BY <1>2 DEF Keyed, Heaps
<1>5. \A n \in NodeId : n # c => up[n] = hi[n]
  BY <1>3, <1>4
<1>6. G[c] = NULL /\ \A n \in NodeId : n # c => G[n] = H[n]
  BY <1>4
<1>7. Moved(H, c, {}, {}, lo, hi, up, G, {}, {}, {c}, lo, hi, hi)
  <2>1. Hung(H, c, {}, {}, {c})
    BY DEF Hung
  <2>2. \A n \in Allocated(G) \ ({} \cup {}) :
          n \notin {} /\ SameContent(H, G, n) /\ lo[n] = lo[n] /\ hi[n] = hi[n]
    <3>1. TAKE n \in Allocated(G) \ ({} \cup {})
    <3>2. n \in NodeId /\ n # c
      BY <1>6 DEF Allocated
    <3>3. G[n] = H[n] /\ n \in Allocated(H)
      BY <1>6, <3>2 DEF Allocated
    <3> QED
      BY <3>3 DEF SameContent
  <2>3. \A n \in Allocated(H) \ {c} : lo[n] = lo[n] /\ hi[n] = up[n]
    BY <1>5 DEF Allocated
  <2>4. \A n \in Allocated(G) : n \in {c} \/ n \notin Allocated(H) => lo[n] <= hi[n]
    BY <1>6 DEF Allocated
  <2>5. \A n \in Allocated(G) : n \in {} /\ n \notin {} => NodeKeyed(G, lo, hi, n, lo[n], hi[n])
    OBVIOUS
  <2> QED
    BY <1>2, <1>3, <1>4, <2>1, <2>2, <2>3, <2>4, <2>5 DEF Moved
<1>8. Keyed(G, {}, lo, hi, hi)
  BY <1>7, MovedKeyed
<1> QED
  BY <1>8 DEF InOrder

-----------------------------------------------------------------------------
(* An erase goes up                                                        *)

LEMMA FoundIsNot ==
  ASSUME NEW b \in BOOLEAN, NEW k \in Key \cup {NULL}
  PROVE  Found(b, k) # NULL
<1>1. Found(b, k) \in EraseResult
  BY DEF Found, EraseResult
<1> QED
  BY <1>1, NULLAssumption

-----------------------------------------------------------------------------
(* The keys stay in order: erase, on a leaf                                *)

\* Which parent owns the key matters only for a key.
LEMMA OpensNullOwn ==
  ASSUME NEW H, NEW c \in NodeId, NEW o1, NEW o2, Opens(H, c, NULL, o1)
  PROVE  Opens(H, c, NULL, o2)
<1>1. InOrder(H)
  BY OpensNothing
<1> QED
  BY <1>1, OrderOpens

LEMMA OpensOwned ==
  ASSUME NEW H, NEW c, NEW k, Opens(H, c, k, TRUE)
  PROVE  k = NULL
BY DEF Opens

\* The same key is open after a change.
LEMMA OpensOwn ==
  ASSUME NEW H, NEW G, NEW b, NEW c \in NodeId, NEW k, NEW own \in BOOLEAN,
         Opens(H, b, k, own), Opens(G, c, k, FALSE)
  PROVE  Opens(G, c, k, own)
<1>1. CASE own
  <2>1. k = NULL
    BY <1>1, OpensOwned
  <2> QED
    BY <2>1, OpensNullOwn
<1> QED
  BY <1>1

\* The pairs of two leaves, divided anew.
LeavesCut(H, G, a, b) ==
  \E l, r \in Seq(Pair) : /\ l # <<>> /\ r # <<>>
                          /\ Joins(H[a].slots \o H[b].slots, l, r) /\ RefilledTwo(H, G, a, b, l, r)

LEMMA CutLeft2 ==
  ASSUME MergedFits, NEW H \in Heaps, NodesHold(H, {}),
         NEW a \in Leaves(H), NEW b \in Leaves(H), a # b,
         slotuse(H, a) + 1 = mininnerslots, ~isfew(H, b), NEW G, G = shift_left_leaf(H, a, b)
  PROVE  LeavesCut(H, G, a, b)
<1>a. PICK n, u, v : n = ShiftNum(H, b, a) /\ u = slotuse(H, a) /\ v = slotuse(H, b)
  OBVIOUS
<1>b. PICK x, y : x = H[a].slots /\ y = H[b].slots
  OBVIOUS
<1>c. PICK y1, s, t : y1 = SubSeq(y, 1, n) /\ s = x \o y1 /\ t = SubSeq(y, n + 1, Len(y))
  OBVIOUS
<1>1. /\ a \in NodeId /\ b \in NodeId /\ DOMAIN H = NodeId /\ x \in Seq(Pair) /\ y \in Seq(Pair)
      /\ u = Len(x) /\ v = Len(y) /\ u \in Nat /\ v \in Nat /\ isleafnode(H, b) /\ b \in Allocated(H)
      /\ H[a] = [level |-> 0, slots |-> x, prev |-> H[a].prev, next |-> H[a].next]
      /\ H[b] = [level |-> 0, slots |-> y, prev |-> H[b].prev, next |-> H[b].next]
  BY <1>a, <1>b, LeafNode DEF Heaps
<1>2. v <= leafslotmax
  BY <1>1, <1>a DEF NodesHold
<1>3. v > minleafslots
  BY <1>1, <1>a, Sizes DEF isfew
<1>4. v >= mininnerslots + 1 /\ u + 1 = mininnerslots
  BY <1>1, <1>3, <1>a, Sizes DEF MergedFits
<1>5. n \in 1 .. v /\ n < v
  <2>1. n = (v - u) \div 2
    BY <1>a DEF ShiftNum
  <2> QED
    BY <1>1, <1>2, <1>4, <2>1, Sizes, ShiftCounts
<1>6. /\ y1 \in Seq(Pair) /\ Len(y1) = n /\ t \in Seq(Pair) /\ Len(t) = v - n /\ Joins(y, y1, t)
  <2>1. n \in 0 .. Len(y)
    BY <1>1, <1>5
  <2> QED
    BY <1>1, <1>c, <2>1, CutIs
<1>7. s \in Seq(Pair) /\ Joins(s, x, y1) /\ x \o y \in Seq(Pair) /\ Joins(x \o y, x, y)
  BY <1>1, <1>6, <1>c, ConcatIs
<1>8. Joins(x \o y, s, t)
  <2>1. PICK z \in Seq(Pair) : z = x \o y
    BY <1>7
  <2>2. Joins(z, x, y)
    BY <1>7, <2>1
  <2>3. Joins(z, s, t)
    BY <1>1, <1>6, <1>c, <2>2, JoinOnLeft
  <2> QED
    BY <2>1, <2>3
<1>9. s # <<>> /\ t # <<>>
  <2>1. Len(s) = Len(x) + Len(y1)
    BY <1>7 DEF Joins
  <2> QED
    BY <1>1, <1>5, <1>6, <2>1
<1>10. PICK M : M = [H EXCEPT ![a].slots = s]
  OBVIOUS
<1>11. Refilled(H, M, a, s) /\ Refilled(M, G, b, t)
  <2>1. G = [H EXCEPT ![a].slots = s, ![b].slots = t]
    <3>1. G = [H EXCEPT ![a].slots = @ \o SubSeq(H[b].slots, 1, n),
                        ![b].slots = SubSeq(@, n + 1, Len(@))]
      BY <1>a DEF shift_left_leaf
    <3> QED
      BY <1>1, <1>b, <1>c, <3>1
  <2> QED
    BY <1>10, <2>1 DEF Refilled
<1>12. RefilledTwo(H, G, a, b, s, t)
  BY <1>6, <1>7, <1>11, RefillTwo
<1> QED
  BY <1>6, <1>7, <1>8, <1>9, <1>12, <1>b DEF LeavesCut

LEMMA CutRight2 ==
  ASSUME MergedFits, NEW H \in Heaps, NodesHold(H, {}),
         NEW a \in Leaves(H), NEW b \in Leaves(H), a # b,
         slotuse(H, b) + 1 = mininnerslots, ~isfew(H, a), NEW G, G = ShiftedRight(H, a, b)
  PROVE  LeavesCut(H, G, a, b)
<1>a. PICK n, u, v : n = ShiftNum(H, a, b) /\ u = slotuse(H, b) /\ v = slotuse(H, a)
  OBVIOUS
<1>b. PICK x, y, k : x = H[a].slots /\ y = H[b].slots /\ k = v - n
  OBVIOUS
<1>c. PICK x2, s, t : x2 = SubSeq(x, k + 1, Len(x)) /\ s = SubSeq(x, 1, k) /\ t = x2 \o y
  OBVIOUS
<1>1. /\ a \in NodeId /\ b \in NodeId /\ DOMAIN H = NodeId /\ x \in Seq(Pair) /\ y \in Seq(Pair)
      /\ v = Len(x) /\ u = Len(y) /\ u \in Nat /\ v \in Nat /\ isleafnode(H, a) /\ a \in Allocated(H)
      /\ H[a] = [level |-> 0, slots |-> x, prev |-> H[a].prev, next |-> H[a].next]
      /\ H[b] = [level |-> 0, slots |-> y, prev |-> H[b].prev, next |-> H[b].next]
  BY <1>a, <1>b, LeafNode DEF Heaps
<1>2. v <= leafslotmax
  BY <1>1, <1>a DEF NodesHold
<1>3. v > minleafslots
  BY <1>1, <1>a, Sizes DEF isfew
<1>4. v >= mininnerslots + 1 /\ u + 1 = mininnerslots
  BY <1>1, <1>3, <1>a, Sizes DEF MergedFits
<1>5. n \in 1 .. v /\ n < v
  <2>1. n = (v - u) \div 2
    BY <1>a DEF ShiftNum
  <2> QED
    BY <1>1, <1>2, <1>4, <2>1, Sizes, ShiftCounts
<1>6. /\ s \in Seq(Pair) /\ Len(s) = k /\ x2 \in Seq(Pair) /\ Len(x2) = v - k /\ Joins(x, s, x2)
  <2>1. k \in 0 .. Len(x)
    BY <1>1, <1>5, <1>b
  <2> QED
    BY <1>1, <1>c, <2>1, CutIs
<1>7. t \in Seq(Pair) /\ Joins(t, x2, y) /\ x \o y \in Seq(Pair) /\ Joins(x \o y, x, y)
  BY <1>1, <1>6, <1>c, ConcatIs
<1>8. Joins(x \o y, s, t)
  <2>1. PICK z \in Seq(Pair) : z = x \o y
    BY <1>7
  <2>2. Joins(z, x, y)
    BY <1>7, <2>1
  <2>3. Joins(z, s, t)
    BY <1>1, <1>6, <1>c, <2>2, JoinOnRight
  <2> QED
    BY <2>1, <2>3
<1>9. s # <<>> /\ t # <<>>
  <2>1. Len(t) = Len(x2) + Len(y)
    BY <1>7 DEF Joins
  <2> QED
    BY <1>1, <1>5, <1>6, <1>b, <2>1
<1>10. PICK M : M = [H EXCEPT ![a].slots = s]
  OBVIOUS
<1>11. Refilled(H, M, a, s) /\ Refilled(M, G, b, t)
  <2>1. G = [H EXCEPT ![a].slots = s, ![b].slots = t]
    <3>1. G = [H EXCEPT ![a].slots = SubSeq(@, 1, k),
                        ![b].slots = SubSeq(H[a].slots, k + 1, Len(H[a].slots)) \o @]
      BY <1>a, <1>b DEF ShiftedRight
    <3> QED
      BY <1>1, <1>b, <1>c, <3>1
  <2> QED
    BY <1>10, <2>1 DEF Refilled
<1>12. RefilledTwo(H, G, a, b, s, t)
  BY <1>6, <1>7, <1>11, RefillTwo
<1> QED
  BY <1>6, <1>7, <1>8, <1>9, <1>12, <1>b DEF LeavesCut

\* With what the parent learns.
LEMMA CutKeyed ==
  ASSUME NEW H \in Heaps, NEW root, NEW R, Tree(H, root, {}, R), NEW p \in InnerNodes(H),
         NEW s \in 0 .. slotuse(H, p), s < slotuse(H, p), NEW a \in Leaves(H), NEW b \in Leaves(H),
         NEW k, Abreast(H, p, s, a, b, k), slotuse(H, a) >= 1, slotuse(H, b) >= 1,
         NEW M, LeavesCut(H, M, a, b), NEW G, G = SetKey(M, p, s, LastKey(M, a))
  PROVE  Opens(G, b, k, FALSE)
<1>1. PICK l, r \in Seq(Pair) :
        /\ l # <<>> /\ r # <<>>
        /\ Joins(H[a].slots \o H[b].slots, l, r) /\ RefilledTwo(H, M, a, b, l, r)
  BY DEF LeavesCut
<1>2. /\ H[a].slots \in Seq(Pair) /\ slotuse(H, a) = Len(H[a].slots)
      /\ H[b].slots \in Seq(Pair) /\ slotuse(H, b) = Len(H[b].slots)
  BY LeafNode
<1>3. H[a].slots # <<>> /\ H[b].slots # <<>>
  BY <1>2
<1>4. PICK z : z = H[a].slots \o H[b].slots
  OBVIOUS
<1>5. z \in Seq(Pair) /\ Joins(z, H[a].slots, H[b].slots)
  BY <1>2, <1>4, ConcatIs
<1>6. Joins(z, l, r)
  BY <1>1, <1>4
<1>7. M \in Heaps /\ a \in Leaves(M) /\ M[a].slots = l
  BY <1>1 DEF RefilledTwo
<1>8. PICK u : u = l[Len(l)].key
  OBVIOUS
<1>9. LastKey(M, a) = u
  BY <1>1, <1>7, <1>8, LeafLastKey
<1>10. G = SetKey(M, p, s, u)
  BY <1>9
<1> QED
  BY <1>1, <1>3, <1>5, <1>6, <1>8, <1>10, LeavesCutKeyed

\* A neighbour holds pairs.
LEMMA NeighbourHolds ==
  ASSUME NEW H \in Heaps, NEW F, NEW root, Filled(H, F, root, 1), NEW n \in Leaves(H), n \notin F
  PROVE  slotuse(H, n) >= 1
<1>1. n \in Allocated(H) /\ isleafnode(H, n) /\ slotuse(H, n) \in Nat
  BY LeafNode
<1>2. slotuse(H, n) >= IF n # root THEN mininnerslots ELSE IF isleafnode(H, n) THEN 1 ELSE 1
  BY <1>1 DEF Filled
<1> QED
  BY <1>1, <1>2, Sizes

\* The last key goes to the end of what is before it.
LEMMA ConcatAppend ==
  ASSUME NEW S, NEW p \in Seq(S), NEW q \in Seq(S), NEW w \in S
  PROVE  p \o Append(q, w) = Append(p \o q, w)
<1>1. p \o Append(q, w) \in Seq(S) /\ Append(p \o q, w) \in Seq(S)
  OBVIOUS
<1>2. Len(p \o Append(q, w)) = Len(Append(p \o q, w))
  OBVIOUS
<1>3. \A i \in 1 .. Len(p \o Append(q, w)) : (p \o Append(q, w))[i] = Append(p \o q, w)[i]
  OBVIOUS
<1> QED
  BY <1>1, <1>2, <1>3

\* Keys y up to n go behind x and the key between; key n comes between then.
LEMMA KeysLeft ==
  ASSUME NEW S, NEW x \in Seq(S), NEW y \in Seq(S), NEW v \in S, NEW n \in 1 .. Len(y)
  PROVE  Joins(Append(x, v) \o y, Append(Append(x, v) \o SubSeq(y, 1, n - 1), y[n]),
               SubSeq(y, n + 1, Len(y)))
<1>a. PICK xv, q, r : xv = Append(x, v) /\ q = SubSeq(y, 1, n) /\ r = SubSeq(y, n + 1, Len(y))
  OBVIOUS
<1>1. xv \in Seq(S) /\ n \in 0 .. Len(y) /\ n - 1 \in 0 .. Len(y) /\ y[n] \in S
  BY <1>a
<1>2. q \in Seq(S) /\ r \in Seq(S) /\ Joins(y, q, r) /\ SubSeq(y, 1, n - 1) \in Seq(S)
  BY <1>1, <1>a, CutIs
<1>3. PICK z \in Seq(S) : z = xv \o y
  BY <1>1, ConcatIs
<1>4. Joins(z, xv, y)
  BY <1>1, <1>3, ConcatIs
<1>5. PICK h : h = xv \o q
  OBVIOUS
<1>6. Joins(z, h, r)
  BY <1>1, <1>2, <1>4, <1>5, JoinOnLeft
<1>7. q = Append(SubSeq(y, 1, n - 1), y[n])
  BY <1>a, CutAppend
<1>8. h = Append(xv \o SubSeq(y, 1, n - 1), y[n])
  BY <1>1, <1>2, <1>5, <1>7, ConcatAppend
<1> QED
  BY <1>3, <1>6, <1>8, <1>a

\* The keys of x behind k + 1 go before y and the key between.
LEMMA KeysRight ==
  ASSUME NEW S, NEW x \in Seq(S), NEW y \in Seq(S), NEW v \in S, NEW k \in 0 .. Len(x), k < Len(x)
  PROVE  Joins(Append(x, v) \o y, Append(SubSeq(x, 1, k), x[k + 1]),
               Append(SubSeq(x, (k + 1) + 1, Len(x)), v) \o y)
<1>a. PICK m : m = k + 1
  OBVIOUS
<1>b. PICK xv, q, r, rv : /\ xv = Append(x, v) /\ q = SubSeq(x, 1, m) /\ r = SubSeq(x, m + 1, Len(x))
                          /\ rv = Append(r, v)
  OBVIOUS
<1>1. xv \in Seq(S) /\ m \in 1 .. Len(x) /\ m \in 0 .. Len(x) /\ m - 1 = k /\ x[m] \in S
  BY <1>a, <1>b
<1>2. q \in Seq(S) /\ r \in Seq(S) /\ Joins(x, q, r)
  BY <1>1, <1>b, CutIs
<1>3. rv \in Seq(S) /\ Len(rv) = Len(r) + 1 /\ rv[Len(r) + 1] = v /\ \A i \in 1 .. Len(r) : rv[i] = r[i]
  BY <1>2, <1>b, AppendProperties
<1>4. Len(xv) = Len(x) + 1 /\ xv[Len(x) + 1] = v /\ \A i \in 1 .. Len(x) : xv[i] = x[i]
  BY <1>b, AppendProperties
<1>5. Joins(xv, q, rv)
  <2>1. Len(x) \in Nat /\ Len(q) \in Nat /\ Len(r) \in Nat
    BY <1>2
  <2>2. /\ Len(x) = Len(q) + Len(r) /\ \A j \in 1 .. Len(q) : x[j] = q[j]
        /\ \A j \in 1 .. Len(r) : x[j + Len(q)] = r[j]
    BY <1>2 DEF Joins
  <2>3. \A j \in 1 .. Len(q) : xv[j] = q[j]
    BY <1>4, <2>1, <2>2
  <2>4. \A j \in 1 .. Len(rv) : xv[j + Len(q)] = rv[j]
    <3>1. SUFFICES ASSUME NEW j \in 1 .. Len(rv) PROVE xv[j + Len(q)] = rv[j]
      OBVIOUS
    <3>2. CASE j \in 1 .. Len(r)
      BY <1>3, <1>4, <2>1, <2>2, <3>2
    <3>3. CASE j = Len(r) + 1
      <4>1. j + Len(q) = Len(x) + 1
        BY <2>1, <2>2, <3>3
      <4> QED
        BY <1>3, <1>4, <3>3, <4>1
    <3> QED
      BY <1>3, <2>1, <3>2, <3>3
  <2> QED
    BY <1>3, <1>4, <2>1, <2>2, <2>3, <2>4 DEF Joins
<1>6. PICK z \in Seq(S) : z = xv \o y
  BY <1>1, ConcatIs
<1>7. Joins(z, xv, y)
  BY <1>1, <1>6, ConcatIs
<1>8. PICK h : h = rv \o y
  OBVIOUS
<1>9. Joins(z, q, h)
  BY <1>1, <1>2, <1>3, <1>5, <1>7, <1>8, JoinOnRight
<1>10. q = Append(SubSeq(x, 1, k), x[k + 1])
  <2>1. q = Append(SubSeq(x, 1, m - 1), x[m])
    BY <1>1, <1>b, CutAppend
  <2> QED
    BY <1>1, <1>a, <2>1
<1> QED
  BY <1>6, <1>8, <1>9, <1>10, <1>a, <1>b

\* What a shift to the left writes.
LEMMA InnersCutLeft ==
  ASSUME NEW H \in Heaps, NEW root, root # NULL, NEW R, Shape(H, root, {}, {}, R),
         NEW a, NEW b, NextInners(H, root, R, a, b),
         slotuse(H, a) + 1 = mininnerslots, ~isfew(H, b),
         NEW p, NEW slot, slotkey(H, p, slot) \in Key,
         NEW G, G = shift_left_inner(H, a, b, p, slot)
  PROVE  InnersCut(H, G, a, b, p, slot)
<1>a. PICK x, y, c, d, k : /\ x = H[a].keys /\ y = H[b].keys /\ c = H[a].child /\ d = H[b].child
                           /\ k = slotkey(H, p, slot)
  OBVIOUS
<1>n. PICK n, u, v : n = ShiftNum(H, b, a) /\ u = slotuse(H, a) /\ v = slotuse(H, b)
  OBVIOUS
<1>b. PICK y1, d1, kb, cb : /\ y1 = SubSeq(y, 1, n - 1) /\ d1 = SubSeq(d, 1, n)
                            /\ kb = SubSeq(y, n + 1, Len(y)) /\ cb = SubSeq(d, n + 1, Len(d))
  OBVIOUS
<1>c. PICK s, ka, ca : s = c \o d /\ ka = Append(x, k) \o y1 /\ ca = c \o d1
  OBVIOUS
<1>1. AreTwo(H, a, b, x, y, c, d)
  BY <1>a, TwoInners
<1>2. /\ x \in Seq(Key) /\ y \in Seq(Key) /\ c \in Seq(NodeId) /\ d \in Seq(NodeId)
      /\ Len(x) = u /\ Len(y) = v /\ Len(c) = u + 1 /\ Len(d) = v + 1
      /\ u \in Nat /\ v \in Nat /\ v <= innerslotmax /\ ~isleafnode(H, b)
      /\ a \in NodeId /\ b \in NodeId /\ DOMAIN H = NodeId
      /\ H[a] \in Inner /\ H[b] \in Inner /\ a # b /\ b \in Allocated(H)
  BY <1>1, <1>n DEF AreTwo
<1>3. n \in 1 .. v /\ n < v
  <2>1. n = (v - u) \div 2
    BY <1>n DEF ShiftNum
  <2>2. v >= mininnerslots + 1
    BY <1>2, <1>n, Sizes DEF isfew
  <2>3. u + 1 = mininnerslots
    BY <1>n
  <2> QED
    BY <1>2, <2>1, <2>2, <2>3, Sizes, ShiftCounts
<1>4. n - 1 \in 0 .. Len(y) /\ n \in 0 .. Len(y) /\ n \in 0 .. Len(d) /\ n \in Nat /\ n \in 1 .. Len(y)
  BY <1>2, <1>3
<1>5. y1 \in Seq(Key) /\ Len(y1) = n - 1
  BY <1>2, <1>4, <1>b, CutIs
<1>6. kb \in Seq(Key) /\ Len(kb) = v - n
  BY <1>2, <1>4, <1>b, CutIs
<1>7. /\ d1 \in Seq(NodeId) /\ cb \in Seq(NodeId) /\ Len(d1) = n /\ Len(cb) = (v + 1) - n
      /\ Joins(d, d1, cb)
  BY <1>2, <1>4, <1>b, CutIs
<1>8. k \in Key /\ slotkey(H, b, n - 1) = y[n] /\ y[n] \in Key
  <2>1. slotkey(H, b, n - 1) = y[(n - 1) + 1]
    BY <1>2, <1>a DEF slotkey, SlotKeys
  <2>2. (n - 1) + 1 = n
    BY <1>4
  <2> QED
    BY <1>2, <1>4, <1>a, <2>1, <2>2
<1>9. ca \in Seq(NodeId) /\ Len(ca) = Len(c) + n /\ s \in Seq(NodeId) /\ Joins(s, ca, cb)
  <2>1. s \in Seq(NodeId) /\ Joins(s, c, d)
    BY <1>2, <1>c, ConcatIs
  <2>2. ca \in Seq(NodeId) /\ Len(ca) = Len(c) + Len(d1)
    BY <1>2, <1>7, <1>c, ConcatIs DEF Joins
  <2>3. Joins(s, ca, cb)
    BY <1>2, <1>7, <1>c, <2>1, JoinOnLeft
  <2> QED
    BY <1>7, <2>1, <2>2, <2>3
<1>10. ka \in Seq(Key) /\ Len(ka) = (Len(x) + Len(y1)) + 1
  <2>1. x \in Seq(Key) /\ y1 \in Seq(Key) /\ k \in Key /\ ka = Append(x, k) \o y1
    BY <1>2, <1>5, <1>8, <1>c
  <2> QED
    BY <2>1, KeyBetween
<1>11. Joins(Append(x, k) \o y, Append(ka, y[n]), kb)
  <2>1. Joins(Append(x, k) \o y, Append(Append(x, k) \o SubSeq(y, 1, n - 1), y[n]),
              SubSeq(y, n + 1, Len(y)))
    BY <1>2, <1>4, <1>8, KeysLeft
  <2> QED
    BY <1>b, <1>c, <2>1
<1>12. Len(ca) = Len(ka) + 1 /\ Len(cb) = Len(kb) + 1
  BY <1>2, <1>4, <1>5, <1>6, <1>7, <1>9, <1>10
<1>13. PICK M, z : M = [H EXCEPT ![a].keys = ka, ![a].child = ca, ![b].keys = kb, ![b].child = cb]
                   /\ z = slotkey(H, b, n - 1)
  OBVIOUS
<1>14. G = SetKey(M, p, slot, z)
  <2>1. PICK N : N = [H EXCEPT ![a].keys = Append(@, slotkey(H, p, slot)) \o SubSeq(H[b].keys, 1, n - 1),
                               ![a].child = @ \o SubSeq(H[b].child, 1, n),
                               ![b].keys = SubSeq(@, n + 1, Len(@)),
                               ![b].child = SubSeq(@, n + 1, Len(@))]
    BY ZenonT(40)
  <2>2. G = SetKey(N, p, slot, slotkey(H, b, n - 1))
    BY <1>n, <2>1, Zenon DEF shift_left_inner
  <2>3. N = M
    BY <1>2, <1>a, <1>b, <1>c, <1>13, <2>1 DEF Inner
  <2> QED
    BY <1>13, <2>2, <2>3
<1>15. RewrittenTwo(H, M, a, b, ka, ca, kb, cb)
  BY <1>13 DEF RewrittenTwo
<1>16. z \in Key /\ z = y[n]
  BY <1>8, <1>13
<1>17. /\ Joins(H[a].child \o H[b].child, ca, cb)
       /\ Joins(Append(H[a].keys, slotkey(H, p, slot)) \o H[b].keys, Append(ka, z), kb)
  BY <1>9, <1>11, <1>16, <1>a, <1>c
<1> QED
  BY <1>6, <1>7, <1>9, <1>10, <1>12, <1>14, <1>15, <1>16, <1>17 DEF InnersCut

LEMMA InnersCutRight ==
  ASSUME NEW H \in Heaps, NEW root, root # NULL, NEW R, Shape(H, root, {}, {}, R),
         NEW a, NEW b, NextInners(H, root, R, a, b),
         slotuse(H, b) + 1 = mininnerslots, ~isfew(H, a),
         NEW p, NEW slot, slotkey(H, p, slot) \in Key,
         NEW G, G = shift_right_inner(H, a, b, p, slot)
  PROVE  InnersCut(H, G, a, b, p, slot)
<1>a. PICK x, y, c, d, k : /\ x = H[a].keys /\ y = H[b].keys /\ c = H[a].child /\ d = H[b].child
                           /\ k = slotkey(H, p, slot)
  OBVIOUS
<1>n. PICK n, u, v : n = ShiftNum(H, a, b) /\ u = slotuse(H, b) /\ v = slotuse(H, a)
  OBVIOUS
<1>k. PICK keep, m : keep = v - n /\ m = keep + 1
  OBVIOUS
<1>b. PICK ka, ca, x2, c2 : /\ ka = SubSeq(x, 1, keep) /\ ca = SubSeq(c, 1, m)
                            /\ x2 = SubSeq(x, m + 1, Len(x)) /\ c2 = SubSeq(c, m + 1, Len(c))
  OBVIOUS
<1>c. PICK s, kb, cb : s = c \o d /\ kb = Append(x2, k) \o y /\ cb = c2 \o d
  OBVIOUS
<1>1. AreTwo(H, a, b, x, y, c, d)
  BY <1>a, TwoInners
<1>2. /\ x \in Seq(Key) /\ y \in Seq(Key) /\ c \in Seq(NodeId) /\ d \in Seq(NodeId)
      /\ Len(x) = v /\ Len(y) = u /\ Len(c) = v + 1 /\ Len(d) = u + 1
      /\ u \in Nat /\ v \in Nat /\ v <= innerslotmax /\ ~isleafnode(H, a)
      /\ a \in NodeId /\ b \in NodeId /\ DOMAIN H = NodeId
      /\ H[a] \in Inner /\ H[b] \in Inner /\ a # b /\ a \in Allocated(H)
  BY <1>1, <1>n DEF AreTwo
<1>3. n \in 1 .. v /\ n < v
  <2>1. n = (v - u) \div 2
    BY <1>n DEF ShiftNum
  <2>2. v >= mininnerslots + 1
    BY <1>2, <1>n, Sizes DEF isfew
  <2>3. u + 1 = mininnerslots
    BY <1>n
  <2> QED
    BY <1>2, <2>1, <2>2, <2>3, Sizes, ShiftCounts
<1>4. /\ keep \in 0 .. Len(x) /\ m \in 0 .. Len(x) /\ m \in 0 .. Len(c)
      /\ keep \in Nat /\ keep < v /\ keep + 1 = m /\ keep + 2 = m + 1 /\ v - m = n - 1 /\ (v + 1) - m = n
      /\ m \in 1 .. Len(x) /\ n \in Nat
  BY <1>2, <1>3, <1>k
<1>5. ka \in Seq(Key) /\ Len(ka) = keep
  BY <1>2, <1>4, <1>b, CutIs
<1>6. x2 \in Seq(Key) /\ Len(x2) = v - m
  BY <1>2, <1>4, <1>b, CutIs
<1>7. /\ ca \in Seq(NodeId) /\ c2 \in Seq(NodeId) /\ Len(ca) = m /\ Len(c2) = (v + 1) - m
      /\ Joins(c, ca, c2)
  <2>1. /\ ca \in Seq(NodeId) /\ c2 \in Seq(NodeId) /\ Len(ca) = m /\ Len(c2) = Len(c) - m
        /\ Joins(c, ca, c2)
    <3>1. c \in Seq(NodeId) /\ m \in 0 .. Len(c)
      BY <1>2, <1>4
    <3> QED
      BY <3>1, <1>b, CutIs
  <2> QED
    BY <1>2, <2>1
<1>8. k \in Key /\ slotkey(H, a, keep) = x[m] /\ x[m] \in Key
  <2>1. slotkey(H, a, keep) = x[keep + 1]
    BY <1>2, <1>a DEF slotkey, SlotKeys
  <2> QED
    BY <1>2, <1>4, <1>a, <2>1
<1>9. cb \in Seq(NodeId) /\ Len(cb) = Len(c2) + Len(d) /\ s \in Seq(NodeId) /\ Joins(s, ca, cb)
  <2>1. s \in Seq(NodeId) /\ Joins(s, c, d)
    BY <1>2, <1>c, ConcatIs
  <2>2. cb \in Seq(NodeId) /\ Len(cb) = Len(c2) + Len(d)
    BY <1>2, <1>7, <1>c, ConcatIs DEF Joins
  <2>3. Joins(s, ca, cb)
    BY <1>2, <1>7, <1>c, <2>1, JoinOnRight
  <2> QED
    BY <2>1, <2>2, <2>3
<1>10. kb \in Seq(Key) /\ Len(kb) = (Len(x2) + Len(y)) + 1
  <2>1. x2 \in Seq(Key) /\ y \in Seq(Key) /\ k \in Key /\ kb = Append(x2, k) \o y
    BY <1>2, <1>6, <1>8, <1>c
  <2> QED
    BY <2>1, KeyBetween
<1>11. Joins(Append(x, k) \o y, Append(ka, x[m]), kb)
  <2>1. Joins(Append(x, k) \o y, Append(SubSeq(x, 1, keep), x[keep + 1]),
              Append(SubSeq(x, (keep + 1) + 1, Len(x)), k) \o y)
    BY <1>2, <1>4, <1>8, KeysRight
  <2> QED
    BY <1>4, <1>b, <1>c, <2>1
<1>12. Len(ca) = Len(ka) + 1 /\ Len(cb) = Len(kb) + 1
  BY <1>2, <1>4, <1>5, <1>6, <1>7, <1>9, <1>10
<1>13. PICK M, z : M = [H EXCEPT ![a].keys = ka, ![a].child = ca, ![b].keys = kb, ![b].child = cb]
                   /\ z = slotkey(H, a, keep)
  OBVIOUS
<1>14. G = SetKey(M, p, slot, z)
  <2>1. PICK N : N = [H EXCEPT ![a].keys = SubSeq(@, 1, keep),
                               ![a].child = SubSeq(@, 1, keep + 1),
                               ![b].keys = Append(SubSeq(H[a].keys, keep + 2, Len(H[a].keys)),
                                                  slotkey(H, p, slot)) \o @,
                               ![b].child = SubSeq(H[a].child, keep + 2, Len(H[a].child)) \o @]
    OBVIOUS
  <2>2. G = SetKey(N, p, slot, slotkey(H, a, keep))
    BY <1>n, <1>k, <2>1 DEF shift_right_inner
  <2>3. N = M
    BY <1>2, <1>4, <1>a, <1>b, <1>c, <1>13, <2>1 DEF Inner
  <2> QED
    BY <1>13, <2>2, <2>3
<1>15. RewrittenTwo(H, M, a, b, ka, ca, kb, cb)
  BY <1>13 DEF RewrittenTwo
<1>16. z \in Key /\ z = x[m]
  BY <1>8, <1>13
<1>17. /\ Joins(H[a].child \o H[b].child, ca, cb)
       /\ Joins(Append(H[a].keys, slotkey(H, p, slot)) \o H[b].keys, Append(ka, z), kb)
  BY <1>9, <1>11, <1>16, <1>a, <1>c
<1> QED
  BY <1>5, <1>7, <1>9, <1>10, <1>12, <1>14, <1>15, <1>16, <1>17 DEF InnersCut

-----------------------------------------------------------------------------
(* The keys stay in order: erase, above the leaves                         *)

\* A node that is not excepted holds something.
LEMMA NodeHolds ==
  ASSUME NEW H \in Heaps, NEW F, NEW root, Filled(H, F, root, 1), NEW n \in Allocated(H), n \notin F
  PROVE  slotuse(H, n) >= 1 /\ slotuse(H, n) \in Nat
<1>1. slotuse(H, n) \in Nat
  BY NodeIs
<1>2. slotuse(H, n) >= IF n # root THEN mininnerslots ELSE IF isleafnode(H, n) THEN 1 ELSE 1
  BY DEF Filled
<1> QED
  BY <1>1, <1>2, Sizes

\* The parent of the node of the last frame, when it has the key of that node.
KeyParent(J, c, P, t, own) ==
  own => /\ P \in InnerNodes(J) /\ P # c /\ t \in 0 .. slotuse(J, P) /\ t < slotuse(J, P)
         /\ c = childid(J, P, t) /\ J[P].level = J[c].level + 1

-----------------------------------------------------------------------------
(* Bounds in a tree                                                        *)

\* What is last in the last of a row of lists is last of them all.
LEMMA FlattenEnd ==
  ASSUME NEW S, NEW ss \in Seq(Seq(S)), ss # <<>>, ss[Len(ss)] # <<>>
  PROVE  /\ FlattenSeq(ss) \in Seq(S) /\ FlattenSeq(ss) # <<>>
         /\ FlattenSeq(ss)[Len(FlattenSeq(ss))] = ss[Len(ss)][Len(ss[Len(ss)])]
<1>1. PICK o : Offsets(ss, o) /\ FlattenSeq(ss) \in Seq(S) /\ JoinedTo(ss, o, FlattenSeq(ss), Len(ss))
  BY FlattenOffsets
<1>2. PICK t : t = FlattenSeq(ss)
  OBVIOUS
<1>3. PICK n \in Nat : n = Len(ss) /\ n >= 1
  <2>1. Len(ss) \in Nat /\ Len(ss) # 0
    OBVIOUS
  <2> QED
    BY <2>1
<1>4. PICK l : l = ss[n]
  OBVIOUS
<1>5. l \in Seq(S) /\ l # <<>>
  BY <1>3, <1>4
<1>6. Len(l) \in Nat /\ Len(l) >= 1
  BY <1>5
<1>7. o[n] = o[n - 1] + Len(l) /\ o[n] \in Nat /\ o[n - 1] \in Nat
  <2>1. n \in 1 .. n /\ n \in 0 .. n /\ n - 1 \in 0 .. n
    BY <1>3
  <2> QED
    BY <1>1, <1>3, <1>4, <2>1 DEF Offsets
<1>8. Len(t) = o[n] /\ t[o[n - 1] + Len(l)] = l[Len(l)]
  <2>1. n \in 1 .. n /\ Len(l) \in 1 .. Len(l)
    BY <1>3, <1>6
  <2>2. JoinedTo(ss, o, t, n)
    BY <1>1, <1>2, <1>3
  <2> QED
    BY <1>4, <2>1, <2>2 DEF JoinedTo
<1>9. t[Len(t)] = l[Len(l)] /\ Len(t) # 0
  BY <1>6, <1>7, <1>8
<1>10. t # <<>>
  BY <1>9
<1> QED
  BY <1>1, <1>2, <1>3, <1>4, <1>9, <1>10

\* The bound of a node is that of the last node of its list, which is a leaf.
LEMMA LeafListEnds ==
  ASSUME NEW A, NEW lv, NEW K, NEW X, NEW R, Forest(A, lv, K, X, R), NEW f, IsLeafLists(A, lv, K, f),
         NEW hi, Topped(A, lv, K, hi)
  PROVE  \A n \in A : f[n] \in Seq(A) /\ f[n] # <<>>
               /\ hi[n] = hi[f[n][Len(f[n])]] /\ lv[f[n][Len(f[n])]] = 0
<1> DEFINE Good(n) == f[n] \in Seq(A) /\ f[n] # <<>>
               /\ hi[n] = hi[f[n][Len(f[n])]] /\ lv[f[n][Len(f[n])]] = 0
<1> DEFINE T == {k \in Nat : \A n \in A : lv[n] = k => Good(n)}
<1>1. \A n \in A : lv[n] \in Nat
  BY ForestTypes
<1>2. \A n \in A : f[n] = IF lv[n] = 0 THEN <<n>> ELSE FlattenSeq(KidLists(K, f, n))
  BY DEF IsLeafLists, KidLists
<1>3. 0 \in T
  <2> SUFFICES ASSUME NEW n \in A, lv[n] = 0 PROVE Good(n)
    OBVIOUS
  <2>1. f[n] = <<n>>
    BY <1>2
  <2> QED
    BY <2>1
<1>4. ASSUME NEW k \in Nat, k \in T PROVE k + 1 \in T
  <2> SUFFICES ASSUME NEW n \in A, lv[n] = k + 1 PROVE Good(n)
    OBVIOUS
  <2>1. K[n] \in Seq(A) /\ Len(K[n]) \in Nat /\ DOMAIN K[n] = 1 .. Len(K[n])
    BY ForestTypes
  <2>2. ASSUME NEW i \in 1 .. Len(K[n]) PROVE K[n][i] \in A /\ Good(K[n][i])
    <3>1. K[n][i] \in A
      BY <2>1, <2>2
    <3>2. lv[K[n][i]] = lv[n] - 1
      BY <2>2 DEF Forest, ForestKids
    <3>3. lv[K[n][i]] = k
      BY <3>2
    <3> QED
      BY <1>4, <3>1, <3>3
  <2>3. PICK ss : ss = KidLists(K, f, n)
    OBVIOUS
  <2>4. ss \in Seq(Seq(A)) /\ Len(ss) = Len(K[n]) /\ \A i \in 1 .. Len(K[n]) : ss[i] = f[K[n][i]]
    <3>1. ss = [i \in 1 .. Len(K[n]) |-> f[K[n][i]]]
      BY <2>1, <2>3 DEF KidLists
    <3>2. \A i \in 1 .. Len(K[n]) : f[K[n][i]] \in Seq(A)
      BY <2>2
    <3> QED
      BY <2>1, <3>1, <3>2
  <2>5. K[n] # <<>> /\ hi[n] = hi[K[n][Len(K[n])]]
    BY DEF Topped
  <2>6. Len(K[n]) \in 1 .. Len(K[n])
    BY <2>1, <2>5
  <2>7. ss # <<>> /\ ss[Len(ss)] = f[K[n][Len(K[n])]] /\ ss[Len(ss)] # <<>>
    BY <2>2, <2>4, <2>6
  <2>8. f[n] = FlattenSeq(ss)
    <3>1. lv[n] # 0
      OBVIOUS
    <3> QED
      BY <1>2, <2>3, <3>1
  <2>9. f[n] \in Seq(A) /\ f[n] # <<>> /\ f[n][Len(f[n])] = ss[Len(ss)][Len(ss[Len(ss)])]
    BY <2>4, <2>7, <2>8, FlattenEnd
  <2>10. /\ hi[K[n][Len(K[n])]] = hi[ss[Len(ss)][Len(ss[Len(ss)])]]
         /\ lv[ss[Len(ss)][Len(ss[Len(ss)])]] = 0
    BY <2>2, <2>6, <2>7
  <2> QED
    BY <2>5, <2>9, <2>10
<1> HIDE DEF T
<1>5. \A k \in Nat : k \in T
  BY <1>3, <1>4, SetInduction
<1> SUFFICES ASSUME NEW n \in A PROVE Good(n)
  OBVIOUS
<1>6. lv[n] \in T
  BY <1>1, <1>5
<1> QED
  BY <1>6 DEF T

-----------------------------------------------------------------------------
(* The order of the keys between two calls                                 *)

\* The bounds as they are on the tree.
LEMMA KeyedNested ==
  ASSUME NEW H \in Heaps, NEW root, NEW R, Tree(H, root, {}, R), NEW lo, NEW hi, Keyed(H, {}, lo, hi, hi)
  PROVE  Nested(Allocated(H), KidsOf(H), lo, hi) /\ Topped(Allocated(H), LevelsOf(H), KidsOf(H), hi)
<1>1. /\ lo \in [NodeId -> Int] /\ hi \in [NodeId -> Int]
      /\ \A n \in Allocated(H) : NodeKeyed(H, lo, hi, n, lo[n], hi[n])
      /\ \A n \in Allocated(H) : lo[n] <= hi[n]
  BY DEF Keyed
<1>2. \A n \in Allocated(H) : n \in NodeId /\ KidsOf(H)[n] = Kids(H, n) /\ LevelsOf(H)[n] = H[n].level
  BY DEF KidsOf, LevelsOf, Allocated
<1>3. ASSUME NEW n \in Allocated(H)
      PROVE  /\ \A i \in 1 .. Len(Kids(H, n)) : lo[n] <= lo[Kids(H, n)[i]] /\ hi[Kids(H, n)[i]] <= hi[n]
             /\ \A i, j \in 1 .. Len(Kids(H, n)) : i < j => hi[Kids(H, n)[i]] <= lo[Kids(H, n)[j]]
             /\ H[n].level > 0 => Kids(H, n) # <<>> /\ hi[n] = hi[Kids(H, n)[Len(Kids(H, n))]]
  <2>1. CASE isleafnode(H, n)
    <3>1. Kids(H, n) = <<>> /\ H[n].level = 0
      BY <2>1 DEF Kids, isleafnode
    <3>2. 1 .. Len(Kids(H, n)) = {}
      BY <3>1
    <3> QED
      BY <3>1, <3>2
  <2>2. CASE ~isleafnode(H, n)
    <3>1. n \in InnerNodes(H) /\ NodeKeyed(H, lo, hi, n, lo[n], hi[n])
      BY <1>1, <2>2 DEF InnerNodes
    <3>2. PICK ks, cs : RowOf(H, n, ks, cs, lo, hi, lo[n], hi[n])
      BY <3>1, RowOfNode
    <3>3. /\ Kids(H, n) = cs /\ ks \in Seq(Key) /\ cs \in Seq(NodeId) /\ Len(cs) = Len(ks) + 1 /\ Len(ks) \in Nat
          /\ Row(ks, cs, lo, hi, lo[n], hi[n]) /\ \A i \in 1 .. Len(cs) : cs[i] \in Allocated(H)
      BY <3>2 DEF RowOf
    <3>4. Bounds(NodeId, lo, hi) /\ Spanned(cs, lo, hi)
      BY <1>1, <3>3 DEF Bounds, Spanned
    <3>5. lo[n] \in Int
      BY <1>1, <1>2
    <3>6. /\ \A i, j \in 1 .. Len(cs) : i < j => hi[cs[i]] <= lo[cs[j]]
          /\ \A i \in 1 .. Len(cs) : lo[n] <= lo[cs[i]] /\ hi[cs[i]] <= hi[n]
      BY <3>3, <3>4, <3>5, RowGrows
    <3>7. cs # <<>>
      BY <3>3
    <3>8. hi[n] = hi[cs[Len(cs)]]
      BY <3>3 DEF Row
    <3> QED
      BY <3>3, <3>6, <3>7, <3>8
  <2> QED
    BY <2>1, <2>2
<1>4. \A n \in Allocated(H) : lo[n] \in Int /\ hi[n] \in Int
  BY <1>1, <1>2
<1>5. Nested(Allocated(H), KidsOf(H), lo, hi)
  BY <1>2, <1>3, <1>4 DEF Nested
<1>6. Topped(Allocated(H), LevelsOf(H), KidsOf(H), hi)
  BY <1>2, <1>3 DEF Topped
<1> QED
  BY <1>5, <1>6

\* What each leaf of a chain holds, and that it goes on with the next.
LeavesInOrder(H, s, lo, hi) ==
  /\ \A k \in 1 .. Len(s) : Run(H[s[k]].slots, lo[s[k]], hi[s[k]]) /\ lo[s[k]] \in Int /\ hi[s[k]] \in Int
  /\ \A k, l \in 1 .. Len(s) : k < l => hi[s[k]] <= lo[s[l]]

\* The pair at place p is slot j of leaf k of the chain.
LEMMA PairPlace ==
  ASSUME NEW H \in Heaps, NEW s, Len(s) \in Nat, NEW o, NEW t, Laid(H, s, o, t),
         \A i \in 1 .. Len(s) : s[i] \in Leaves(H), NEW lo, NEW hi, LeavesInOrder(H, s, lo, hi),
         NEW p \in 1 .. Len(t)
  PROVE  \E k \in 1 .. Len(s) : \E j \in 1 .. slotuse(H, s[k]) :
           /\ p = o[k - 1] + j /\ t[p] = H[s[k]].slots[j] /\ p <= o[k] /\ p > o[k - 1]
           /\ lo[s[k]] <= t[p].key /\ t[p].key <= hi[s[k]] /\ t[p].key \in Int
<1>1. PICK k \in 1 .. Len(s) : p - o[k - 1] \in 1 .. slotuse(H, s[k])
  BY DEF Laid
<1>2. PICK j \in 1 .. slotuse(H, s[k]) : j = p - o[k - 1]
  BY <1>1
<1>3. k - 1 \in 0 .. Len(s) /\ k \in 0 .. Len(s)
  OBVIOUS
<1>4. o[k - 1] \in Nat /\ o[k] \in Nat /\ slotuse(H, s[k]) \in Nat /\ o[k] = o[k - 1] + slotuse(H, s[k])
  <2>1. Numbered(H, s, o)
    BY DEF Laid
  <2>2. /\ o \in [0 .. Len(s) -> Nat]
        /\ \A i \in 1 .. Len(s) : slotuse(H, s[i]) \in Nat /\ o[i] = o[i - 1] + slotuse(H, s[i])
    BY <2>1 DEF Numbered
  <2> QED
    BY <1>3, <2>2
<1>5. p = o[k - 1] + j /\ p <= o[k] /\ p > o[k - 1]
  <2>1. p \in Int /\ j \in Int /\ j >= 1 /\ j <= slotuse(H, s[k])
    BY <1>2, <1>4
  <2> QED
    BY <1>2, <1>4, <2>1
<1>6. t[p] = H[s[k]].slots[j]
  BY <1>5 DEF Laid
<1>7. PICK sl : sl = H[s[k]].slots
  OBVIOUS
<1>8. sl \in Seq(Pair) /\ slotuse(H, s[k]) = Len(sl)
  <2>1. s[k] \in Leaves(H)
    OBVIOUS
  <2> QED
    BY <1>7, <2>1, LeafNode DEF slotuse, Leaves
<1>9. sl # <<>> /\ j \in 1 .. Len(sl)
  BY <1>8
<1>10. /\ sl[j].key \in Int /\ lo[s[k]] <= sl[j].key /\ sl[j].key <= hi[s[k]]
  <2>1. Run(sl, lo[s[k]], hi[s[k]]) /\ lo[s[k]] \in Int
    BY <1>7 DEF LeavesInOrder
  <2>2. HasKeys(Pair)
    BY PairsHaveKeys
  <2>3. \A i \in 1 .. Len(sl) : sl[i].key \in Int /\ lo[s[k]] <= sl[i].key /\ sl[i].key <= hi[s[k]]
    BY <1>8, <1>9, <2>1, <2>2, RunIs
  <2> QED
    BY <1>9, <2>3
<1> QED
  BY <1>5, <1>6, <1>7, <1>10

\* The pairs of such leaves are in order.
LEMMA PairsInOrder ==
  ASSUME NEW H \in Heaps, NEW s, Len(s) \in Nat, NEW o, NEW t, Laid(H, s, o, t),
         \A i \in 1 .. Len(s) : s[i] \in Leaves(H), NEW lo, NEW hi, LeavesInOrder(H, s, lo, hi),
         NEW p \in 1 .. Len(t), NEW q \in 1 .. Len(t), p < q
  PROVE  t[p].key <= t[q].key
<1>1. PICK k \in 1 .. Len(s) : \E j \in 1 .. slotuse(H, s[k]) :
           /\ p = o[k - 1] + j /\ t[p] = H[s[k]].slots[j] /\ p <= o[k] /\ p > o[k - 1]
           /\ lo[s[k]] <= t[p].key /\ t[p].key <= hi[s[k]] /\ t[p].key \in Int
  BY PairPlace
<1>2. PICK l \in 1 .. Len(s) : \E j \in 1 .. slotuse(H, s[l]) :
           /\ q = o[l - 1] + j /\ t[q] = H[s[l]].slots[j] /\ q <= o[l] /\ q > o[l - 1]
           /\ lo[s[l]] <= t[q].key /\ t[q].key <= hi[s[l]] /\ t[q].key \in Int
  BY PairPlace
<1>3. PICK i \in 1 .. slotuse(H, s[k]) :
           /\ p = o[k - 1] + i /\ t[p] = H[s[k]].slots[i] /\ p <= o[k] /\ p > o[k - 1]
           /\ lo[s[k]] <= t[p].key /\ t[p].key <= hi[s[k]] /\ t[p].key \in Int
  BY <1>1
<1>4. PICK j \in 1 .. slotuse(H, s[l]) :
           /\ q = o[l - 1] + j /\ t[q] = H[s[l]].slots[j] /\ q <= o[l] /\ q > o[l - 1]
           /\ lo[s[l]] <= t[q].key /\ t[q].key <= hi[s[l]] /\ t[q].key \in Int
  BY <1>2
<1>5. Numbered(H, s, o) /\ o \in [0 .. Len(s) -> Nat]
  BY DEF Laid, Numbered
<1>6. CASE k = l
  <2>1. o[k - 1] \in Nat
    <3>1. k - 1 \in 0 .. Len(s)
      OBVIOUS
    <3> QED
      BY <1>5, <3>1
  <2>2. i < j
    BY <1>3, <1>4, <1>6, <2>1
  <2>3. Run(H[s[k]].slots, lo[s[k]], hi[s[k]])
    BY DEF LeavesInOrder
  <2>4. s[k] \in Leaves(H)
    OBVIOUS
  <2>5. slotuse(H, s[k]) = Len(H[s[k]].slots)
    BY <2>4 DEF slotuse, Leaves
  <2>6. H[s[k]].slots[i].key <= H[s[k]].slots[j].key
    BY <1>6, <2>2, <2>3, <2>5 DEF Run
  <2> QED
    BY <1>3, <1>4, <1>6, <2>6
<1>7. CASE k < l
  <2>1. hi[s[k]] <= lo[s[l]] /\ hi[s[k]] \in Int /\ lo[s[l]] \in Int
    BY <1>7 DEF LeavesInOrder
  <2>2. /\ t[p].key <= hi[s[k]] /\ t[p].key \in Int
        /\ lo[s[l]] <= t[q].key /\ t[q].key \in Int
    BY <1>3, <1>4
  <2>3. \A w, x, y, z \in Int : w <= x /\ x <= y /\ y <= z => w <= z
    OBVIOUS
  <2> QED
    BY <2>1, <2>2, <2>3
<1>8. CASE l < k
  <2>1. l \in 0 .. Len(s) /\ k - 1 \in l .. Len(s) /\ k - 1 \in 0 .. Len(s)
    BY <1>8
  <2>2. o[l] <= o[k - 1]
    BY <1>5, <2>1, NumbersGrow
  <2>3. o[l] \in Nat /\ o[k - 1] \in Nat
    BY <1>5, <2>1
  <2> QED
    BY <1>3, <1>4, <2>2, <2>3
<1> QED
  BY <1>6, <1>7, <1>8

\* The last key of a leaf that is not empty.
LEMMA LeafEnd ==
  ASSUME NEW H \in Heaps, NEW n \in Leaves(H), slotuse(H, n) >= 1, NEW b, NEW m, Run(H[n].slots, b, m)
  PROVE  LastKey(H, n) = m
<1>1. isleafnode(H, n) /\ H[n].slots \in Seq(Pair)
  BY LeafNode DEF Leaves
<1>2. PICK sl : sl = H[n].slots
  OBVIOUS
<1>3. slotuse(H, n) = Len(sl) /\ sl \in Seq(Pair)
  BY <1>1, <1>2 DEF slotuse
<1>4. Len(sl) \in Nat /\ Len(sl) >= 1 /\ sl # <<>>
  BY <1>3
<1>5. m = sl[Len(sl)].key
  BY <1>2, <1>4 DEF Run
<1>6. SlotKeys(H, n) = [i \in DOMAIN sl |-> sl[i].key]
  BY <1>1, <1>2 DEF SlotKeys
<1>7. Len(sl) \in DOMAIN sl
  BY <1>3, <1>4
<1>8. LastKey(H, n) = SlotKeys(H, n)[(Len(sl) - 1) + 1]
  BY <1>3 DEF LastKey, slotkey
<1>9. (Len(sl) - 1) + 1 = Len(sl)
  BY <1>4
<1> QED
  BY <1>5, <1>6, <1>7, <1>8, <1>9

\* The tree between two calls with its bounds.
OrderedTree(H, root, R, lo, hi) ==
  /\ H \in Heaps /\ Tree(H, root, {}, R) /\ Filled(H, {}, root, 1)
  /\ Keyed(H, {}, lo, hi, hi)
  /\ \A a, b \in Allocated(H) : b \in R[a] => hi[a] <= lo[b]
  /\ \A n \in Allocated(H) :
       /\ LeafLists(H)[n] \in Seq(Allocated(H)) /\ LeafLists(H)[n] # <<>>
       /\ hi[n] = hi[LeafLists(H)[n][Len(LeafLists(H)[n])]]
       /\ LeafLists(H)[n][Len(LeafLists(H)[n])] \in Leaves(H)
  /\ \A n \in Leaves(H) : LastKey(H, n) = hi[n]

LEMMA OrderedIs ==
  ASSUME NEW H \in Heaps, NEW root, root # NULL, NEW R, Tree(H, root, {}, R), Filled(H, {}, root, 1),
         NEW lo, NEW hi, Keyed(H, {}, lo, hi, hi)
  PROVE  OrderedTree(H, root, R, lo, hi)
<1>a. PICK A, lv, K, f : A = Allocated(H) /\ lv = LevelsOf(H) /\ K = KidsOf(H) /\ f = LeafLists(H)
  OBVIOUS
<1>1. Nested(A, K, lo, hi) /\ Topped(A, lv, K, hi)
  BY <1>a, KeyedNested
<1>2. Forest(A, lv, K, {root}, R) /\ root \in A
  BY <1>a, ForestSetup
<1>3. \A n \in A : n = root \/ lv[n] < lv[root]
  <2>1. \A n \in A : n = root \/ n \in {} \/ H[n].level < H[root].level
    BY <1>a DEF Tree
  <2>2. \A n \in A : lv[n] = H[n].level
    BY <1>a DEF LevelsOf
  <2> QED
    BY <1>2, <2>1, <2>2
<1>4. \A a, b \in A : b \in R[a] => hi[a] <= lo[b]
  BY <1>1, <1>2, <1>3, BoundsGrow
<1>5. IsLeafLists(A, lv, K, f)
  BY <1>a, LeafListsList
<1>6. \A n \in A : /\ f[n] \in Seq(A) /\ f[n] # <<>>
                  /\ hi[n] = hi[f[n][Len(f[n])]] /\ lv[f[n][Len(f[n])]] = 0
  BY <1>1, <1>2, <1>5, LeafListEnds
<1>8. \A n \in A : f[n][Len(f[n])] \in Leaves(H)
  <2> SUFFICES ASSUME NEW n \in A PROVE f[n][Len(f[n])] \in Leaves(H)
    OBVIOUS
  <2>1. PICK l : l = f[n]
    OBVIOUS
  <2>2. l \in Seq(A) /\ l # <<>> /\ lv[l[Len(l)]] = 0
    BY <1>6, <2>1
  <2>3. l[Len(l)] \in A
    BY <2>2
  <2>4. \A x \in A : lv[x] = H[x].level
    BY <1>a DEF LevelsOf
  <2> QED
    BY <1>a, <2>1, <2>2, <2>3, <2>4 DEF Leaves, isleafnode
<1>7. ASSUME NEW n \in Leaves(H) PROVE LastKey(H, n) = hi[n]
  <2>1. n \in Allocated(H) /\ isleafnode(H, n) /\ n \notin {}
    BY <1>7 DEF Leaves
  <2>2. Run(H[n].slots, lo[n], hi[n])
    BY <2>1 DEF Keyed, NodeKeyed
  <2>3. slotuse(H, n) >= 1
    BY <2>1, NodeHolds
  <2> QED
    BY <1>7, <2>2, <2>3, LeafEnd
<1> QED
  BY <1>a, <1>4, <1>6, <1>7, <1>8 DEF OrderedTree

\* The leaves of the chain are in order, and so are the pairs.
LEMMA ChainInOrder ==
  ASSUME NEW H, NEW root, NEW R, NEW lo, NEW hi, OrderedTree(H, root, R, lo, hi), NEW s, Lists(s, Leaves(H), R)
  PROVE  LeavesInOrder(H, s, lo, hi)
<1>1. /\ Len(s) \in Nat /\ \A i \in 1 .. Len(s) : s[i] \in Leaves(H)
      /\ \A i, j \in 1 .. Len(s) : i < j => s[j] \in R[s[i]]
  BY ListIs
<1>2. \A n \in Leaves(H) : n \in Allocated(H) /\ isleafnode(H, n) /\ n \notin {}
  BY DEF Leaves
<1>3. Keyed(H, {}, lo, hi, hi) /\ \A a, b \in Allocated(H) : b \in R[a] => hi[a] <= lo[b]
  BY DEF OrderedTree
<1>4. \A n \in Leaves(H) : Run(H[n].slots, lo[n], hi[n]) /\ lo[n] \in Int /\ hi[n] \in Int
  <2>1. \A n \in Leaves(H) : NodeKeyed(H, lo, hi, n, lo[n], hi[n]) /\ n \in NodeId
    BY <1>2, <1>3 DEF Keyed, Allocated
  <2>2. lo \in [NodeId -> Int] /\ hi \in [NodeId -> Int]
    BY <1>3 DEF Keyed
  <2> QED
    BY <1>2, <2>1, <2>2 DEF NodeKeyed
<1> QED
  BY <1>1, <1>2, <1>3, <1>4 DEF LeavesInOrder

-----------------------------------------------------------------------------
(* Where a search ends                                                     *)

\* The first slot with a key that is greater.
LEMMA FindUpperPlace ==
  ASSUME NEW H \in Heaps, NEW n \in Allocated(H), NEW key, NEW slot, slot = find_upper(H, n, key)
  PROVE  /\ slot \in 0 .. slotuse(H, n)
         /\ slot > 0 => ~(key < SlotKeys(H, n)[slot])
         /\ slot < slotuse(H, n) => key < SlotKeys(H, n)[slot + 1]
<1> DEFINE keys == SlotKeys(H, n)
           N == Len(keys)
           L == {i \in 1 .. N : key < keys[i]}
<1>1. N = slotuse(H, n) /\ N \in Nat
  BY SlotKey, NodeIs
<1>2. \E g : IsSearch(N, L, g)
  BY <1>1, SearchExists
<1> DEFINE body(g, r) == IF r[1] >= r[2] THEN r[1]
                         ELSE IF key < keys[(r[1] + r[2]) \div 2 + 1]
                           THEN g[<<r[1], (r[1] + r[2]) \div 2>>]
                           ELSE g[<<(r[1] + r[2]) \div 2 + 1, r[2]>>]
<1>3. ASSUME NEW g, NEW r \in (0 .. N) \X (0 .. N)
      PROVE  body(g, r) = SearchStep(L, g, r[1], r[2])
  <2> DEFINE m == (r[1] + r[2]) \div 2
  <2>1. r[1] \in Nat /\ r[2] \in 0 .. N
    OBVIOUS
  <2>2. r[1] < r[2] => m \in r[1] .. r[2] - 1
    BY <2>1, Halves
  <2>3. r[1] < r[2] => m + 1 \in 1 .. N
    BY <1>1, <2>1, <2>2
  <2>4. ~(r[1] >= r[2]) => (m + 1 \in L <=> key < keys[m + 1])
    BY <2>1, <2>3
  <2> HIDE DEF L, keys
  <2> QED
    BY <2>4 DEF SearchStep
<1> HIDE DEF body
<1>4. \A g : IsSearch(N, L, g) <=> g = [r \in (0 .. N) \X (0 .. N) |-> body(g, r)]
  BY <1>3 DEF IsSearch
<1> DEFINE f == CHOOSE g : g = [r \in (0 .. N) \X (0 .. N) |-> body(g, r)]
<1>5. find_upper(H, n, key) = f[<<0, N>>]
  BY DEF find_upper, BinarySearch, body
<1>6. IsSearch(N, L, f)
  BY <1>2, <1>4
<1>7. slot = f[<<0, N>>]
  BY <1>5
<1> HIDE DEF f
<1>8. (slot > 0 => slot \notin L) /\ (slot < N => slot + 1 \in L) /\ slot \in 0 .. N
  <2>1. f[<<0, N>>] \in 0 .. N
    BY <1>1, <1>6, SearchInRange
  <2> HIDE DEF L, keys
  <2>2. PICK M \in Nat : M = N
    BY <1>1
  <2>3. (slot > 0 => slot \notin L) /\ (slot < M => slot + 1 \in L)
    BY <2>2, <1>6, <1>7, SearchPlace
  <2> QED
    BY <2>1, <2>2, <2>3, <1>7
<1>9. (slot > 0 => slot \in 1 .. N) /\ (slot < N => slot + 1 \in 1 .. N)
  BY <1>1, <1>8
<1> QED
  BY <1>1, <1>8, <1>9

\* The slots before this one hold keys of L, and the slot does not.
FoundAt(H, L, n, slot) ==
  /\ slot \in 0 .. slotuse(H, n)
  /\ slot > 0 => SlotKeys(H, n)[slot] \in L
  /\ slot < slotuse(H, n) => SlotKeys(H, n)[slot + 1] \notin L

Less(key)   == {k \in Int : k < key}
NotMore(key) == {k \in Int : k <= key}

LEMMA KeyAt ==
  ASSUME NEW H \in Heaps, NEW n \in Allocated(H), NEW i \in 1 .. slotuse(H, n)
  PROVE  SlotKeys(H, n)[i] \in Int
<1>1. SlotKeys(H, n) \in Seq(Key) /\ Len(SlotKeys(H, n)) = slotuse(H, n)
  BY SlotKey
<1>2. SlotKeys(H, n)[i] \in Key
  BY <1>1
<1> QED
  BY <1>2, KeysAreInts

LEMMA LowerFound ==
  ASSUME NEW H \in Heaps, NEW n \in Allocated(H), NEW key \in Int
  PROVE  FoundAt(H, Less(key), n, find_lower(H, n, key))
<1>1. PICK slot : slot = find_lower(H, n, key)
  OBVIOUS
<1>2. /\ slot \in 0 .. slotuse(H, n)
      /\ slot > 0 => ~(key <= SlotKeys(H, n)[slot])
      /\ slot < slotuse(H, n) => key <= SlotKeys(H, n)[slot + 1]
  BY <1>1, FindLowerPlace
<1>3. slotuse(H, n) \in Nat
  BY NodeIs
<1>4. slot > 0 => SlotKeys(H, n)[slot] \in Less(key)
  <2>1. slot > 0 => slot \in 1 .. slotuse(H, n)
    BY <1>2, <1>3
  <2>2. slot > 0 => SlotKeys(H, n)[slot] \in Int
    BY <2>1, KeyAt
  <2> QED
    BY <1>2, <2>2 DEF Less
<1>5. slot < slotuse(H, n) => SlotKeys(H, n)[slot + 1] \notin Less(key)
  <2>1. slot < slotuse(H, n) => slot + 1 \in 1 .. slotuse(H, n)
    BY <1>2, <1>3
  <2>2. slot < slotuse(H, n) => SlotKeys(H, n)[slot + 1] \in Int
    BY <2>1, KeyAt
  <2> QED
    BY <1>2, <2>2 DEF Less
<1> QED
  BY <1>1, <1>2, <1>4, <1>5 DEF FoundAt

LEMMA UpperFound ==
  ASSUME NEW H \in Heaps, NEW n \in Allocated(H), NEW key \in Int
  PROVE  FoundAt(H, NotMore(key), n, find_upper(H, n, key))
<1>1. PICK slot : slot = find_upper(H, n, key)
  OBVIOUS
<1>2. /\ slot \in 0 .. slotuse(H, n)
      /\ slot > 0 => ~(key < SlotKeys(H, n)[slot])
      /\ slot < slotuse(H, n) => key < SlotKeys(H, n)[slot + 1]
  BY <1>1, FindUpperPlace
<1>3. slotuse(H, n) \in Nat
  BY NodeIs
<1>4. slot > 0 => SlotKeys(H, n)[slot] \in NotMore(key)
  <2>1. slot > 0 => slot \in 1 .. slotuse(H, n)
    BY <1>2, <1>3
  <2>2. slot > 0 => SlotKeys(H, n)[slot] \in Int
    BY <2>1, KeyAt
  <2> QED
    BY <1>2, <2>2 DEF NotMore
<1>5. slot < slotuse(H, n) => SlotKeys(H, n)[slot + 1] \notin NotMore(key)
  <2>1. slot < slotuse(H, n) => slot + 1 \in 1 .. slotuse(H, n)
    BY <1>2, <1>3
  <2>2. slot < slotuse(H, n) => SlotKeys(H, n)[slot + 1] \in Int
    BY <2>1, KeyAt
  <2> QED
    BY <1>2, <2>2 DEF NotMore
<1> QED
  BY <1>1, <1>2, <1>4, <1>5 DEF FoundAt

LEMMA SetsDownward ==
  ASSUME NEW key \in Int
  PROVE  Downward(Less(key)) /\ Downward(NotMore(key))
BY DEF Downward, Less, NotMore

\* A search of an ordered tree.
LEMMA SearchedTree ==
  ASSUME NEW H, NEW root, root # NULL, NEW R, NEW lo, NEW hi, OrderedTree(H, root, R, lo, hi),
         NEW L, Downward(L), NEW D, \A n \in Allocated(H) : FoundAt(H, L, n, D[n]),
         NEW F, \A n \in Allocated(H) : F[n] = D[n] + 1
  PROVE  Searched(Allocated(H), LevelsOf(H), KidsOf(H), root, R, lo, hi, L, F)
<1>a. PICK A, lv, K : A = Allocated(H) /\ lv = LevelsOf(H) /\ K = KidsOf(H)
  OBVIOUS
<1>1. H \in Heaps /\ Tree(H, root, {}, R) /\ Keyed(H, {}, lo, hi, hi)
  BY DEF OrderedTree
<1>2. Forest(A, lv, K, {root}, R) /\ root \in A
  BY <1>1, <1>a, ForestSetup
<1>3. \A n \in A : lv[n] = H[n].level /\ K[n] = Kids(H, n)
  BY <1>a DEF LevelsOf, KidsOf
<1>4. \A n \in A : n = root \/ lv[n] < lv[root]
  <2>1. \A n \in A : n = root \/ n \in {} \/ H[n].level < H[root].level
    BY <1>1, <1>a DEF Tree
  <2> QED
    BY <1>2, <1>3, <2>1
<1>5. Nested(A, K, lo, hi) /\ Topped(A, lv, K, hi)
  BY <1>1, <1>a, KeyedNested
<1>6. \A n \in A : lo[n] <= hi[n]
  BY <1>1, <1>a DEF Keyed
<1>7. ASSUME NEW n \in A, lv[n] > 0
      PROVE  /\ F[n] \in 1 .. Len(K[n])
             /\ F[n] > 1 => hi[K[n][F[n] - 1]] \in L
             /\ F[n] < Len(K[n]) => hi[K[n][F[n]]] \notin L
  <2>1. ~isleafnode(H, n) /\ n \in InnerNodes(H) /\ n \notin {} /\ n \in Allocated(H)
    BY <1>3, <1>7, <1>a DEF isleafnode, InnerNodes
  <2>2. NodeKeyed(H, lo, hi, n, lo[n], hi[n])
    BY <1>1, <2>1 DEF Keyed
  <2>3. PICK ks, cs : RowOf(H, n, ks, cs, lo, hi, lo[n], hi[n])
    BY <1>1, <2>1, <2>2, RowOfNode
  <2>4. /\ ks = H[n].keys /\ Kids(H, n) = cs /\ Len(ks) = slotuse(H, n) /\ Len(ks) \in Nat
        /\ Len(cs) = Len(ks) + 1 /\ \A i \in 1 .. Len(ks) : ks[i] = hi[cs[i]]
    BY <2>3 DEF RowOf, Row
  <2>5. PICK d : d = D[n]
    OBVIOUS
  <2>6. SlotKeys(H, n) = ks
    BY <2>1, <2>4 DEF SlotKeys
  <2>7. d \in 0 .. Len(ks) /\ (d > 0 => ks[d] \in L) /\ (d < Len(ks) => ks[d + 1] \notin L)
    BY <2>1, <2>4, <2>5, <2>6 DEF FoundAt
  <2>8. F[n] = d + 1 /\ K[n] = cs
    BY <1>3, <2>1, <2>4, <2>5
  <2>9. d + 1 \in 1 .. Len(cs) /\ (d + 1) - 1 = d
    BY <2>4, <2>7
  <2>10. d + 1 > 1 => hi[cs[d]] \in L
    <3>1. d > 0 => d \in 1 .. Len(ks)
      BY <2>4, <2>7
    <3>2. d + 1 > 1 => d > 0
      BY <2>7
    <3> QED
      BY <2>4, <2>7, <3>1, <3>2
  <2>11. d + 1 < Len(cs) => hi[cs[d + 1]] \notin L
    <3>1. d + 1 < Len(cs) => d < Len(ks) /\ d + 1 \in 1 .. Len(ks)
      BY <2>4, <2>7
    <3> QED
      BY <2>4, <2>7, <3>1
  <2> QED
    BY <2>8, <2>9, <2>10, <2>11
<1>8. Turns(A, lv, K, F) /\ TurnsAt(A, lv, K, hi, L, F)
  BY <1>7 DEF Turns, TurnsAt
<1> QED
  BY <1>a, <1>2, <1>4, <1>5, <1>6, <1>8 DEF Searched

\* The leaf a search ends on.
LEMMA LeafFound ==
  ASSUME NEW H, NEW root, root # NULL, NEW R, NEW lo, NEW hi, OrderedTree(H, root, R, lo, hi),
         NEW L, Downward(L), NEW D, \A n \in Allocated(H) : FoundAt(H, L, n, D[n]),
         NEW l, l = (CHOOSE leaf : leaf = [n \in Allocated(H) |->
                       IF isleafnode(H, n) THEN n ELSE leaf[childid(H, n, D[n])]])[root]
  PROVE  l \in Leaves(H) /\ SplitsAt(Allocated(H), R, hi, L, l)
<1>a. PICK A, lv, K : A = Allocated(H) /\ lv = LevelsOf(H) /\ K = KidsOf(H)
  OBVIOUS
<1>b. PICK F : F = [n \in A |-> D[n] + 1]
  OBVIOUS
<1>1. H \in Heaps /\ Tree(H, root, {}, R)
  BY DEF OrderedTree
<1>2. Searched(A, lv, K, root, R, lo, hi, L, F)
  <2>1. \A n \in A : F[n] = D[n] + 1
    BY <1>b
  <2> QED
    BY <1>a, <2>1, SearchedTree
<1>3. /\ Forest(A, lv, K, {root}, R) /\ root \in A /\ lv[root] \in Nat
      /\ \A n \in A : lv[n] <= lv[root]
  BY <1>1, <1>a, ForestSetup
<1>4. PICK m \in Nat : m = lv[root]
  BY <1>3
<1>5. Turns(A, lv, K, F)
  BY <1>2 DEF Searched
<1>6. \E f : IsDescentTo(A, lv, K, F, f)
  BY <1>3, <1>4, <1>5, DescentExists
<1>7. ASSUME NEW f
      PROVE  IsDescentTo(A, lv, K, F, f)
             <=> f = [n \in A |-> IF isleafnode(H, n) THEN n ELSE f[childid(H, n, D[n])]]
  <2>1. ASSUME NEW n \in A
        PROVE  (IF lv[n] = 0 THEN n ELSE f[K[n][F[n]]])
               = IF isleafnode(H, n) THEN n ELSE f[childid(H, n, D[n])]
    <3>1. lv[n] = 0 <=> isleafnode(H, n)
      BY <1>a DEF LevelsOf, isleafnode
    <3>2. ~isleafnode(H, n) => K[n] = H[n].child
      BY <1>a DEF KidsOf, Kids
    <3>3. F[n] = D[n] + 1
      BY <1>b
    <3> QED
      BY <3>1, <3>2, <3>3 DEF childid
  <2>2. [n \in A |-> IF lv[n] = 0 THEN n ELSE f[K[n][F[n]]]]
        = [n \in A |-> IF isleafnode(H, n) THEN n ELSE f[childid(H, n, D[n])]]
    BY <2>1
  <2> QED
    BY <2>2 DEF IsDescentTo
<1>8. PICK f : f = CHOOSE leaf : leaf = [n \in A |-> IF isleafnode(H, n) THEN n ELSE leaf[childid(H, n, D[n])]]
  OBVIOUS
<1>9. f = [n \in A |-> IF isleafnode(H, n) THEN n ELSE f[childid(H, n, D[n])]]
  BY <1>6, <1>7, <1>8
<1>10. IsDescentTo(A, lv, K, F, f)
  BY <1>7, <1>9
<1>11. l = f[root]
  BY <1>8, <1>a
<1>12. l \in A /\ lv[l] = 0 /\ SplitsAt(A, R, hi, L, l)
  BY <1>2, <1>10, <1>11, DescentEnds
<1> QED
  BY <1>12, <1>a DEF Leaves, LevelsOf, isleafnode

\* A search that ends on a slot of leaf k of a chain.
EndsAt(H, R, hi, L, s, k, slot) ==
  /\ k \in 1 .. Len(s) /\ FoundAt(H, L, s[k], slot) /\ SplitsAt(Allocated(H), R, hi, L, s[k])

\* The pairs along the chain, in order.
Along(H, R, s, o, t, lo, hi) ==
  /\ H \in Heaps /\ Len(s) \in Nat /\ Laid(H, s, o, t) /\ Lists(s, Leaves(H), R)
  /\ LeavesInOrder(H, s, lo, hi) /\ \A n \in Leaves(H) : slotuse(H, n) >= 1

LEMMA AlongIs ==
  ASSUME NEW H, NEW R, NEW s, NEW o, NEW t, NEW lo, NEW hi, Along(H, R, s, o, t, lo, hi)
  PROVE  /\ \A i \in 1 .. Len(s) : s[i] \in Leaves(H) /\ s[i] \in Allocated(H)
         /\ \A i, j \in 1 .. Len(s) : i < j => s[j] \in R[s[i]]
         /\ o \in [0 .. Len(s) -> Nat] /\ o[0] = 0 /\ Len(t) \in Nat /\ Len(t) = o[Len(s)]
         /\ \A k \in 1 .. Len(s) : slotuse(H, s[k]) \in Nat /\ o[k] = o[k - 1] + slotuse(H, s[k])
         /\ \A i \in 0 .. Len(s) : \A j \in i .. Len(s) : o[i] <= o[j]
<1>1. Len(s) \in Nat /\ Laid(H, s, o, t) /\ Lists(s, Leaves(H), R)
  BY DEF Along
<1>2. /\ \A i \in 1 .. Len(s) : s[i] \in Leaves(H)
      /\ \A i, j \in 1 .. Len(s) : i < j => s[j] \in R[s[i]]
  BY <1>1, ListIs
<1>3. Numbered(H, s, o) /\ t \in Seq(Pair) /\ Len(t) = o[Len(s)]
  BY <1>1 DEF Laid
<1>4. \A i \in 0 .. Len(s) : \A j \in i .. Len(s) : o[i] <= o[j]
  BY <1>1, <1>3, NumbersGrow
<1> QED
  BY <1>2, <1>3, <1>4 DEF Numbered, Leaves

\* What a leaf of the chain holds left and right of where the search ended.
LEMMA SlotParts ==
  ASSUME NEW H, NEW R, NEW s, NEW o, NEW t, NEW lo, NEW hi, Along(H, R, s, o, t, lo, hi),
         NEW L, Downward(L), NEW k, NEW slot, EndsAt(H, R, hi, L, s, k, slot),
         NEW j \in 1 .. slotuse(H, s[k])
  PROVE  H[s[k]].slots[j].key \in L <=> j <= slot
<1>1. k \in 1 .. Len(s) /\ FoundAt(H, L, s[k], slot)
  BY DEF EndsAt
<1>2. s[k] \in Leaves(H) /\ slotuse(H, s[k]) \in Nat /\ H \in Heaps /\ LeavesInOrder(H, s, lo, hi)
  BY <1>1, AlongIs DEF Along
<1>3. PICK sl : sl = H[s[k]].slots
  OBVIOUS
<1>4. sl \in Seq(Pair) /\ slotuse(H, s[k]) = Len(sl) /\ isleafnode(H, s[k])
  BY <1>2, <1>3, LeafNode DEF slotuse, Leaves
<1>5. Run(sl, lo[s[k]], hi[s[k]])
  BY <1>1, <1>2, <1>3 DEF LeavesInOrder
<1>6. SlotKeys(H, s[k]) = [i \in DOMAIN sl |-> sl[i].key]
  BY <1>3, <1>4 DEF SlotKeys
<1>7. \A i \in 1 .. Len(sl) : SlotKeys(H, s[k])[i] = sl[i].key
  BY <1>4, <1>6
<1>8. \A i \in 1 .. Len(sl) : sl[i].key \in Int
  <2>1. HasKeys(Pair) /\ \A i \in 1 .. Len(sl) : sl[i] \in Pair
    BY <1>4, PairsHaveKeys
  <2> QED
    BY <2>1 DEF HasKeys
<1>9. \A i, m \in 1 .. Len(sl) : i <= m => sl[i].key <= sl[m].key
  <2> SUFFICES ASSUME NEW i \in 1 .. Len(sl), NEW m \in 1 .. Len(sl), i <= m PROVE sl[i].key <= sl[m].key
    OBVIOUS
  <2>1. i = m \/ i < m
    OBVIOUS
  <2> QED
    BY <1>5, <1>8, <2>1 DEF Run
<1>10. /\ slot \in 0 .. Len(sl) /\ Len(sl) \in Nat /\ j \in 1 .. Len(sl)
       /\ slot > 0 => SlotKeys(H, s[k])[slot] \in L
       /\ slot < Len(sl) => SlotKeys(H, s[k])[slot + 1] \notin L
  BY <1>1, <1>2, <1>4 DEF FoundAt
<1>11. \A x \in Int : \A y \in L : x <= y => x \in L
  BY DEF Downward
<1>12. ASSUME j <= slot PROVE sl[j].key \in L
  <2>1. slot > 0 /\ slot \in 1 .. Len(sl)
    BY <1>10, <1>12
  <2>2. sl[slot].key \in L /\ sl[j].key <= sl[slot].key
    BY <1>7, <1>9, <1>10, <1>12, <2>1
  <2> QED
    BY <1>8, <1>10, <1>11, <2>2
<1>13. ASSUME ~(j <= slot) PROVE sl[j].key \notin L
  <2>1. slot < Len(sl) /\ slot + 1 \in 1 .. Len(sl) /\ slot + 1 <= j
    BY <1>10, <1>13
  <2>2. sl[slot + 1].key \notin L /\ sl[slot + 1].key <= sl[j].key
    BY <1>7, <1>9, <1>10, <2>1
  <2> QED
    BY <1>8, <1>11, <2>1, <2>2
<1> QED
  BY <1>3, <1>12, <1>13

\* The pairs before the place the search ended on, and no others, are in L.
LEMMA PlaceIs ==
  ASSUME NEW H, NEW R, NEW s, NEW o, NEW t, NEW lo, NEW hi, Along(H, R, s, o, t, lo, hi),
         NEW L, Downward(L), NEW k, NEW slot, EndsAt(H, R, hi, L, s, k, slot),
         NEW p \in 1 .. Len(t)
  PROVE  t[p].key \in L <=> p <= o[k - 1] + slot
<1>1. /\ k \in 1 .. Len(s) /\ FoundAt(H, L, s[k], slot)
      /\ \A x \in Allocated(H) : s[k] \in R[x] => hi[x] \in L
      /\ \A y \in Allocated(H) : y \in R[s[k]] => hi[s[k]] \notin L
  BY DEF EndsAt, SplitsAt
<1>2. /\ \A i \in 1 .. Len(s) : s[i] \in Leaves(H) /\ s[i] \in Allocated(H)
      /\ \A i, j \in 1 .. Len(s) : i < j => s[j] \in R[s[i]]
      /\ o \in [0 .. Len(s) -> Nat]
      /\ \A i \in 1 .. Len(s) : slotuse(H, s[i]) \in Nat /\ o[i] = o[i - 1] + slotuse(H, s[i])
      /\ \A i \in 0 .. Len(s) : \A j \in i .. Len(s) : o[i] <= o[j]
  BY AlongIs
<1>3. H \in Heaps /\ Len(s) \in Nat /\ Laid(H, s, o, t) /\ LeavesInOrder(H, s, lo, hi)
  BY DEF Along
<1>4. PICK m \in 1 .. Len(s) : \E j \in 1 .. slotuse(H, s[m]) :
           /\ p = o[m - 1] + j /\ t[p] = H[s[m]].slots[j] /\ p <= o[m] /\ p > o[m - 1]
           /\ lo[s[m]] <= t[p].key /\ t[p].key <= hi[s[m]] /\ t[p].key \in Int
  BY <1>2, <1>3, PairPlace
<1>5. PICK j \in 1 .. slotuse(H, s[m]) :
           /\ p = o[m - 1] + j /\ t[p] = H[s[m]].slots[j] /\ p <= o[m] /\ p > o[m - 1]
           /\ lo[s[m]] <= t[p].key /\ t[p].key <= hi[s[m]] /\ t[p].key \in Int
  BY <1>4
<1>6. \A x \in Int : \A y \in L : x <= y => x \in L
  BY DEF Downward
<1>7. \A i \in 1 .. Len(s) : lo[s[i]] \in Int /\ hi[s[i]] \in Int
  BY <1>3 DEF LeavesInOrder
<1>8. /\ slot \in 0 .. slotuse(H, s[k]) /\ k - 1 \in 0 .. Len(s) /\ o[k - 1] \in Nat /\ o[k] \in Nat
      /\ m - 1 \in 0 .. Len(s) /\ o[m - 1] \in Nat /\ o[m] \in Nat /\ slotuse(H, s[k]) \in Nat
      /\ o[k] = o[k - 1] + slotuse(H, s[k]) /\ slot \in Nat /\ p \in Int
  <2>1. k - 1 \in 0 .. Len(s) /\ m - 1 \in 0 .. Len(s) /\ k \in 0 .. Len(s) /\ m \in 0 .. Len(s)
    BY <1>1
  <2>2. slot \in 0 .. slotuse(H, s[k]) /\ slotuse(H, s[k]) \in Nat /\ o[k] = o[k - 1] + slotuse(H, s[k])
    BY <1>1, <1>2 DEF FoundAt
  <2>3. o[k - 1] \in Nat /\ o[m - 1] \in Nat /\ o[k] \in Nat /\ o[m] \in Nat
    BY <1>2, <2>1
  <2> QED
    BY <2>1, <2>2, <2>3
<1>9. CASE m < k
  <2>1. hi[s[m]] \in L
    BY <1>1, <1>2, <1>9
  <2>2. t[p].key \in L
    BY <1>5, <1>6, <2>1
  <2>3. o[m] <= o[k - 1]
    <3>1. m \in 0 .. Len(s) /\ k - 1 \in m .. Len(s)
      BY <1>1, <1>9
    <3> QED
      BY <1>2, <3>1
  <2>4. p <= o[k - 1] + slot
    <3>1. p <= o[m] /\ o[m] \in Nat /\ o[k - 1] \in Nat /\ slot \in Nat /\ p \in Int
      BY <1>5, <1>8
    <3> QED
      BY <2>3, <3>1
  <2> QED
    BY <2>2, <2>4
<1>10. CASE k < m
  <2>1. hi[s[k]] \notin L
    BY <1>1, <1>2, <1>10
  <2>2. hi[s[k]] <= lo[s[m]]
    BY <1>1, <1>3, <1>10 DEF LeavesInOrder
  <2>3. hi[s[k]] <= t[p].key
    BY <1>1, <1>5, <1>7, <2>2
  <2>4. t[p].key \notin L
    BY <1>1, <1>6, <1>7, <2>1, <2>3
  <2>5. o[k] <= o[m - 1]
    <3>1. k \in 0 .. Len(s) /\ m - 1 \in k .. Len(s)
      BY <1>1, <1>10
    <3> QED
      BY <1>2, <3>1
  <2>6. o[k - 1] + slot <= o[k]
    BY <1>8
  <2>7. ~(p <= o[k - 1] + slot)
    BY <1>5, <1>8, <2>5, <2>6
  <2> QED
    BY <2>4, <2>7
<1>11. CASE m = k
  <2>1. H[s[k]].slots[j].key \in L <=> j <= slot
    BY <1>5, <1>11, SlotParts
  <2>2. j \in Int /\ (p <= o[k - 1] + slot <=> j <= slot)
    BY <1>5, <1>8, <1>11
  <2> QED
    BY <1>5, <1>11, <2>1, <2>2
<1> QED
  BY <1>1, <1>9, <1>10, <1>11

\* It is on a pair unless it is the end.
LEMMA PlaceOnPair ==
  ASSUME NEW H, NEW R, NEW s, NEW o, NEW t, NEW lo, NEW hi, Along(H, R, s, o, t, lo, hi),
         NEW L, Downward(L), NEW k, NEW slot, EndsAt(H, R, hi, L, s, k, slot)
  PROVE  /\ slot < slotuse(H, s[k]) \/ (k = Len(s) /\ slot = slotuse(H, s[k]))
         /\ slot \in 0 .. slotuse(H, s[k]) /\ o[k - 1] \in Nat /\ o[k - 1] + slot \in 0 .. Len(t)
<1>1. /\ k \in 1 .. Len(s) /\ FoundAt(H, L, s[k], slot)
      /\ \A y \in Allocated(H) : y \in R[s[k]] => hi[s[k]] \notin L
  BY DEF EndsAt, SplitsAt
<1>2. /\ \A i \in 1 .. Len(s) : s[i] \in Leaves(H) /\ s[i] \in Allocated(H)
      /\ \A i, j \in 1 .. Len(s) : i < j => s[j] \in R[s[i]]
      /\ o \in [0 .. Len(s) -> Nat] /\ Len(t) = o[Len(s)]
      /\ \A i \in 1 .. Len(s) : slotuse(H, s[i]) \in Nat /\ o[i] = o[i - 1] + slotuse(H, s[i])
      /\ \A i \in 0 .. Len(s) : \A j \in i .. Len(s) : o[i] <= o[j]
  BY AlongIs
<1>3. slot \in 0 .. slotuse(H, s[k]) /\ slotuse(H, s[k]) \in Nat /\ slotuse(H, s[k]) >= 1 /\ Len(s) \in Nat
  BY <1>1, <1>2 DEF FoundAt, Along
<1>4. ASSUME slot = slotuse(H, s[k]), k # Len(s) PROVE FALSE
  <2>1. k + 1 \in 1 .. Len(s) /\ k < k + 1
    BY <1>1, <1>3, <1>4
  <2>2. hi[s[k]] \notin L
    BY <1>1, <1>2, <2>1
  <2>3. PICK sl : sl = H[s[k]].slots
    OBVIOUS
  <2>4. sl \in Seq(Pair) /\ slotuse(H, s[k]) = Len(sl)
    <3>1. s[k] \in Leaves(H) /\ H \in Heaps
      BY <1>1, <1>2 DEF Along
    <3> QED
      BY <2>3, <3>1, LeafNode DEF slotuse, Leaves
  <2>5. hi[s[k]] = sl[Len(sl)].key
    <3>1. Run(sl, lo[s[k]], hi[s[k]]) /\ sl # <<>>
      BY <1>1, <1>3, <2>3, <2>4 DEF Along, LeavesInOrder
    <3> QED
      BY <3>1 DEF Run
  <2>6. slotuse(H, s[k]) \in 1 .. slotuse(H, s[k])
    BY <1>3
  <2>7. H[s[k]].slots[slotuse(H, s[k])].key \in L
    BY <1>4, <2>6, SlotParts
  <2> QED
    BY <2>2, <2>3, <2>4, <2>5, <2>7
<1>5. o[k - 1] \in Nat /\ o[k - 1] + slot \in 0 .. Len(t)
  <2>1. k - 1 \in 0 .. Len(s) /\ k \in 0 .. Len(s) /\ Len(s) \in k .. Len(s) /\ Len(s) \in 0 .. Len(s)
    BY <1>1, <1>3
  <2>2. o[k - 1] \in Nat /\ o[k] \in Nat /\ o[k] <= Len(t) /\ o[k] = o[k - 1] + slotuse(H, s[k]) /\ Len(t) \in Nat
    BY <1>1, <1>2, <2>1
  <2> QED
    BY <1>3, <2>2
<1> QED
  BY <1>3, <1>4, <1>5

-----------------------------------------------------------------------------
(* The searches between two calls                                          *)

\* How many pairs have their key in L: those before the place.
LEMMA CountOf ==
  ASSUME NEW t, Len(t) \in Nat, DOMAIN t = 1 .. Len(t), NEW L, NEW m \in 0 .. Len(t),
         \A p \in 1 .. Len(t) : t[p].key \in L <=> p <= m
  PROVE  Cardinality({i \in DOMAIN t : t[i].key \in L}) = m
<1>1. {i \in DOMAIN t : t[i].key \in L} = 1 .. m
  OBVIOUS
<1>2. Cardinality(1 .. m) = m
  <2>1. 1 \in Int /\ m \in Int /\ 1 <= m + 1
    OBVIOUS
  <2>2. Cardinality(1 .. m) = IF 1 > m THEN 0 ELSE m - 1 + 1
    BY FS_Interval
  <2> QED
    BY <2>2
<1> QED
  BY <1>1, <1>2

\* Slot j of leaf k of the chain holds pair o[k - 1] + j, counted from 0.
LEMMA PairAt ==
  ASSUME NEW H, NEW R, NEW s, NEW o, NEW t, NEW lo, NEW hi, Along(H, R, s, o, t, lo, hi),
         NEW k \in 1 .. Len(s), NEW j \in 0 .. slotuse(H, s[k]) - 1
  PROVE  /\ o[k - 1] + j + 1 \in 1 .. Len(t) /\ slotkey(H, s[k], j) = t[o[k - 1] + j + 1].key
         /\ s[k] # NULL /\ o[k - 1] \in Nat /\ j \in Nat
<1>1. H \in Heaps /\ Laid(H, s, o, t)
  BY DEF Along
<1>n. PICK n \in Nat : n = Len(s)
  BY DEF Along
<1>2. /\ s[k] \in Leaves(H) /\ s[k] \in Allocated(H)
      /\ slotuse(H, s[k]) \in Nat /\ o[k] = o[k - 1] + slotuse(H, s[k])
      /\ o \in [0 .. n -> Nat] /\ Len(t) = o[n]
  BY <1>n, AlongIs
<1>3. o[k] <= o[n]
  <2>1. k \in 0 .. n /\ n \in k .. n
    BY <1>n
  <2> QED
    BY <1>n, <2>1, AlongIs
<1>4. k - 1 \in 0 .. n /\ k \in 0 .. n
  BY <1>n
<1>5. PICK b \in Nat, c \in Nat, h \in Nat : b = o[k - 1] /\ c = o[k] /\ h = slotuse(H, s[k]) /\ c <= Len(t) /\ Len(t) \in Nat
  BY <1>2, <1>3, <1>4, <1>n
<1>6. j \in 0 .. h - 1 /\ c = b + h
  BY <1>2, <1>5
<1>7. b + j + 1 \in 1 .. Len(t) /\ j + 1 \in 1 .. h
  BY <1>5, <1>6
<1>8. t[o[k - 1] + (j + 1)] = H[s[k]].slots[j + 1]
  BY <1>1, <1>5, <1>7 DEF Laid
<1>9. slotkey(H, s[k], j) = H[s[k]].slots[j + 1].key
  <2>1. isleafnode(H, s[k]) /\ j + 1 \in 1 .. Len(H[s[k]].slots)
    BY <1>1, <1>2, <1>5, <1>7, LeafNode
  <2> QED
    BY <2>1 DEF slotkey, SlotKeys
<1>j. j \in Nat
  BY <1>6
<1>10. b + (j + 1) = b + j + 1
  BY <1>j
<1>o. o[k - 1] = b
  BY <1>5
<1>12. t[b + j + 1] = H[s[k]].slots[j + 1]
  BY <1>8, <1>10, <1>o
<1>13. o[k - 1] + j + 1 = b + j + 1
  BY <1>o
<1>11. s[k] # NULL
  BY <1>2, NodeAssumption DEF Allocated
<1> QED
  BY <1>5, <1>7, <1>9, <1>11, <1>12, <1>13, <1>j

\* The keys of the pairs along a chain are numbers, in order.
LEMMA AlongInOrder ==
  ASSUME NEW H, NEW R, NEW s, NEW o, NEW t, NEW lo, NEW hi, Along(H, R, s, o, t, lo, hi)
  PROVE  /\ \A p \in 1 .. Len(t) : t[p].key \in Int
         /\ \A p, q \in 1 .. Len(t) : p < q => t[p].key <= t[q].key
<1>1. /\ H \in Heaps /\ Len(s) \in Nat /\ Laid(H, s, o, t) /\ LeavesInOrder(H, s, lo, hi)
      /\ \A i \in 1 .. Len(s) : s[i] \in Leaves(H)
  BY AlongIs DEF Along
<1>2. \A p \in 1 .. Len(t) : t[p].key \in Int
  BY <1>1, PairPlace
<1>3. \A p, q \in 1 .. Len(t) : p < q => t[p].key <= t[q].key
  BY <1>1, PairsInOrder
<1> QED
  BY <1>2, <1>3

-----------------------------------------------------------------------------
(* The loop of count                                                       *)

\* The pairs with the key are those from B to U - 1, counted from 0.
KeyRange(t, key, B, U) ==
  /\ B \in 0 .. Len(t) /\ U \in B .. Len(t)
  /\ \A p \in 1 .. Len(t) : t[p].key = key <=> B < p /\ p <= U

\* How many keys are in L: those that are less, and not greater.
KeysIn(t, L) == Cardinality({i \in DOMAIN t : t[i].key \in L})

=============================================================================
