--------------------------- MODULE Database_proofs ---------------------------
(***************************************************************************)
(* How a string is cut into words, for strings of any length, and what a   *)
(* GET returns, for any tables and any queries, whatever is in their words.*)
(***************************************************************************)
EXTENDS Database, FiniteSetTheorems, SequenceTheorems, WellFoundedInduction, TLAPS

-----------------------------------------------------------------------------
(* Induction over numbers, stated with sets                                *)

\* A set of numbers that is not empty has a least element.
LEMMA LeastElement ==
  ASSUME NEW S \in SUBSET Nat, S # {}
  PROVE  \E n \in S : \A m \in S : n <= m
<1> DEFINE Smaller == {p \in Nat \X Nat : p[1] < p[2]}
<1>1. IsWellFoundedOn(Smaller, Nat)
  BY NatLessThanWellFounded DEF OpToRel
<1> HIDE DEF Smaller
<1>2. PICK n \in S : \A m \in S : <<m, n>> \notin Smaller
  BY <1>1, WFMin
<1>3. \A m \in S : ~(m < n)
  BY <1>2 DEF Smaller
<1> QED
  BY <1>3

\* What holds of 0, and of n + 1 when it holds of n, holds of every number.
LEMMA SetInduction ==
  ASSUME NEW S, 0 \in S, \A n \in Nat : n \in S => n + 1 \in S
  PROVE  \A n \in Nat : n \in S
<1> SUFFICES ASSUME Nat \ S # {} PROVE FALSE
  OBVIOUS
<1>1. PICK n \in Nat \ S : \A m \in Nat \ S : n <= m
  BY LeastElement
<1>2. n # 0 /\ n - 1 \in Nat /\ n - 1 \notin Nat \ S
  BY <1>1
<1> QED
  BY <1>2

\* What holds of a number when it holds of all greater ones up to b.
LEMMA DownwardInduction ==
  ASSUME NEW a \in Int, NEW b \in Int, NEW S,
         \A i \in a .. b : (\A j \in i + 1 .. b : j \in S) => i \in S
  PROVE  \A i \in a .. b : i \in S
<1> DEFINE T == {k \in Nat : b - k \in (a .. b) \ S}
<1> SUFFICES ASSUME NEW i \in (a .. b) \ S PROVE FALSE
  OBVIOUS
<1>1. b - i \in T
  <2>1. b - i \in Nat /\ b - (b - i) = i
    OBVIOUS
  <2> QED
    BY <2>1
<1> HIDE DEF T
<1>2. T \in SUBSET Nat
  BY DEF T
<1>3. PICK k \in T : \A m \in T : k <= m
  BY <1>1, <1>2, LeastElement
<1>4. k \in Nat /\ b - k \in a .. b /\ b - k \notin S
  BY <1>3 DEF T
<1>5. ASSUME NEW j \in b - k + 1 .. b, j \notin S
      PROVE  FALSE
  <2>1. b - j \in Nat /\ b - (b - j) = j /\ j \in a .. b /\ b - j < k
    BY <1>4
  <2>2. b - j \in T
    BY <1>5, <2>1 DEF T
  <2> QED
    BY <1>3, <1>4, <2>1, <2>2
<1> QED
  BY <1>4, <1>5

-----------------------------------------------------------------------------
(* Numbers, and the words of a string                                      *)

\* The minimum of a set of numbers and the maximum of two of them.
LEMMA MinOf ==
  ASSUME NEW S \in SUBSET Nat, S # {}
  PROVE  Min(S) \in S /\ \A m \in S : Min(S) <= m
BY LeastElement DEF Min

LEMMA MaxOfTwo ==
  ASSUME NEW a \in Int, NEW b \in Int
  PROVE  Max({a, b}) = IF a >= b THEN a ELSE b
<1>1. \E x \in {a, b} : \A y \in {a, b} : x >= y
  OBVIOUS
<1> QED
  BY <1>1 DEF Max

\* The first position from i on that holds one of the characters.
LEMMA FirstOfIs ==
  ASSUME NEW C, NEW s \in Seq(C), NEW i \in Nat \ {0}, NEW chars
  PROVE  LET f == FirstOf(s, i, chars)
         IN /\ f \in Nat /\ i <= f
            /\ f <= Len(s) => s[f] \in chars
            /\ f > Len(s) => f = IF i >= Len(s) + 1 THEN i ELSE Len(s) + 1
            /\ \A j \in i .. f - 1 : j <= Len(s) /\ s[j] \notin chars
<1> DEFINE last == IF i >= Len(s) + 1 THEN i ELSE Len(s) + 1
           S == {j \in i .. Len(s) : s[j] \in chars} \cup {last}
           f == Min(S)
<1>1. Len(s) \in Nat /\ last \in Nat
  OBVIOUS
<1>2. S \in SUBSET Nat /\ S # {}
  BY <1>1
<1>3. FirstOf(s, i, chars) = f
  <2>1. Max({i, Len(s) + 1}) = last
    BY <1>1, MaxOfTwo
  <2> QED
    BY <2>1 DEF FirstOf
<1>4. f \in S /\ \A m \in S : f <= m
  BY <1>2, MinOf
<1> HIDE DEF f
<1>5. /\ f \in Nat /\ i <= f
      /\ f <= Len(s) => s[f] \in chars
      /\ f > Len(s) => f = last
      /\ f <= last
  BY <1>1, <1>4
<1>6. ASSUME NEW j \in i .. f - 1
      PROVE  j <= Len(s) /\ s[j] \notin chars
  BY <1>1, <1>4, <1>5
<1> QED
  BY <1>3, <1>5, <1>6

\* SkipBlanks finds the next character that is no blank.
LEMMA SkipBlanksIs ==
  ASSUME NEW C, NEW s \in Seq(C), NEW i \in Nat \ {0}
  PROVE  LET b == SkipBlanks(s, i)
         IN /\ b \in Nat /\ i <= b
            /\ b <= Len(s) => s[b] # Blank
            /\ b > Len(s) => b = IF i >= Len(s) + 1 THEN i ELSE Len(s) + 1
            /\ \A j \in i .. b - 1 : j <= Len(s) /\ s[j] = Blank
            /\ hasNext(s, i) <=> b <= Len(s)
<1> DEFINE chars == {s[j] : j \in DOMAIN s} \ {Blank}
           b == FirstOf(s, i, chars)
<1> HIDE DEF chars
<1>1. /\ b \in Nat /\ i <= b
      /\ b <= Len(s) => s[b] \in chars
      /\ b > Len(s) => b = IF i >= Len(s) + 1 THEN i ELSE Len(s) + 1
      /\ \A j \in i .. b - 1 : j <= Len(s) /\ s[j] \notin chars
  BY FirstOfIs
<1>2. SkipBlanks(s, i) = b
  BY DEF SkipBlanks, chars
<1> HIDE DEF b
<1>3. \A j \in i .. b - 1 : s[j] = Blank
  <2> SUFFICES ASSUME NEW j \in i .. b - 1 PROVE s[j] = Blank
    OBVIOUS
  <2>1. j <= Len(s) /\ s[j] \notin chars /\ j \in DOMAIN s
    BY <1>1
  <2> QED
    BY <2>1 DEF chars
<1> QED
  BY <1>1, <1>2, <1>3 DEF hasNext, chars

\* A word that begins at b, whether it is quoted, and where it ends.
Quoted(s, b) == s[b] = Quote
FromOf(s, b) == IF Quoted(s, b) THEN b + 1 ELSE b
EndOf(s, b)  == FirstOf(s, FromOf(s, b), {IF Quoted(s, b) THEN Quote ELSE Blank})

LEMMA NextIs ==
  ASSUME NEW C, NEW s \in Seq(C), NEW i \in 1 .. Len(s) + 3, hasNext(s, i)
  PROVE  LET b == SkipBlanks(s, i)
         IN /\ b \in i .. Len(s) /\ s[b] # Blank
            /\ \A j \in i .. b - 1 : s[j] = Blank
            /\ EndOf(s, b) \in FromOf(s, b) .. Len(s) + 1
            /\ EndOf(s, b) <= Len(s) =>
                 s[EndOf(s, b)] = IF Quoted(s, b) THEN Quote ELSE Blank
            /\ \A j \in FromOf(s, b) .. EndOf(s, b) - 1 :
                 j <= Len(s) /\ s[j] # IF Quoted(s, b) THEN Quote ELSE Blank
            /\ next(s, i) = [word |-> SubSeq(s, FromOf(s, b), EndOf(s, b) - 1),
                             idx |-> EndOf(s, b) + 1]
            /\ next(s, i).word \in Seq(C)
            /\ next(s, i).idx \in i + 1 .. Len(s) + 2
<1> DEFINE b == SkipBlanks(s, i)
           from == FromOf(s, b)
           end == EndOf(s, b)
<1>1. i \in Nat \ {0} /\ Len(s) \in Nat
  OBVIOUS
<1>2. /\ b \in i .. Len(s) /\ s[b] # Blank
      /\ \A j \in i .. b - 1 : s[j] = Blank
  BY <1>1, SkipBlanksIs
<1> HIDE DEF b
<1>3. from \in {b, b + 1} /\ from \in Nat \ {0} /\ from <= Len(s) + 1
  BY <1>1, <1>2 DEF FromOf
<1>4. /\ end \in Nat /\ from <= end
      /\ end <= Len(s) => s[end] \in {IF Quoted(s, b) THEN Quote ELSE Blank}
      /\ end > Len(s) => end = IF from >= Len(s) + 1 THEN from ELSE Len(s) + 1
      /\ \A j \in from .. end - 1 :
           j <= Len(s) /\ s[j] \notin {IF Quoted(s, b) THEN Quote ELSE Blank}
  BY <1>3, FirstOfIs DEF EndOf
<1>5. next(s, i) = [word |-> SubSeq(s, from, end - 1), idx |-> end + 1]
  BY <1>2 DEF next, b, FromOf, EndOf, Quoted
<1> HIDE DEF from, end
<1>6. end \in from .. Len(s) + 1
  BY <1>1, <1>3, <1>4
<1>7. next(s, i).word \in Seq(C)
  <2>1. \A j \in from .. end - 1 : s[j] \in C
    BY <1>1, <1>3, <1>6
  <2> QED
    BY <1>3, <1>4, <1>5, <2>1, SubSeqProperties
<1>8. next(s, i).idx \in i + 1 .. Len(s) + 2
  BY <1>1, <1>2, <1>3, <1>5, <1>6
<1> QED
  BY <1>2, <1>4, <1>5, <1>6, <1>7, <1>8 DEF b, from, end

\* The loop over the words, from position i on, is what it is from the position
\* that next leaves, behind the word that it returns.
LEMMA WordsFromIs ==
  ASSUME NEW C, NEW s \in Seq(C)
  PROVE  \A i \in 1 .. Len(s) + 3 :
           wordsFrom(s)[i] = IF hasNext(s, i)
                             THEN <<next(s, i).word>> \o wordsFrom(s)[next(s, i).idx]
                             ELSE <<>>
<1> DEFINE N == Len(s) + 3
           More(i) == hasNext(s, i)
           Word(i) == <<next(s, i).word>>
           After(i) == next(s, i).idx
           Loop(f, a) == f = [i \in a .. N |-> IF More(i) THEN Word(i) \o f[After(i)] ELSE <<>>]
           S == {k \in Nat : k <= N - 1 => \E f : Loop(f, N - k)}
<1>1. N \in Nat /\ N >= 3
  OBVIOUS
<1>2. \A i \in 1 .. N : More(i) => After(i) \in i + 1 .. N
  BY NextIs
<1>3. ~More(N)
  BY SkipBlanksIs
<1> HIDE DEF N, More, Word, After
<1>4. 0 \in S
  <2>1. Loop([i \in N .. N |-> <<>>], N)
    BY <1>1, <1>3
  <2>2. N - 0 = N
    BY <1>1
  <2> QED
    BY <2>1, <2>2
<1>5. ASSUME NEW k \in Nat, k \in S
      PROVE  k + 1 \in S
  <2> SUFFICES ASSUME k + 1 <= N - 1 PROVE \E f : Loop(f, N - (k + 1))
    OBVIOUS
  <2> DEFINE a == N - k
  <2>1. a \in Int /\ a - 1 = N - (k + 1) /\ a - 1 \in 1 .. N /\ k <= N - 1
    BY <1>1
  <2>2. PICK f : Loop(f, a)
    BY <1>5, <2>1
  <2> DEFINE g == [i \in a - 1 .. N |->
                     IF i = a - 1
                     THEN IF More(i) THEN Word(i) \o f[After(i)] ELSE <<>>
                     ELSE f[i]]
  <2>3. ASSUME NEW i \in a - 1 .. N
        PROVE  g[i] = IF More(i) THEN Word(i) \o g[After(i)] ELSE <<>>
    <3>1. More(i) => After(i) \in i + 1 .. N
      BY <1>2, <2>1
    <3>2. More(i) => g[After(i)] = f[After(i)]
      BY <1>1, <2>1, <3>1
    <3>3. CASE i = a - 1
      BY <3>2, <3>3
    <3>4. CASE i # a - 1
      <4>1. i \in a .. N
        BY <1>1, <2>1, <3>4
      <4>2. f[i] = IF More(i) THEN Word(i) \o f[After(i)] ELSE <<>>
        BY <2>2, <4>1
      <4> QED
        BY <3>2, <3>4, <4>2
    <3> QED
      BY <3>3, <3>4
  <2>4. g = [i \in a - 1 .. N |-> g[i]]
    OBVIOUS
  <2> HIDE DEF g
  <2>5. Loop(g, a - 1)
    BY <2>3, <2>4
  <2> QED
    BY <2>1, <2>5
<1> HIDE DEF S
<1>6. \A k \in Nat : k \in S
  BY <1>4, <1>5, SetInduction
<1>7. \E f : Loop(f, 1)
  <2>1. N - 1 \in Nat /\ N - (N - 1) = 1
    BY <1>1
  <2> QED
    BY <1>6, <2>1 DEF S
<1>8. wordsFrom(s) = CHOOSE f : Loop(f, 1)
  BY DEF wordsFrom, N, More, Word, After
<1>9. Loop(wordsFrom(s), 1)
  BY <1>7, <1>8
<1>10. \A i \in 1 .. N :
         wordsFrom(s)[i] = IF More(i) THEN Word(i) \o wordsFrom(s)[After(i)] ELSE <<>>
  BY <1>9
<1> QED
  BY <1>10 DEF N, More, Word, After

\* The words are a sequence of strings over the same characters.
LEMMA WordsTyped ==
  ASSUME NEW C, NEW s \in Seq(C)
  PROVE  /\ \A i \in 1 .. Len(s) + 3 : wordsFrom(s)[i] \in Seq(Seq(C))
         /\ words(s) \in Seq(Seq(C))
<1> DEFINE N == Len(s) + 3
           S == {i \in 1 .. N : wordsFrom(s)[i] \in Seq(Seq(C))}
<1>1. N \in Int /\ 1 \in Int /\ 1 \in 1 .. N
  OBVIOUS
<1>2. ASSUME NEW i \in 1 .. N, \A j \in i + 1 .. N : j \in S
      PROVE  i \in S
  <2>1. CASE hasNext(s, i)
    <3>1. next(s, i).word \in Seq(C) /\ next(s, i).idx \in i + 1 .. N
      BY <2>1, NextIs
    <3>2. wordsFrom(s)[next(s, i).idx] \in Seq(Seq(C))
      BY <1>2, <3>1
    <3>3. wordsFrom(s)[i] = <<next(s, i).word>> \o wordsFrom(s)[next(s, i).idx]
      BY <2>1, WordsFromIs
    <3>4. <<next(s, i).word>> \in Seq(Seq(C))
      BY <3>1
    <3> DEFINE W == wordsFrom(s)[next(s, i).idx]
               V == <<next(s, i).word>>
               T == Seq(C)
    <3> HIDE DEF N, W, V, T
    <3>5. V \in Seq(T) /\ W \in Seq(T)
      BY <3>2, <3>4 DEF W, V, T
    <3>6. V \o W \in Seq(T)
      BY <3>5, ConcatProperties
    <3>7. wordsFrom(s)[i] \in Seq(T)
      BY <3>3, <3>6 DEF W, V
    <3> QED
      BY <3>7 DEF T
  <2>2. CASE ~hasNext(s, i)
    <3>1. wordsFrom(s)[i] = <<>>
      BY <2>2, WordsFromIs
    <3> QED
      BY <3>1, EmptySeq
  <2> QED
    BY <2>1, <2>2
<1> HIDE DEF S, N
<1>3. \A i \in 1 .. N : (\A j \in i + 1 .. N : j \in S) => i \in S
  BY <1>2
<1>4. \A i \in 1 .. N : i \in S
  BY <1>1, <1>3, DownwardInduction, Zenon
<1> QED
  BY <1>1, <1>4 DEF S, N, words

\* What tokenize replaces changes no length.
LEMMA BlankedTyped ==
  ASSUME NEW C, NEW s \in Seq(C)
  PROVE  /\ blanked(s) \in Seq(C \cup {Blank})
         /\ Len(blanked(s)) = Len(s)
BY DEF blanked

LEMMA TokensTyped ==
  ASSUME NEW C, NEW s \in Seq(C)
  PROVE  tokenize(s) \in Seq(Seq(C \cup {Blank}))
BY BlankedTyped, WordsTyped DEF tokenize

-----------------------------------------------------------------------------
(* Rows                                                                    *)

USE BoundAssumption

\* Storing the texts one after the other, each over the row the one before left.
LEMMA FilledLoop ==
  ASSUME NEW columns, NEW T, NEW ts \in Seq(T)
  PROVE  \E f : /\ filled(columns, ts) = f[Len(ts)]
                /\ \A n \in 0 .. Len(ts) :
                     f[n] = IF n = 0 THEN Row(columns)
                            ELSE SetData(columns, f[n - 1], 1, ts[n][1])
<1> DEFINE N == Len(ts)
           TextStored(row, n) == SetData(columns, row, 1, ts[n][1])
           Loop(f, k) == f = [n \in 0 .. k |-> IF n = 0 THEN Row(columns)
                                               ELSE TextStored(f[n - 1], n)]
           S == {k \in Nat : \E f : Loop(f, k)}
<1>1. N \in Nat
  OBVIOUS
<1> HIDE DEF TextStored
<1>2. 0 \in S
  <2>1. Loop([n \in 0 .. 0 |-> Row(columns)], 0)
    OBVIOUS
  <2> QED
    BY <2>1
<1>3. ASSUME NEW k \in Nat, k \in S
      PROVE  k + 1 \in S
  <2>1. PICK f : Loop(f, k)
    BY <1>3
  <2> DEFINE g == [n \in 0 .. k + 1 |-> IF n = k + 1 THEN TextStored(f[k], k + 1) ELSE f[n]]
  <2>2. ASSUME NEW n \in 0 .. k + 1
        PROVE  g[n] = IF n = 0 THEN Row(columns) ELSE TextStored(g[n - 1], n)
    <3>1. n # 0 => n - 1 \in 0 .. k + 1 /\ n - 1 # k + 1 /\ g[n - 1] = f[n - 1]
      OBVIOUS
    <3>2. CASE n = k + 1
      BY <3>1, <3>2
    <3>3. CASE n # k + 1
      <4>1. n \in 0 .. k
        BY <3>3
      <4>2. f[n] = IF n = 0 THEN Row(columns) ELSE TextStored(f[n - 1], n)
        BY <2>1, <4>1
      <4> QED
        BY <3>1, <3>3, <4>2
    <3> QED
      BY <3>2, <3>3
  <2>3. g = [n \in 0 .. k + 1 |-> g[n]]
    OBVIOUS
  <2> HIDE DEF g
  <2>4. Loop(g, k + 1)
    BY <2>2, <2>3
  <2> QED
    BY <2>4
<1> HIDE DEF S
<1>4. \A k \in Nat : k \in S
  BY <1>2, <1>3, SetInduction
<1>5. \E f : Loop(f, N)
  BY <1>1, <1>4 DEF S
<1> DEFINE after == CHOOSE f : Loop(f, N)
<1>6. Loop(after, N)
  BY <1>5
<1>7. filled(columns, ts) = after[N]
  BY DEF filled, TextStored
<1> HIDE DEF after
<1>8. \A n \in 0 .. N : after[n] = IF n = 0 THEN Row(columns) ELSE TextStored(after[n - 1], n)
  BY <1>6
<1> QED
  BY <1>7, <1>8 DEF TextStored

\* The row has the columns it should have, and its first one keeps the last text.
LEMMA FilledIs ==
  ASSUME NEW columns, NEW T, NEW ts \in Seq(T)
  PROVE  /\ DOMAIN filled(columns, ts) = DOMAIN columns
         /\ 1 \in DOMAIN columns =>
              filled(columns, ts)[1] = IF ts = <<>> THEN garbage
                                       ELSE converted(GetType(columns[1]), ts[Len(ts)][1])
<1> DEFINE N == Len(ts)
<1>1. PICK f : /\ filled(columns, ts) = f[N]
               /\ \A n \in 0 .. N : f[n] = IF n = 0 THEN Row(columns)
                                      ELSE SetData(columns, f[n - 1], 1, ts[n][1])
  BY FilledLoop
<1>2. N \in Nat /\ (ts = <<>> <=> N = 0)
  OBVIOUS
<1> HIDE DEF N
<1>3. \A n \in 0 .. N : f[n] = IF n = 0 THEN Row(columns)
                               ELSE SetData(columns, f[n - 1], 1, ts[n][1])
  BY <1>1, Zenon
<1> DEFINE S == {n \in Nat : n <= N => DOMAIN f[n] = DOMAIN columns}
<1>4. 0 \in S
  BY <1>2, <1>3 DEF Row
<1>5. ASSUME NEW n \in Nat, n \in S
      PROVE  n + 1 \in S
  <2> SUFFICES ASSUME n + 1 <= N PROVE DOMAIN f[n + 1] = DOMAIN columns
    OBVIOUS
  <2>1. n + 1 \in 0 .. N /\ n + 1 # 0 /\ (n + 1) - 1 = n
    BY <1>2
  <2>2. f[n + 1] = SetData(columns, f[n], 1, ts[n + 1][1])
    BY <1>3, <2>1
  <2>3. DOMAIN f[n] = DOMAIN columns
    BY <1>2, <1>5
  <2> QED
    BY <2>2, <2>3 DEF SetData
<1> HIDE DEF S
<1>6. \A n \in Nat : n \in S
  BY <1>4, <1>5, SetInduction
<1>7. \A n \in 0 .. N : DOMAIN f[n] = DOMAIN columns
  BY <1>2, <1>6 DEF S
<1>8. DOMAIN filled(columns, ts) = DOMAIN columns
  BY <1>1, <1>2, <1>7
<1>9. ASSUME 1 \in DOMAIN columns
      PROVE  filled(columns, ts)[1] = IF ts = <<>> THEN garbage
                                      ELSE converted(GetType(columns[1]), ts[N][1])
  <2>1. CASE N = 0
    <3>1. filled(columns, ts) = Row(columns)
      BY <1>1, <1>2, <1>3, <2>1
    <3> QED
      BY <1>2, <1>9, <2>1, <3>1 DEF Row
  <2>2. CASE N # 0
    <3>1. N \in 0 .. N /\ N - 1 \in 0 .. N
      BY <1>2, <2>2
    <3>2. filled(columns, ts) = SetData(columns, f[N - 1], 1, ts[N][1])
      BY <1>1, <1>3, <2>2, <3>1
    <3>3. 1 \in DOMAIN f[N - 1]
      BY <1>7, <1>9, <3>1
    <3> QED
      BY <1>2, <2>2, <3>2, <3>3 DEF SetData
  <2> QED
    BY <2>1, <2>2
<1> QED
  BY <1>8, <1>9 DEF N

\* Two rows of columns whose types are known are equal, whatever is in them: the
\* comparison reads both sides from one operand.
LEMMA RowsEqual ==
  ASSUME NEW columns, KnownTypes(columns), NEW row, NEW other
  PROVE  row_equal(columns, row, other)
BY DEF KnownTypes, row_equal, row_less, variant_differs

-----------------------------------------------------------------------------
(* The texts of a query                                                    *)

\* The nth word of a query is a sequence.
LEMMA WordTyped ==
  ASSUME NEW q \in Query, NEW n \in Nat \ {0}
  PROVE  word(q, n) \in Seq(ToSet(q))
<1>1. q \in Seq(ToSet(q))
  BY QueryAssumption
<1>2. parsed[q] = words(q) /\ words(q) \in Seq(Seq(ToSet(q)))
  BY <1>1, WordsTyped DEF parsed
<1>3. CASE n <= Len(parsed[q])
  <2>1. parsed[q][n] \in Seq(ToSet(q))
    BY <1>2, <1>3
  <2> QED
    BY <1>3, <2>1 DEF word
<1>4. CASE ~(n <= Len(parsed[q]))
  BY <1>4, EmptySeq DEF word
<1> QED
  BY <1>3, <1>4

\* So are the texts in it.
LEMMA TextsTyped ==
  ASSUME NEW C, NEW w \in Seq(C)
  PROVE  texts(w) \in Seq(Seq(C))
<1>1. Len(w) \in Nat /\ \A i \in 2 .. Len(w) - 1 : w[i] \in C
  OBVIOUS
<1>2. inner(w) \in Seq(C)
  BY <1>1, SubSeqProperties DEF inner
<1> QED
  BY <1>2, WordsTyped DEF texts

-----------------------------------------------------------------------------
(* The invariant                                                           *)

Columns == {"kind", "keyColumns", "dataColumns", "page", "tail", "count", "data"}
IsTable(t) == DOMAIN t = Columns /\ t.kind = "table"

\* A table is there or not, under each name, and is not taken away again.
TablesInv ==
  /\ DOMAIN tables = Name /\ given = [n \in Name |-> given[n]] /\ inserted \in [Name -> Nat]
  /\ \A n \in Name : \/ tables[n] = NoTable /\ given[n] = NoInsert /\ inserted[n] = 0
                     \/ IsTable(tables[n])

\* What a GET would find is there already, before anyone asks for it.
Holds(t, last) ==
  /\ Len(last.data) = 1 /\ Fits(t)
  /\ 1 \in DOMAIN t.dataColumns /\ t.dataColumns[1] \in Numeric
  => /\ t.page = "root" /\ t.count > 0
     /\ t.data[1] = converted(t.dataColumns[1], last.data[1][1])
RowsInv == \A n \in Name : tables[n] # NoTable => Holds(tables[n], given[n])

IInv == TypeOK /\ TablesInv /\ RowsInv /\ InsertsSurvive /\ GetFindsLastInsert

\* Nothing found and no table touched: what a death, a failure and a query
\* without effect come to.
LEMMA NothingFound ==
  ASSUME IInv, files' \in 0 .. MaxFiles, got' = Nothing, UNCHANGED <<tables, given, inserted>>
  PROVE  IInv'
<1>1. TypeOK'
  BY DEF IInv, TypeOK
<1>2. TablesInv'
  BY DEF IInv, TablesInv
<1>3. RowsInv' /\ InsertsSurvive'
  BY DEF IInv, RowsInv, InsertsSurvive
<1>4. GetFindsLastInsert'
  BY DEF GetFindsLastInsert
<1> QED
  BY <1>1, <1>2, <1>3, <1>4 DEF IInv

\* One table changed, for one that has the row its last insert left in slot 0 and
\* has lost no pair.
LEMMA OneTable ==
  ASSUME IInv, files' \in 0 .. MaxFiles, got' = Nothing,
         NEW n \in Name, NEW t,
         tables' = [tables EXCEPT ![n] = t],
         IsTable(t), t.page \in PageStates, t.tail \in BOOLEAN, t.count \in 0 .. MaxInserts,
         DOMAIN t.data = DOMAIN t.dataColumns,
         NEW g, given' = [given EXCEPT ![n] = g], Holds(t, g),
         NEW k \in Nat, inserted' = [inserted EXCEPT ![n] = k],
         k > 0 => t.page = "root" /\ t.count >= k
  PROVE  IInv'
<1>1. DOMAIN tables' = Name /\ tables'[n] = t /\ \A m \in Name \ {n} : tables'[m] = tables[m]
  BY DEF IInv, TablesInv
<1>2. DOMAIN given' = Name /\ given'[n] = g /\ \A m \in Name \ {n} : given'[m] = given[m]
  BY DEF IInv, TablesInv
<1>3. /\ DOMAIN inserted' = Name /\ inserted'[n] = k
      /\ \A m \in Name \ {n} : inserted'[m] = inserted[m]
  BY DEF IInv, TablesInv
<1>4. t # NoTable
  BY DEF IsTable, NoTable
<1>5. TypeOK'
  BY <1>1 DEF IInv, TypeOK
<1>6. TablesInv'
  BY <1>1, <1>2, <1>3 DEF IInv, TablesInv
<1>7. RowsInv'
  <2> SUFFICES ASSUME NEW m \in Name, tables'[m] # NoTable
               PROVE  Holds(tables'[m], given'[m])
    BY DEF RowsInv, Holds, Fits, nSlots
  <2>1. CASE m = n
    BY <1>1, <1>2, <2>1
  <2>2. CASE m # n
    BY <1>1, <1>2, <2>2 DEF IInv, RowsInv
  <2> QED
    BY <2>1, <2>2
<1>8. InsertsSurvive'
  BY <1>1, <1>3, <1>4 DEF IInv, InsertsSurvive
<1>9. GetFindsLastInsert'
  BY DEF GetFindsLastInsert
<1> QED
  BY <1>5, <1>6, <1>7, <1>8, <1>9 DEF IInv

LEMMA InitInv == Init => IInv
<1> SUFFICES ASSUME Init PROVE IInv
  OBVIOUS
<1>1. TypeOK
  BY DEF Init, TypeOK
<1>2. TablesInv
  BY DEF Init, TablesInv
<1>3. RowsInv
  BY DEF Init, RowsInv
<1>4. InsertsSurvive
  BY DEF Init, InsertsSurvive
<1>5. GetFindsLastInsert
  BY DEF Init, GetFindsLastInsert
<1> QED
  BY <1>1, <1>2, <1>3, <1>4, <1>5 DEF IInv

LEMMA DieInv == ASSUME IInv, Die PROVE IInv'
<1>1. files' \in 0 .. MaxFiles
  BY BoundAssumption DEF Die, NewProcess
<1> QED
  BY <1>1, NothingFound DEF Die, NewProcess

\* With nothing inserted, or interrupted, nothing is claimed of the row.
LEMMA HoldsNothing == ASSUME NEW t PROVE Holds(t, NoInsert)
BY DEF Holds, NoInsert

LEMMA CreateTableInv ==
  ASSUME IInv, NEW q \in Query, CreateTable(q)
  PROVE  IInv'
<1> DEFINE n == name(q)
           columns == [i \in DOMAIN tokenize(dataStr(q)) |-> tokenize(dataStr(q))[i][1]]
           keys == [i \in DOMAIN tokenize(keyStr(q)) |-> tokenize(keyStr(q))[i][1]]
           t == [kind |-> "table", keyColumns |-> keys, dataColumns |-> columns,
                 page |-> "none", tail |-> FALSE, count |-> 0, data |-> Row(columns)]
<1>1. /\ n \in Name /\ tables[n] = NoTable /\ files < MaxFiles
      /\ tables' = [tables EXCEPT ![n] = t]
      /\ files' = files + 1 /\ got' = Nothing /\ given' = given /\ inserted' = inserted
  BY DEF CreateTable, Opened
<1> HIDE DEF columns, keys
<1>2. /\ IsTable(t) /\ t.page \in PageStates /\ t.tail \in BOOLEAN
      /\ t.count \in 0 .. MaxInserts /\ DOMAIN t.data = DOMAIN t.dataColumns
  BY BoundAssumption DEF IsTable, Columns, PageStates, Row
<1> HIDE DEF t, n
<1>3. given[n] = NoInsert /\ inserted[n] = 0
  BY <1>1 DEF IInv, TablesInv, NoTable, IsTable
<1>4. given' = [given EXCEPT ![n] = NoInsert] /\ inserted' = [inserted EXCEPT ![n] = inserted[n]]
  BY <1>1, <1>3 DEF IInv, TablesInv
<1>5. files' \in 0 .. MaxFiles
  BY <1>1 DEF IInv, TypeOK
<1>6. Holds(t, NoInsert)
  BY HoldsNothing
<1>7. inserted[n] \in Nat /\ ~(inserted[n] > 0)
  BY <1>3
<1> QED
  BY <1>1, <1>2, <1>4, <1>5, <1>6, <1>7, OneTable

\* The table of an INSERT that has a place for one more pair.
LEMMA InsertsInto ==
  ASSUME IInv, NEW q \in Query, Asked(q), Inserts(q)
  PROVE  LET n == name(q)
             t == tables[n]
         IN /\ n \in Name /\ IsTable(t)
            /\ t.page \in PageStates \ {"broken"} /\ t.tail \in BOOLEAN
            /\ t.count \in 0 .. MaxInserts /\ t.count + 1 <= MaxInserts
            /\ DOMAIN t.data = DOMAIN t.dataColumns
            /\ HasPages(t) => CanMapPage
            /\ given[n] = given[n] /\ inserted[n] \in Nat
            /\ inserted[n] > 0 => t.page = "root" /\ t.count >= inserted[n]
            /\ Holds(t, given[n])
<1> DEFINE n == name(q)
           t == tables[n]
<1>1. n \in Name /\ t # NoTable /\ kind(q) = <<"INSERT">> /\ CanOpen(q)
      /\ t.page # "broken" /\ (HasPages(t) => CanMapPage)
  BY DEF Inserts, Opens, OpensPages, CanOpen
<1>2. IsTable(t) /\ inserted[n] \in Nat
  BY <1>1 DEF IInv, TablesInv
<1>3. /\ t.page \in PageStates /\ t.tail \in BOOLEAN /\ t.count \in 0 .. MaxInserts
      /\ DOMAIN t.data = DOMAIN t.dataColumns
  BY <1>1 DEF IInv, TypeOK
<1>4. t.count # MaxInserts
  BY <1>1 DEF Asked
<1>5. t.count + 1 <= MaxInserts
  BY <1>3, <1>4, BoundAssumption
<1>6. inserted[n] > 0 => t.page = "root" /\ t.count >= inserted[n]
  BY <1>1 DEF IInv, InsertsSurvive
<1>7. Holds(t, given[n])
  BY <1>1 DEF IInv, RowsInv
<1> HIDE DEF t, n
<1>8. t.page \in PageStates \ {"broken"}
  BY <1>1, <1>3
<1> QED
  BY <1>1, <1>2, <1>3, <1>5, <1>6, <1>7, <1>8 DEF t, n

LEMMA PageFailsInv ==
  ASSUME IInv, NEW q \in Query, Asked(q), PageFails(q)
  PROVE  IInv'
<1> DEFINE n == name(q)
           t == tables[n]
           u == [t EXCEPT !.page = IF @ = "none" THEN "broken" ELSE "free"]
<1>1. /\ Inserts(q) /\ ~CanMapPage
      /\ tables' = [tables EXCEPT ![n].page = IF @ = "none" THEN "broken" ELSE "free"]
      /\ files' = 0 /\ got' = Nothing /\ given' = given /\ inserted' = inserted
  BY DEF PageFails, NewProcess
<1>2. /\ n \in Name /\ IsTable(t) /\ t.tail \in BOOLEAN /\ t.count \in 0 .. MaxInserts
      /\ DOMAIN t.data = DOMAIN t.dataColumns /\ inserted[n] \in Nat
      /\ HasPages(t) => CanMapPage
      /\ inserted[n] > 0 => t.page = "root"
      /\ Holds(t, given[n])
  BY <1>1, InsertsInto
<1>3. t.page # "root"
  BY <1>1, <1>2 DEF HasPages
<1>4. inserted[n] \in Nat /\ ~(inserted[n] > 0)
  BY <1>2, <1>3
<1>5. tables' = [tables EXCEPT ![n] = u]
  BY <1>1, <1>2 DEF IInv, TablesInv
<1>6. given' = [given EXCEPT ![n] = given[n]] /\ inserted' = [inserted EXCEPT ![n] = inserted[n]]
  BY <1>1 DEF IInv, TablesInv
<1>7. files' \in 0 .. MaxFiles
  BY <1>1, BoundAssumption
<1>8. /\ IsTable(u) /\ u.page \in PageStates /\ u.tail = t.tail /\ u.count = t.count
      /\ u.data = t.data /\ u.dataColumns = t.dataColumns /\ u.keyColumns = t.keyColumns
  BY <1>2 DEF IsTable, Columns, PageStates
<1> HIDE DEF u, t
<1>9. Holds(u, given[n])
  BY <1>2, <1>3, <1>8 DEF Holds, Fits, nSlots
<1> HIDE DEF n
<1> QED
  BY <1>1, <1>2, <1>4, <1>5, <1>6, <1>7, <1>8, <1>9, OneTable

\* The root that an INSERT finds or makes has lost no pair.
LEMMA RootedIs ==
  ASSUME NEW t, IsTable(t), t.tail \in BOOLEAN, NEW k \in Nat,
         t.count \in Nat, k > 0 => t.page = "root" /\ t.count >= k
  PROVE  /\ IsTable(Rooted(t)) /\ Rooted(t).page = "root" /\ Rooted(t).tail \in BOOLEAN
         /\ Rooted(t).count \in 0 .. t.count /\ Rooted(t).count >= k
         /\ Rooted(t).data = t.data
         /\ Rooted(t).dataColumns = t.dataColumns /\ Rooted(t).keyColumns = t.keyColumns
<1>1. CASE AllocatesPage(t)
  <2>1. Rooted(t) = [t EXCEPT !.page = "root", !.tail = TRUE, !.count = 0]
    BY <1>1 DEF Rooted
  <2>2. k = 0
    BY <1>1 DEF AllocatesPage
  <2> QED
    BY <2>1, <2>2 DEF IsTable, Columns
<1>2. CASE ~AllocatesPage(t)
  <2>1. Rooted(t) = t /\ t.page = "root"
    BY <1>2 DEF Rooted, AllocatesPage
  <2>2. t.count >= k
    OBVIOUS
  <2> QED
    BY <2>1, <2>2
<1> QED
  BY <1>1, <1>2

LEMMA InsertPairInv ==
  ASSUME IInv, NEW q \in Query, Asked(q), InsertPair(q)
  PROVE  IInv'
<1> DEFINE n == name(q)
           t == tables[n]
           r == Rooted(t)
           ks == texts(keyStr(q))
           ts == texts(dataStr(q))
           row == filled(r.dataColumns, ts)
           g == [key |-> ks, data |-> ts]
           k == inserted[n] + 1
<1>1. /\ Inserts(q) /\ CanMapPage
      /\ given' = [given EXCEPT ![n] = g]
      /\ inserted' = [inserted EXCEPT ![n] = @ + 1]
      /\ files' = files + 1 /\ got' = Nothing
  BY DEF InsertPair, Opened
<1>2. PICK data \in Stored(r, row) :
        tables' = [tables EXCEPT ![n] = [r EXCEPT !.count = @ + 1, !.data = data]]
  BY DEF InsertPair
<1> DEFINE u == [r EXCEPT !.count = @ + 1, !.data = data]
<1>3. /\ n \in Name /\ IsTable(t) /\ t.tail \in BOOLEAN
      /\ t.count \in 0 .. MaxInserts /\ t.count + 1 <= MaxInserts
      /\ inserted[n] \in Nat
      /\ inserted[n] > 0 => t.page = "root" /\ t.count >= inserted[n]
  BY <1>1, InsertsInto
<1>4. files < MaxFiles
  BY <1>1 DEF Inserts, Opens, CanOpen
<1>5. files' \in 0 .. MaxFiles
  BY <1>1, <1>4 DEF IInv, TypeOK
<1>6. ts \in Seq(Seq(ToSet(q)))
  BY WordTyped, TextsTyped DEF dataStr
<1>7. /\ DOMAIN row = DOMAIN r.dataColumns
      /\ 1 \in DOMAIN r.dataColumns =>
           row[1] = IF ts = <<>> THEN garbage
                    ELSE converted(GetType(r.dataColumns[1]), ts[Len(ts)][1])
  <2> HIDE DEF ts, r
  <2> QED
    BY <1>6, FilledIs
<1>8. k \in Nat /\ k > 0
  BY <1>3
<1>9. inserted' = [inserted EXCEPT ![n] = k]
  BY <1>1, <1>3 DEF IInv, TablesInv
<1> HIDE DEF t, ts, ks, row
<1>10. /\ IsTable(r) /\ r.page = "root" /\ r.tail \in BOOLEAN
       /\ r.count \in 0 .. t.count /\ r.count >= inserted[n]
  BY <1>3, RootedIs
<1> HIDE DEF r
<1>11. /\ IsTable(u) /\ u.page = "root" /\ u.tail \in BOOLEAN
       /\ u.count = r.count + 1 /\ u.data = data
       /\ u.dataColumns = r.dataColumns /\ u.keyColumns = r.keyColumns
  BY <1>10 DEF IsTable, Columns
<1>12. Fits(u) = Fits(r)
  BY <1>11 DEF Fits, nSlots
<1>13. DOMAIN data = DOMAIN u.dataColumns
  BY <1>2, <1>7, <1>11 DEF Stored, Row
<1>14. Fits(r) => data = row
  BY <1>2 DEF Stored
<1>15. u.count \in 0 .. MaxInserts /\ u.count >= k /\ u.count > 0
  BY <1>3, <1>10, <1>11, BoundAssumption
<1> HIDE DEF u
<1>16. Holds(u, g)
  <2> SUFFICES ASSUME Len(ts) = 1, Fits(u), 1 \in DOMAIN u.dataColumns,
                      u.dataColumns[1] \in Numeric
               PROVE  u.data[1] = converted(u.dataColumns[1], ts[1][1])
    BY <1>11, <1>15 DEF Holds
  <2>1. GetType(u.dataColumns[1]) = u.dataColumns[1]
    BY DEF GetType, Numeric
  <2>2. u.data = row /\ 1 \in DOMAIN r.dataColumns
    BY <1>11, <1>12, <1>14
  <2>3. Len(<<>>) = 0
    BY EmptySeq
  <2>4. ts # <<>> /\ Len(ts) = 1
    BY <2>3
  <2> QED
    BY <1>7, <1>11, <2>1, <2>2, <2>4
<1>17. tables' = [tables EXCEPT ![n] = u]
  BY <1>2 DEF u
<1>18. u.page \in PageStates
  BY <1>11 DEF PageStates
<1> HIDE DEF n, g, k
<1> QED
  BY <1>1, <1>3, <1>5, <1>8, <1>9, <1>11, <1>13, <1>15, <1>16, <1>17, <1>18, OneTable

\* Whatever stores an interrupted INSERT has made, it leaves a table that has
\* lost none of the pairs counted.
LEMMA OutcomesKeep ==
  ASSUME NEW t, IsTable(t), t.page \in PageStates \ {"broken"}, t.tail \in BOOLEAN,
         t.count \in 0 .. MaxInserts, t.count + 1 <= MaxInserts,
         DOMAIN t.data = DOMAIN t.dataColumns,
         NEW k \in Nat, k > 0 => t.page = "root" /\ t.count >= k,
         NEW row, DOMAIN row = DOMAIN t.dataColumns,
         NEW u \in Outcomes(t, row)
  PROVE  /\ IsTable(u) /\ u.page \in PageStates /\ u.tail \in BOOLEAN
         /\ u.count \in 0 .. MaxInserts /\ DOMAIN u.data = DOMAIN u.dataColumns
         /\ k > 0 => u.page = "root" /\ u.count >= k
<1> DEFINE r == Rooted(t)
<1>1. /\ IsTable(r) /\ r.page = "root" /\ r.tail \in BOOLEAN
      /\ r.count \in 0 .. t.count /\ r.count >= k
      /\ r.data = t.data /\ r.dataColumns = t.dataColumns
  BY RootedIs
<1>2. r.count \in 0 .. MaxInserts /\ r.count + 1 \in 0 .. MaxInserts /\ r.count + 1 >= k
  BY <1>1, BoundAssumption
<1>3. DOMAIN Row(t.dataColumns) = DOMAIN t.dataColumns
  BY DEF Row
<1> HIDE DEF r
<1>4. \/ \E p \in PageSteps[t.page] : u = [t EXCEPT !.page = p]
      \/ u = [r EXCEPT !.tail = t.tail]
      \/ u = r
      \/ \E d \in {Row(t.dataColumns), row} : u = [r EXCEPT !.data = d]
      \/ \E d \in {Row(t.dataColumns), row} : u = [r EXCEPT !.data = d, !.count = @ + 1]
  BY DEF Outcomes, Stored, r
<1>5. CASE \E p \in PageSteps[t.page] : u = [t EXCEPT !.page = p]
  <2>1. PICK p \in PageSteps[t.page] : u = [t EXCEPT !.page = p]
    BY <1>5
  <2>2. p \in PageStates /\ (t.page = "root" => p = "root")
    BY DEF PageSteps, PageStates
  <2> QED
    BY <2>1, <2>2 DEF IsTable, Columns
<1>6. CASE u = [r EXCEPT !.tail = t.tail]
  BY <1>1, <1>2, <1>6 DEF IsTable, Columns, PageStates
<1>7. CASE u = r
  BY <1>1, <1>2, <1>7 DEF PageStates
<1>8. CASE \E d \in {Row(t.dataColumns), row} : u = [r EXCEPT !.data = d]
  BY <1>1, <1>2, <1>3, <1>8 DEF IsTable, Columns, PageStates
<1>9. CASE \E d \in {Row(t.dataColumns), row} : u = [r EXCEPT !.data = d, !.count = @ + 1]
  BY <1>1, <1>2, <1>3, <1>9 DEF IsTable, Columns, PageStates
<1> QED
  BY <1>4, <1>5, <1>6, <1>7, <1>8, <1>9

LEMMA InterruptedInv ==
  ASSUME IInv, NEW q \in Query, Asked(q), Interrupted(q)
  PROVE  IInv'
<1> DEFINE n == name(q)
           t == tables[n]
           ts == texts(dataStr(q))
           row == filled(t.dataColumns, ts)
           k == inserted[n]
<1>1. /\ Inserts(q) /\ files' = 0 /\ got' = Nothing
      /\ given' = [given EXCEPT ![n] = NoInsert] /\ inserted' = inserted
  BY DEF Interrupted, NewProcess
<1>2. PICK u \in Outcomes(t, row) : tables' = [tables EXCEPT ![n] = u]
  BY DEF Interrupted
<1>3. /\ n \in Name /\ IsTable(t) /\ t.page \in PageStates \ {"broken"} /\ t.tail \in BOOLEAN
      /\ t.count \in 0 .. MaxInserts /\ t.count + 1 <= MaxInserts
      /\ DOMAIN t.data = DOMAIN t.dataColumns /\ k \in Nat
      /\ k > 0 => t.page = "root" /\ t.count >= k
  BY <1>1, InsertsInto
<1>4. ts \in Seq(Seq(ToSet(q)))
  BY WordTyped, TextsTyped DEF dataStr
<1>5. DOMAIN row = DOMAIN t.dataColumns
  <2> HIDE DEF ts, t
  <2> QED
    BY <1>4, FilledIs
<1>6. files' \in 0 .. MaxFiles
  BY <1>1, BoundAssumption
<1>7. inserted' = [inserted EXCEPT ![n] = k]
  BY <1>1, <1>3 DEF IInv, TablesInv
<1> HIDE DEF n, t, row, k
<1>8. /\ IsTable(u) /\ u.page \in PageStates /\ u.tail \in BOOLEAN
      /\ u.count \in 0 .. MaxInserts /\ DOMAIN u.data = DOMAIN u.dataColumns
      /\ k > 0 => u.page = "root" /\ u.count >= k
  BY <1>3, <1>5, OutcomesKeep
<1>9. Holds(u, NoInsert)
  BY HoldsNothing
<1> QED
  BY <1>1, <1>2, <1>3, <1>6, <1>7, <1>8, <1>9, OneTable

LEMMA FindInv ==
  ASSUME IInv, NEW q \in Query, Find(q)
  PROVE  IInv'
<1> DEFINE n == name(q)
           t == tables[n]
           ks == texts(keyStr(q))
           key == filled(t.keyColumns, ks)
           other == Row(t.dataColumns)
<1>1. /\ CanOpen(q) /\ files' = files + 1
      /\ tables' = tables /\ given' = given /\ inserted' = inserted
  BY DEF Find, Opened, Gets, Opens
<1>2. PICK row \in IF hits(q) \/ t.count = 0
                   THEN (IF Fits(t) THEN {t.data} ELSE {t.data, other}) ELSE {other} :
        got' = [name |-> n, key |-> ks, hit |-> hits(q), row |-> row]
  BY DEF Find
<1>3. n \in Name /\ t # NoTable /\ files < MaxFiles
  BY <1>1 DEF CanOpen
<1>4. got'.name = n /\ got'.hit = hits(q) /\ got'.row = row
  BY <1>2
<1>5. TypeOK'
  BY <1>1, <1>3, <1>4 DEF IInv, TypeOK
<1>6. TablesInv'
  BY <1>1 DEF IInv, TablesInv
<1>7. RowsInv' /\ InsertsSurvive'
  BY <1>1 DEF IInv, RowsInv, InsertsSurvive
<1>8. KnownTypes(t.keyColumns) => row_equal(t.keyColumns, key, Row(t.keyColumns))
  BY RowsEqual
<1>9. KnownTypes(t.keyColumns) /\ t.page = "root" /\ t.count > 0 => hits(q)
  BY <1>8 DEF hits
<1>10. hits(q) /\ Fits(t) => row = t.data
  BY <1>2
<1>11. Holds(t, given[n])
  BY <1>3 DEF IInv, RowsInv
<1> HIDE DEF t, n
<1>12. GetFindsLastInsert'
  <2> SUFFICES ASSUME Len(given[n].data) = 1, KnownTypes(t.keyColumns), Fits(t),
                      1 \in DOMAIN t.dataColumns, t.dataColumns[1] \in Numeric
               PROVE  hits(q) /\ row[1] = converted(t.dataColumns[1], given[n].data[1][1])
    BY <1>1, <1>4 DEF GetFindsLastInsert, t
  <2> QED
    BY <1>9, <1>10, <1>11 DEF Holds
<1> QED
  BY <1>5, <1>6, <1>7, <1>12 DEF IInv

LEMMA OpensOnlyInv ==
  ASSUME IInv, NEW q \in Query, OpensOnly(q)
  PROVE  IInv'
<1>1. files' \in 0 .. MaxFiles
  BY DEF OpensOnly, Opens, Opened, CanOpen, IInv, TypeOK
<1> QED
  BY <1>1, NothingFound DEF OpensOnly

LEMMA NoEffectInv ==
  ASSUME IInv, NEW q \in Query, NoEffect(q)
  PROVE  IInv'
<1>1. files' \in 0 .. MaxFiles
  BY DEF NoEffect, IInv, TypeOK
<1> QED
  BY <1>1, NothingFound DEF NoEffect

LEMMA NextInv == IInv /\ [Next]_vars => IInv'
<1> SUFFICES ASSUME IInv, [Next]_vars PROVE IInv'
  OBVIOUS
<1>1. ASSUME NEW q \in Query, Asked(q), CreateTable(q) PROVE IInv'
  BY <1>1, CreateTableInv
<1>2. ASSUME NEW q \in Query, Asked(q), PageFails(q) PROVE IInv'
  BY <1>2, PageFailsInv
<1>3. ASSUME NEW q \in Query, Asked(q), InsertPair(q) PROVE IInv'
  BY <1>3, InsertPairInv
<1>4. ASSUME NEW q \in Query, Asked(q), Interrupted(q) PROVE IInv'
  BY <1>4, InterruptedInv
<1>5. ASSUME NEW q \in Query, Asked(q), Find(q) PROVE IInv'
  BY <1>5, FindInv
<1>6. ASSUME NEW q \in Query, Asked(q), OpensOnly(q) PROVE IInv'
  BY <1>6, OpensOnlyInv
<1>7. ASSUME NEW q \in Query, Asked(q), NoEffect(q) PROVE IInv'
  BY <1>7, NoEffectInv
<1>8. ASSUME NEW q \in Query,
             CreateAgain(q) \/ OpenFails(q) \/ OpenDies(q) \/ Smashes(q) \/ FindDies(q)
      PROVE  IInv'
  BY <1>8, DieInv DEF CreateAgain, OpenFails, OpenDies, Smashes, FindDies
<1>9. CASE Killed
  BY <1>9, DieInv DEF Killed
<1>10. CASE UNCHANGED vars
  <2>1. UNCHANGED <<tables, files, got, given, inserted>>
    BY <1>10 DEF vars
  <2>2. TypeOK'
    BY <2>1 DEF IInv, TypeOK
  <2>3. TablesInv'
    BY <2>1 DEF IInv, TablesInv
  <2>4. RowsInv' /\ InsertsSurvive' /\ GetFindsLastInsert'
    BY <2>1 DEF IInv, RowsInv, InsertsSurvive, GetFindsLastInsert
  <2> QED
    BY <2>2, <2>3, <2>4 DEF IInv
<1> QED
  BY <1>1, <1>2, <1>3, <1>4, <1>5, <1>6, <1>7, <1>8, <1>9, <1>10 DEF Next, Ask

\* The invariant is one.
THEOREM Invariance == Spec => []IInv
<1>1. Init => IInv
  BY InitInv
<1>2. IInv /\ [Next]_vars => IInv'
  BY NextInv
<1> QED
  BY <1>1, <1>2, PTL DEF Spec

\* Every table keeps a row of the columns it was created with and a count in
\* its bounds, the process never has more descriptors than it may, and what a
\* GET found is of a table that exists, however many names, tables and queries
\* there are.
THEOREM TypeCorrect == Spec => []TypeOK
<1>1. IInv => TypeOK
  BY DEF IInv
<1> QED
  BY <1>1, Invariance, PTL

\* A GET with the key of the last INSERT finds its text of data in the first
\* column, as its type keeps it, whatever the words of the queries, the columns of
\* the table, the sizes of a page and the bound on descriptors, whatever deaths
\* and failed opens were in between, and unless an INSERT was interrupted.
THEOREM FindsTheLastInsert == Spec => []GetFindsLastInsert
<1>1. IInv => GetFindsLastInsert
  BY DEF IInv
<1> QED
  BY <1>1, Invariance, PTL

\* However many INSERTs return, die at whichever store or find no descriptor for
\* the page, a table that has counted one keeps its root and its count.
THEOREM InsertsAreKept == Spec => []InsertsSurvive
<1>1. IInv => InsertsSurvive
  BY DEF IInv
<1> QED
  BY <1>1, Invariance, PTL
=============================================================================
