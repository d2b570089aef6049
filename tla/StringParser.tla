---------------------------- MODULE StringParser ----------------------------
(***************************************************************************)
(* StringParser of string_utils.h: how a query is cut into words.  A string *)
(* is a sequence of characters; positions count from 1.                    *)
(***************************************************************************)
EXTENDS Integers, Sequences, FiniteSetsExt

CONSTANTS Blank, Quote,        \* ' ' and '\''
          Alnum                \* the letters and digits among the characters

\* The first position from i on where P holds, else the one behind the end.
FirstOf(s, i, chars) == Min({j \in i .. Len(s) : s[j] \in chars} \cup {Max({i, Len(s) + 1})})

\* hasNext moves m_idx over blanks.
SkipBlanks(s, i) == FirstOf(s, i, {s[j] : j \in DOMAIN s} \ {Blank})
hasNext(s, i) == SkipBlanks(s, i) <= Len(s)

\* The word next returns and the m_idx it leaves: a word ends at the next
\* blank, or at the next quote when it begins with one, or at the end.
nextBeyond(s, i) ==   \* mutant: the character behind the word is lost
  LET b == SkipBlanks(s, i)
      quoted == s[b] = Quote
      from == IF quoted THEN b + 1 ELSE b
      end == FirstOf(s, from, {IF quoted THEN Quote ELSE Blank})
  IN IF b > Len(s) THEN [word |-> <<>>, idx |-> b]
     ELSE [word |-> SubSeq(s, from, end - 1), idx |-> end + 2]
next(s, i) ==
  LET b == SkipBlanks(s, i)
      quoted == s[b] = Quote
      from == IF quoted THEN b + 1 ELSE b
      end == FirstOf(s, from, {IF quoted THEN Quote ELSE Blank})
  IN IF b > Len(s) THEN [word |-> <<>>, idx |-> b]
     ELSE [word |-> SubSeq(s, from, end - 1), idx |-> end + 1]

\* What while (hasNext()) ... next() goes through, from each m_idx.
wordsFrom(s) ==
  LET from[i \in 1 .. Len(s) + 3] ==
        IF hasNext(s, i) THEN <<next(s, i).word>> \o from[next(s, i).idx] ELSE <<>>
  IN from
words(s) == wordsFrom(s)[1]

\* tokenize: what is not alphanumeric becomes a blank.
blanked(s) == [i \in DOMAIN s |-> IF s[i] \in Alnum THEN s[i] ELSE Blank]
tokenize(s) == words(blanked(s))
=============================================================================
