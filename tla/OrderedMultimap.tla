-------------------------- MODULE OrderedMultimap --------------------------
(***************************************************************************)
(* What the B+ tree promises: a sequence of key/data pairs sorted by key,  *)
(* and calls that each take effect in one step between their start and     *)
(* their return.                                                           *)
(*                                                                         *)
(* A new pair comes before the pairs with the same key; erase_one takes    *)
(* the first pair with the key, erase(key) one after the other until none  *)
(* is left, and erase(iterator) some pair with the iterator's key.         *)
(***************************************************************************)
EXTENDS Naturals, FiniteSets, SequencesExt

CONSTANTS Calls,      \* records with a kind and a key, an insert also with data
          NoCall

VARIABLES items,
          call,       \* the call in progress, or NoCall
          effect      \* what it did: "none" so far, "hit", or "miss"

mapVars == <<items, call, effect>>

\* How many pairs come before the place of key.
Rank(key) == Cardinality({i \in DOMAIN items : items[i].key < key})

Present(key) == \E i \in DOMAIN items : items[i].key = key

Init == items = <<>> /\ call = NoCall /\ effect = "none"

Begin(c) ==
  /\ call = NoCall
  /\ call' = c
  /\ UNCHANGED <<items, effect>>

Pending(kinds) == call # NoCall /\ effect = "none" /\ call.kind \in kinds

Insert ==
  /\ Pending({"insert"})
  /\ items' = InsertAt(items, Rank(call.key) + 1, [key |-> call.key, data |-> call.data])
  /\ effect' = "hit"
  /\ UNCHANGED call

EraseFirst ==
  /\ Pending({"erase_one", "erase"})
  /\ Present(call.key)
  /\ items' = RemoveAt(items, Rank(call.key) + 1)
  /\ effect' = "hit"
  /\ UNCHANGED call

EraseSome ==
  /\ Pending({"erase_iter"})
  /\ \E i \in DOMAIN items :
       /\ items[i].key = call.key
       /\ items' = RemoveAt(items, i)
  /\ effect' = "hit"
  /\ UNCHANGED call

Miss ==
  /\ Pending({"erase_one", "erase"})
  /\ ~Present(call.key)
  /\ effect' = "miss"
  /\ UNCHANGED <<items, call>>

\* The next round of erase(key).
Again ==
  /\ call # NoCall /\ call.kind = "erase" /\ effect = "hit"
  /\ effect' = "none"
  /\ UNCHANGED <<items, call>>

Return ==
  /\ call # NoCall /\ effect # "none"
  /\ call.kind = "erase" => ~Present(call.key)
  /\ call' = NoCall /\ effect' = "none"
  /\ UNCHANGED items

Clear ==
  /\ call = NoCall
  /\ items' = <<>>
  /\ UNCHANGED <<call, effect>>

Next ==
  \/ \E c \in Calls : Begin(c)
  \/ Insert \/ EraseFirst \/ EraseSome \/ Miss \/ Again \/ Return
  \/ Clear

Spec == Init /\ [][Next]_mapVars
=============================================================================
