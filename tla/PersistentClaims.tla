-------------------------- MODULE PersistentClaims --------------------------
(***************************************************************************)
(* What README.md says of the tree in the file, as a property of           *)
(* PersistentTree; it is violated.                                         *)
(***************************************************************************)
EXTENDS PersistentTree

VARIABLE keys                  \* history: the keys of inserts that returned

claimVars == <<vars, keys>>

ClaimInit == Init /\ keys = {}
ClaimNext ==
  \/ Next /\ ~InsertReturn /\ UNCHANGED keys
  \/ InsertReturn /\ keys' = keys \cup {key}
ClaimSpec == ClaimInit /\ [][ClaimNext]_claimVars

\* iterator::operator++ in a leaf without a next one; a slot past the last pair
\* is End().
Advance(slot) == IF slot + 1 < Use THEN slot + 1 ELSE Use
Visited ==
  LET at[n \in Nat] == IF n = 0 THEN 0 ELSE Advance(at[n - 1])
  IN {at[n] : n \in 0 .. Use} \ {Use}

-----------------------------------------------------------------------------
\* README.md:11, the tree "keeps data sorted and allows searches, sequantial
\* access": as long as no process died, iterating over an open table meets the
\* key of every insert that returned.  SetKey stores a key where GetKey does not
\* look for it (MemoryPage.cpp:72 and 54), also in slot 0 of an empty leaf.
KeysReadBack ==
  Idle /\ isOpen /\ deaths = 0 /\ m_rootId # NoPage =>
    \A k \in keys : \E slot \in Visited : keyAt(slot) = Image(k, KeySize)
=============================================================================
