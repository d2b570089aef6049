------------------------------ MODULE MC_BTree ------------------------------
(***************************************************************************)
(* BTree driven by the calls of a script, then by any few calls.           *)
(***************************************************************************)
EXTENDS BTreeProperties

CONSTANTS Families,       \* sets of scripts, of the form below
          ExtraKeys       \* the keys of the free calls

VARIABLES script, budget

\* A family inserts prime - 1 pairs, copies for each key, by the multiples of
\* one of inserts, erases by those of one of erases until drainTo are left, and
\* then makes extra free calls.
Family(prime, copies, inserts, erases, drainTo, extra) ==
  [prime |-> prime, copies |-> copies, inserts |-> inserts, erases |-> erases,
   drainTo |-> drainTo, extra |-> extra]

AllOrders    == Family(19, 1, 1 .. 18, 1 .. 18, 0, 0)
WideOrders   == Family(19, 1, {1, 5, 18}, 1 .. 18, 0, 0)
Duplicates   == Family(13, 3, {1, 5}, {1, 5}, 10, 3)
Ascending    == Family(23, 1, {1}, {5, 22}, 0, 2)
CallFamilies == {AllOrders, Duplicates}
WideFamilies == {WideOrders}
DeepFamilies == {Ascending}

\* The numbers a, 2a, 3a, ... modulo the prime, as keys that occur so many times.
Order(f, a) == [i \in 1 .. f.prime - 1 |-> ((i * a) % f.prime) \div f.copies]

Calls(kind, keys) == [i \in DOMAIN keys |-> [kind |-> kind, key |-> keys[i]]]

Script(f, a, b) ==
  Calls("insert", Order(f, a)) \o
    SubSeq(Calls("erase_one", Order(f, b)), 1, f.prime - 1 - f.drainTo)

KeysUsed == 0 .. 22
Nodes    == 1 .. 19

SomeData == CHOOSE d \in Data : TRUE

MCInit ==
  /\ Init
  /\ \E f \in Families :
       /\ \E a \in f.inserts, b \in f.erases : script = Script(f, a, b)
       /\ budget = f.extra

Scripted ==
  /\ script # <<>>
  /\ \/ Head(script).kind = "insert" /\ InsertStart(Head(script).key, SomeData)
     \/ Head(script).kind = "erase_one" /\ EraseStart("erase_one", Head(script).key)
  /\ script' = Tail(script)
  /\ UNCHANGED budget

Free ==
  /\ script = <<>> /\ budget > 0
  /\ \/ \E key \in ExtraKeys, data \in Data : InsertStart(key, data)
     \/ \E key \in ExtraKeys, kind \in KeyKinds : EraseStart(kind, key)
     \/ \E leaf \in NodeId, slot \in 0 .. leafslotmax - 1 : EraseIterStart(leaf, slot)
     \/ Clear
  /\ budget' = budget - 1
  /\ UNCHANGED script

Running == Step /\ UNCHANGED <<script, budget>>

MCNext == Scripted \/ Free \/ Running

mcVars == <<vars, script, budget>>

MCSpec == MCInit /\ [][MCNext]_mcVars /\ WF_mcVars(Running)
=============================================================================
