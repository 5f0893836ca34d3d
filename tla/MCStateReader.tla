--------------------------- MODULE MCStateReader ----------------------------
(***************************************************************************)
(* Instances of StateReader: two calls, two blocks, two storage slots and  *)
(* one item of each other kind. The states of the blocks differ in every   *)
(* item, and a slot is written in one of them only. Under the root of one  *)
(* block verify accepts a value for the other slot that is not the state's *)
(* too.                                                                    *)
(***************************************************************************)
EXTENDS StateReader, TLC

CONSTANTS c1, c2, b1, b2, v1, v2

s1 == <<"storage", 1>>
s2 == <<"storage", 2>>
h1 == <<"class_hash", 1>>
k1 == <<"contract_class", 1>>
n1 == <<"nonce", 1>>

StorageItems == {s1, s2}
AllItems == {s1, s2, h1, k1, n1}

\* A bound: the items that one behaviour reads are of one of these pairs: two
\* that compete for one cache and come with proofs, and either of the two that
\* are cached without a proof beside the one that is not cached.
Pairs == {{s1, s2}, {h1, n1}, {k1, n1}}

Cached == UNION {{e.item : e \in Entries(k)} : k \in CachedKinds}
Asked == {call[c].item : c \in {d \in Calls : call[d].pc \notin {"idle", "run"}}}
Seen == UNION {{r.item : r \in call[c].reads} : c \in Calls}

PairOfItems == \E p \in Pairs : Cached \cup Asked \cup Seen \subseteq p

MCTruth ==
  [b \in Blocks |->
     [i \in Items |->
        IF i = s2 THEN IF b = b1 THEN v1 ELSE Zero
        ELSE IF b = b1 THEN v1 ELSE v2]]

MCProvable ==
  [b \in Blocks |->
     [i \in Items |->
        IF b = b1 THEN IF i = s1 THEN {v1, v2} ELSE {v1}
        ELSE IF i = s1 THEN {v2} ELSE {}]]

SmallCaches == [k \in CachedKinds |-> IF k = "storage" THEN 2 ELSE 1]

CallSymmetry == Permutations(Calls)
=============================================================================
