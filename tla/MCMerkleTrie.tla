---------------------------- MODULE MCMerkleTrie ----------------------------
(***************************************************************************)
(* Instances of MerkleTrie with keys of three bits. StorageCases goes over *)
(* the shapes of a storage trie (up to three of the eight slots written)   *)
(* under one contract; ContractCases over the shapes of the contract trie, *)
(* over states before and after an update, and over answers that lack a    *)
(* part or have one node too many; LooseCases over lists of any nodes of a *)
(* state, in any order, with edges no honest provider makes.               *)
(***************************************************************************)
EXTENDS MerkleTrie, SequencesExt

V1 == Num(1)
V2 == Num(2)

Contract(class, nonce, storage) ==
  [class_hash |-> Num(class), nonce |-> Num(nonce), storage |-> storage]

Empty == [k \in {} |-> V1]

Claim(root, a, k, v) == [root |-> root, address |-> a, key |-> k, value |-> v]
Case(c, p) == [claim |-> c, proof |-> p]

\* Slots with distinct neighbours, and slots that all have the same value.
Storages ==
  {[k \in S |-> IF k % 2 = 0 THEN V1 ELSE V2] :
     S \in {T \in SUBSET Keys : Cardinality(T) <= 3}}
    \cup {[k \in S |-> V1] : S \in {T \in SUBSET Keys : Cardinality(T) = 2}}

StorageWorlds == {[a \in {5} |-> Contract(7, 0, s)] : s \in Storages}

StorageCases ==
  UNION {LET root == WorldRoot(w)
             proofs == {HonestProof(w, 5, p) : p \in Keys}
         IN  {Case(Claim(root, 5, k, v), q) : q \in proofs, k \in Keys, v \in {Num(0), V1, V2}} :
         w \in StorageWorlds}

\* Two contracts with the same state, two that differ, a later state of them.
s1 == [k \in {2} |-> V1]
s2 == [k \in {2, 3} |-> IF k = 2 THEN V2 ELSE V1]
ContractWorlds ==
  {[a \in A |-> Contract(7, 0, s1)] : A \in {{}, {1}, {1, 5}, {4, 5}}}
    \cup {[a \in A |-> IF a = 5 THEN Contract(7, 0, s1) ELSE Contract(8, 1, s2)] :
            A \in {{4, 5}, {1, 5}, {0, 3, 5}}}
    \cup {[a \in {0, 3, 5} |-> Contract(7, 0, IF a = 0 THEN Empty ELSE s2)]}

\* An answer that lacks a part, whose storage proof is one node too long or
\* begins with an edge longer than a key.
Degraded(p) ==
  {[p EXCEPT !.class_commitment = None], [p EXCEPT !.state_commitment = None]}
    \cup (IF p.contract_data = None THEN {} ELSE
          {[p EXCEPT !.contract_data.storage_proofs = None],
           [p EXCEPT !.contract_data.storage_proofs = <<>>],
           [p EXCEPT !.contract_data.storage_proofs[1] =
              @ \o <<EdgeNode(V1, Num(2), Width + 1)>>],
           [p EXCEPT !.contract_data.storage_proofs[1] =
              <<BinaryNode(p.contract_data.root, p.contract_data.root)>> \o @]})

Genuine == {HonestProof(w, a, k) : w \in ContractWorlds, a \in Keys, k \in {2, 3}}

ContractCases ==
  {Case(Claim(root, a, k, v), p) :
     p \in Genuine, root \in {WorldRoot(w) : w \in ContractWorlds},
     a \in Keys, k \in {2, 3}, v \in {Num(0), V1, V2}}
    \cup UNION {{Case(Claim(WorldRoot(w), 5, 2, V1), q) : q \in Degraded(HonestProof(w, 5, 2))} :
                  w \in ContractWorlds}

\* A state whose trie has two binary nodes and two edges. Below a node with the
\* hash of its root a storage proof is put together of up to two of its nodes, of
\* edges of no length between the children of a binary node, of edges that lead from
\* a value, and of one as long as can be. (With another node on top StorageRoot
\* refuses it.)
LooseWorld == [a \in {5} |-> Contract(7, 0, [k \in {2, 6, 7} |-> IF k = 2 THEN V1 ELSE V2])]

TrieNodes ==
  UNION {ToSet(HonestProof(LooseWorld, 5, k).contract_data.storage_proofs[1]) : k \in Keys}

LooseNodes ==
  TrieNodes
    \cup {EdgeNode(n.lower, n.upper, 0) : n \in {m \in TrieNodes : m.tag = "binary"}}
    \cup {EdgeNode(v, Num(p), 1) : v \in {V1, V2}, p \in {0, 1}}
    \cup {EdgeNode(V1, Num(2), MaxLen)}

LooseLists ==
  {<<top>> \o rest :
     top \in {n \in LooseNodes : NodeHash(n) = TrieRoot(LooseWorld[5].storage)},
     rest \in BoundedSeq(LooseNodes, 2)}

\* What is claimed: data, or the hash of the lower binary node.
LooseCases ==
  {Case(Claim(p.state_commitment, 5, k, v), p) :
     p \in {[honest EXCEPT !.contract_data.storage_proofs[1] = nodes] :
              honest \in {HonestProof(LooseWorld, 5, 2)}, nodes \in LooseLists},
     v \in {V1, V2, Pedersen(V2, V2)}, k \in {1, 2, 5, 6}}

MCCases == StorageCases \cup ContractCases \cup LooseCases
MCWorlds == StorageWorlds \cup ContractWorlds \cup {LooseWorld}
=============================================================================
