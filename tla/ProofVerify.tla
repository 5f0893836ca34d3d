---------------------------- MODULE ProofVerify -----------------------------
(***************************************************************************)
(* GetProofResult::verify (proof.rs), one step per iteration of its loops: *)
(* the storage proof is hashed from the leaf up to the contract's storage  *)
(* root, then the contract proof from the contract's state hash up to the  *)
(* storage commitment, and the global root made of it is compared with the *)
(* root the caller trusts.                                                 *)
(*                                                                         *)
(* Hashes are symbolic: a hash is the term it was computed from, so equal  *)
(* hashes come from equal inputs (collision freedom of Pedersen and        *)
(* Poseidon, the assumption every Merkle proof rests on). The hash of an   *)
(* edge is a Pedersen hash plus the edge's length: with a length other     *)
(* than zero it is a term of its own, with none it is the Pedersen hash.   *)
(* Keys and addresses are numbers below 2^Width; the code's Width is 251.  *)
(***************************************************************************)
EXTENDS Integers, Sequences

CONSTANTS
  Width,       \* bits of a key
  MaxLen,      \* the largest i64, the type of an edge's length and of path_len
  Cases,       \* what is verified: records [claim, proof]
  None         \* an optional field that is absent

\* A key has at least one bit.
ASSUME WidthAssumption == Width \in Nat \ {0}

\* A length of any key fits an i64.
ASSUME MaxLenAssumption == MaxLen \in Nat /\ Width <= MaxLen

\* What serde guarantees of an answer: nodes are binary or edge nodes, in lists.
\* An edge's length may be any i64.
ASSUME CasesAssumption ==
  \A c \in Cases :
    LET IsNodes(s) == /\ Len(s) \in Nat
                      /\ \A j \in 1..Len(s) :
                           /\ s[j].tag \in {"binary", "edge"}
                           /\ s[j].tag = "edge" => s[j].len \in (-MaxLen - 1)..MaxLen
        d == c.proof.contract_data
    IN  /\ IsNodes(c.proof.contract_proof)
        /\ d # None /\ d.storage_proofs \notin {None, <<>>} => IsNodes(d.storage_proofs[1])

VARIABLES
  claim,       \* global root, contract address, key and value to verify
  proof,       \* the provider's GetProofResult
  phase,       \* "begin", "storage", "contract" or "end"
  left,        \* nodes of the current proof that are not processed yet
  hold,        \* the hash of what is processed
  pathLen,     \* the bits of the key that are used up
  verdict      \* "none", "ok", "error" or "panic"

vars == <<claim, proof, phase, left, hold, pathLen, verdict>>
input == <<claim, proof>>

-----------------------------------------------------------------------------
(* Hashes and nodes. *)

Num(n) == <<"felt", n>>
Pedersen(a, b) == <<"pedersen", a, b>>

\* pedersen_hash(child, path) + len, where len may be zero.
EdgeHash(child, path, len) ==
  IF len = 0 THEN Pedersen(child, path) ELSE <<"edge", child, path, len>>

BinaryNode(l, r) == [tag |-> "binary", lower |-> l, upper |-> r]
EdgeNode(c, p, n) == [tag |-> "edge", child |-> c, path |-> p, len |-> n]

NodeHash(node) ==
  IF node.tag = "edge" THEN EdgeHash(node.child, node.path, node.len)
  ELSE Pedersen(node.lower, node.upper)

\* H(H(H(class_hash, root), nonce), CONTRACT_STATE_HASH_VERSION)
ContractStateHash(c) ==
  Pedersen(Pedersen(Pedersen(c.class_hash, c.root), c.nonce), Num(0))

GlobalRoot(storageCommitment, classCommitment) ==
  <<"poseidon", storageCommitment, classCommitment>>

\* Variant: one bit too few is kept.
LowBits_OneShort(key, len) == key % 2^(len - 1)

\* felt_from_bits with the mask 251 - len: the low len bits of the key.
LowBits(key, len) == key % 2^len

\* An i64 in a release build.
Wrapped(n) ==
  IF n > MaxLen THEN n - 2 * (MaxLen + 1)
  ELSE IF n < -MaxLen - 1 THEN n + 2 * (MaxLen + 1)
  ELSE n

\* key[251 - n]: the n-th bit of the key from its low end, n from 1.
Bit(key, n) == (key \div 2^(n - 1)) % 2

-----------------------------------------------------------------------------
(* The two runs of parse_proof. *)

StorageNodes == proof.contract_data.storage_proofs[1]

Nodes == IF phase = "storage" THEN StorageNodes ELSE proof.contract_proof
Key == IF phase = "storage" THEN claim.key ELSE claim.address
Leaf ==
  IF phase = "storage" THEN claim.value ELSE ContractStateHash(proof.contract_data)

Node == Nodes[left]

Init ==
  /\ \E c \in Cases : claim = c.claim /\ proof = c.proof
  /\ phase = "begin"
  /\ left = 0
  /\ hold = Num(0)
  /\ pathLen = 0
  /\ verdict = "none"

End(v) ==
  /\ verdict' = v
  /\ phase' = "end"
  /\ UNCHANGED <<input, left, hold, pathLen>>

\* Variant: the second proof goes on counting where the first one ended.
Parse_KeepsPathLen(p, nodes, leaf) ==
  /\ phase' = p
  /\ left' = Len(nodes)
  /\ hold' = leaf
  /\ UNCHANGED <<input, pathLen, verdict>>

Parse(p, nodes, leaf) ==
  /\ phase' = p
  /\ left' = Len(nodes)
  /\ hold' = leaf
  /\ pathLen' = 0
  /\ UNCHANGED <<input, verdict>>

\* "No contract data found", "No storage proof found"; storage_proofs[0] of an
\* empty list is out of bounds.
NoStorageProof ==
  /\ phase = "begin"
  /\ \/ proof.contract_data = None /\ End("error")
     \/ /\ proof.contract_data # None
        /\ proof.contract_data.storage_proofs = None
        /\ End("error")
     \/ /\ proof.contract_data # None
        /\ proof.contract_data.storage_proofs = <<>>
        /\ End("panic")

BeginStorage ==
  /\ phase = "begin"
  /\ proof.contract_data # None
  /\ proof.contract_data.storage_proofs \notin {None, <<>>}
  /\ Parse("storage", StorageNodes, claim.value)

\* The lowest edge must lead from the value along the low bits of the key; with
\* a length beyond the key the mask is invalid.
EdgeFits ==
  /\ Node.len \in 0..Width
  /\ NodeHash(Node) = EdgeHash(Leaf, Num(LowBits(Key, Node.len)), Node.len)

\* Variant: no edge is compared with key and value.
EdgeStep_Unchecked ==
  /\ phase \in {"storage", "contract"}
  /\ left > 0
  /\ Node.tag = "edge"
  /\ pathLen' = Wrapped(pathLen + Node.len)
  /\ hold' = NodeHash(Node)
  /\ left' = left - 1
  /\ UNCHANGED <<input, phase, verdict>>

\* An edge: the lowest one is compared with key and value, one further up is
\* taken as it is.
EdgeStep ==
  /\ phase \in {"storage", "contract"}
  /\ left > 0
  /\ Node.tag = "edge"
  /\ left = Len(Nodes) => EdgeFits
  /\ pathLen' = Wrapped(pathLen + Node.len)
  /\ hold' = NodeHash(Node)
  /\ left' = left - 1
  /\ UNCHANGED <<input, phase, verdict>>

\* 251 - len underflows for a length beyond the key, and path_len overflows where
\* lengths add up to more than an i64: a release build goes on with what is
\* wrapped, a build that checks for overflow panics.
EdgeMisfit ==
  /\ phase \in {"storage", "contract"}
  /\ left > 0
  /\ Node.tag = "edge"
  /\ \/ left = Len(Nodes) /\ ~EdgeFits /\ End("error")
     \/ left = Len(Nodes) /\ Node.len \notin 0..Width /\ End("panic")
     \/ pathLen + Node.len # Wrapped(pathLen + Node.len) /\ End("panic")

\* The hash of a binary node with hold on the side the key's bit tells.
ExpectedHash ==
  IF Bit(Key, pathLen + 1) = 0
  THEN Pedersen(hold, Node.upper)
  ELSE Pedersen(Node.lower, hold)

\* Variant: a binary node may have hold on either side.
BinaryStep_EitherSide ==
  /\ phase \in {"storage", "contract"}
  /\ left > 0
  /\ Node.tag = "binary"
  /\ pathLen \in 0..(Width - 1)
  /\ hold \in {Node.lower, Node.upper}
  /\ pathLen' = pathLen + 1
  /\ hold' = NodeHash(Node)
  /\ left' = left - 1
  /\ UNCHANGED <<input, phase, verdict>>

BinaryStep ==
  /\ phase \in {"storage", "contract"}
  /\ left > 0
  /\ Node.tag = "binary"
  /\ pathLen \in 0..(Width - 1)
  /\ NodeHash(Node) = ExpectedHash
  /\ pathLen' = pathLen + 1
  /\ hold' = NodeHash(Node)
  /\ left' = left - 1
  /\ UNCHANGED <<input, phase, verdict>>

\* With the key used up, or a negative length taken, key[251 - path_len] is out
\* of bounds.
BinaryMisfit ==
  /\ phase \in {"storage", "contract"}
  /\ left > 0
  /\ Node.tag = "binary"
  /\ \/ pathLen \notin 0..(Width - 1) /\ End("panic")
     \/ pathLen \in 0..(Width - 1) /\ NodeHash(Node) # ExpectedHash /\ End("error")

\* Variant: the computed storage root is not compared.
StorageRoot_Taken ==
  /\ phase = "storage"
  /\ left = 0
  /\ Parse("contract", proof.contract_proof, ContractStateHash(proof.contract_data))

StorageRoot ==
  /\ phase = "storage"
  /\ left = 0
  /\ IF hold = proof.contract_data.root
     THEN Parse("contract", proof.contract_proof, ContractStateHash(proof.contract_data))
     ELSE End("error")

\* Variant: the answer's own state commitment is all that is compared.
StateRoot_OwnCommitment ==
  /\ phase = "contract"
  /\ left = 0
  /\ IF /\ proof.class_commitment # None
        /\ proof.state_commitment # None
        /\ proof.state_commitment = GlobalRoot(hold, proof.class_commitment)
     THEN End("ok")
     ELSE End("error")

\* The state commitment of the answer and the trusted root must both be the
\* global root that was computed.
StateRoot ==
  /\ phase = "contract"
  /\ left = 0
  /\ IF /\ proof.class_commitment # None
        /\ proof.state_commitment # None
        /\ proof.state_commitment = GlobalRoot(hold, proof.class_commitment)
        /\ claim.root = GlobalRoot(hold, proof.class_commitment)
     THEN End("ok")
     ELSE End("error")

Next ==
  \/ NoStorageProof \/ BeginStorage
  \/ EdgeStep \/ EdgeMisfit \/ BinaryStep \/ BinaryMisfit
  \/ StorageRoot \/ StateRoot

Spec == Init /\ [][Next]_vars

-----------------------------------------------------------------------------
(* What an accepted proof contains, whoever made it. *)

\* The hash of what is below the j-th node: of the next node, or the leaf.
Below(nodes, leaf, j) == IF j = Len(nodes) THEN leaf ELSE NodeHash(nodes[j + 1])

\* The child of an edge that is not the lowest is another hash than that of the
\* next node: the loop goes on with the edge's own hash and never looks back.
Gap(nodes, j) ==
  nodes[j].tag = "edge" /\ j < Len(nodes) /\ nodes[j].child # NodeHash(nodes[j + 1])

\* The j-th node leads to what is below it: a binary node has it on one side, an
\* edge as its child, and the lowest edge along the low bits of the key.
Tied(nodes, key, leaf, j) ==
  LET node == nodes[j]
  IN  \/ node.tag = "binary" /\ Below(nodes, leaf, j) \in {node.lower, node.upper}
      \/ /\ node.tag = "edge"
         /\ node.child = Below(nodes, leaf, j)
         /\ j = Len(nodes) => /\ node.len \in 0..Width
                              /\ node.path = Num(LowBits(key, node.len))

\* From the l-th node down to the leaf there is no break but at gaps.
Chain(nodes, key, leaf, l) ==
  \A j \in (l + 1)..Len(nodes) : Gap(nodes, j) \/ Tied(nodes, key, leaf, j)

StorageChained ==
  /\ Chain(StorageNodes, claim.key, claim.value, 0)
  /\ proof.contract_data.root = Below(StorageNodes, claim.value, 0)

ContractChained ==
  LET stateHash == ContractStateHash(proof.contract_data)
      nodes == proof.contract_proof
  IN  /\ Chain(nodes, claim.address, stateHash, 0)
      /\ claim.root = GlobalRoot(Below(nodes, stateHash, 0), proof.class_commitment)

\* The nodes of an accepted proof hang together from the value to the storage
\* root, and from the contract's state, which contains that root, to the root the
\* caller trusts, but for gaps: below an edge that is not the lowest of its list
\* there may be any node, as its child is compared with nothing (proof.rs:257,
\* 275-277). Everywhere else the two loops leave no break (proof.rs:257-309).
BrokenOnlyAtGaps == verdict = "ok" => StorageChained /\ ContractChained

\* At every iteration hold is the hash of the part that is processed, and that
\* part hangs together down to the leaf but for gaps (proof.rs:232-311).
LoopInv ==
  /\ phase \in {"begin", "storage", "contract", "end"}
  /\ phase # "end" => verdict = "none"
  /\ phase \in {"storage", "contract"} =>
       /\ proof.contract_data # None
       /\ proof.contract_data.storage_proofs \notin {None, <<>>}
       /\ left \in 0..Len(Nodes)
       /\ hold = Below(Nodes, Leaf, left)
       /\ Chain(Nodes, Key, Leaf, left)
  /\ phase = "contract" => StorageChained

-----------------------------------------------------------------------------
(* What a genuine proof is: the nodes on a key's way through a trie. Heights *)
(* count from the leaves, as the bits of a key do.                          *)

\* The child of a binary node on the side the n-th bit of the key tells.
Side(node, key, n) == IF Bit(key, n) = 0 THEN node.lower ELSE node.upper

\* The bits of the key a node stands for.
Rise(node) == IF node.tag = "edge" THEN node.len ELSE 1

\* h[j] is the height of what is below the j-th node: the nodes take up the
\* whole key, each at least one bit.
Heights(nodes, h) ==
  /\ h[Len(nodes)] = 0
  /\ h[0] = Width
  /\ \A j \in 1..Len(nodes) :
       Rise(nodes[j]) \in 1..Width /\ h[j - 1] = h[j] + Rise(nodes[j])

\* An edge leads to the next node.
Linked(nodes) ==
  \A j \in 1..(Len(nodes) - 1) :
    nodes[j].tag = "edge" => nodes[j].child = NodeHash(nodes[j + 1])

\* Below the l-th node the way is the key's: what follows a binary node is on
\* the key's side, the lowest edge leads to the leaf along the low bits.
OnKey(nodes, key, leaf, h, l) ==
  \A j \in (l + 1)..Len(nodes) :
    LET node == nodes[j]
    IN  /\ node.tag = "binary" => Below(nodes, leaf, j) = Side(node, key, h[j] + 1)
        /\ node.tag = "edge" /\ j = Len(nodes) =>
             node.child = leaf /\ node.path = Num(LowBits(key, node.len))

HeightsOf(nodes) == {h \in [0..Len(nodes) -> 0..Width] : Heights(nodes, h)}

FullPath(nodes, key, leaf) ==
  Linked(nodes) /\ \E h \in HeightsOf(nodes) : OnKey(nodes, key, leaf, h, 0)

HasStorageProof(p) == p.contract_data # None /\ p.contract_data.storage_proofs \notin {None, <<>>}

\* The value a storage proof leads to.
Shown(c, p) ==
  LET nodes == p.contract_data.storage_proofs[1]
      lowest == nodes[Len(nodes)]
  IN  IF lowest.tag = "edge" THEN lowest.child ELSE Side(lowest, c.key, 1)

\* p proves the claimed slot of the claimed contract, whatever its value is, in
\* the state with the trusted root.
GenuineProof(c, p) ==
  LET data == p.contract_data
      nodes == data.storage_proofs[1]
      leaf == ContractStateHash(data)
      top == Below(p.contract_proof, leaf, 0)
  IN  /\ HasStorageProof(p)
      /\ FullPath(nodes, c.key, Shown(c, p))
      /\ data.root = Below(nodes, Shown(c, p), 0)
      /\ FullPath(p.contract_proof, c.address, leaf)
      /\ p.class_commitment # None
      /\ p.state_commitment = GlobalRoot(top, p.class_commitment)
      /\ p.state_commitment # None
      /\ c.root = p.state_commitment

\* A genuine proof decides: it is accepted for the value it leads to and
\* refused for any other, and no length or index leaves the key on the way,
\* whatever the shape of the two tries (proof.rs:233-314).
GenuineDecides ==
  phase = "end" /\ GenuineProof(claim, proof) =>
    verdict = IF claim.value = Shown(claim, proof) THEN "ok" ELSE "error"

\* Both proofs of p are made of nodes on some key's way through some trie: each
\* edge leads to the next node, each node stands for at least one bit, and together
\* they use up the whole key. The code checks none of the three.
OnSomeWay(p) ==
  \A nodes \in {p.contract_data.storage_proofs[1], p.contract_proof} :
    Linked(nodes) /\ HeightsOf(nodes) # {}

\* With nodes of any slot, contract or state, if they are of some way, nothing is
\* accepted that a genuine proof of the claimed slot shows to be otherwise
\* (proof.rs:298-303).
AcceptedAgrees ==
  verdict = "ok" /\ OnSomeWay(proof) =>
    \A c \in Cases : GenuineProof(claim, c.proof) => claim.value = Shown(claim, c.proof)
=============================================================================
