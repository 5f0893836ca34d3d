----------------------------- MODULE MerkleTrie -----------------------------
(***************************************************************************)
(* The reference that ProofVerify is checked against: the Merkle-Patricia  *)
(* tries of Starknet's state and the proofs an honest provider makes of    *)
(* them (external: the provider; the node formats are those of gen.rs).    *)
(*                                                                         *)
(* A trie is a function from the keys that are present to their leaves. A  *)
(* node stands for the present keys S that share all bits above the low h: *)
(* where both halves are inhabited it is a binary node, else an edge that  *)
(* runs down to the next binary node or to the leaf.                       *)
(***************************************************************************)
EXTENDS ProofVerify, FiniteSets

CONSTANT Worlds      \* the states providers make proofs of: functions from
                     \* addresses to [class_hash, nonce, storage]

Keys == 0..(2^Width - 1)

Half(S, h, side) == {k \in S : Bit(k, h) = side}

Forks(S, h) == Half(S, h, 0) # {} /\ Half(S, h, 1) # {}

\* The height of the node an edge from height h leads to.
Bottom(S, h) ==
  IF \E b \in 1..h : Forks(S, b) THEN CHOOSE b \in 1..h : /\ Forks(S, b)
                                                         /\ \A d \in (b + 1)..h : ~Forks(S, d)
  ELSE 0

\* The bits of the keys of S from height h down to height b.
Path(S, h, b) == ((CHOOSE k \in S : TRUE) \div 2^b) % 2^(h - b)

\* The node on top of S at height h, over the subtries of lower heights.
TopNode(below, S, h) ==
  LET b == Bottom(S, h)
  IN  IF b = h
      THEN BinaryNode(below[h - 1][Half(S, h, 0)].hash, below[h - 1][Half(S, h, 1)].hash)
      ELSE EdgeNode(below[b][S].hash, Num(Path(S, h, b)), h - b)

\* The nodes below it towards a key, none where the key leaves the edge.
Further(below, S, h, key) ==
  LET b == Bottom(S, h)
  IN  IF b = h THEN below[h - 1][Half(S, h, Bit(key, h))].towards[key]
      ELSE IF Path(S, h, b) = Path({key}, h, b) THEN below[b][S].towards[key]
      ELSE <<>>

\* The subtries of height h: for every set of present keys the hash of the top
\* node, and the nodes from there towards any key, as far as the trie goes its way.
Subtrie(trie, below, h) ==
  [S \in SUBSET DOMAIN trie |->
     IF h = 0
     THEN [hash |-> trie[CHOOSE k \in S : TRUE], towards |-> [key \in Keys |-> <<>>]]
     ELSE LET node == TopNode(below, S, h)
          IN  [hash |-> NodeHash(node),
               towards |-> [key \in Keys |-> <<node>> \o Further(below, S, h, key)]]]

Subtries(trie) ==
  LET f[h \in 0..Width] == Subtrie(trie, f, h) IN f

Whole(trie) == Subtries(trie)[Width][DOMAIN trie]

TrieRoot(trie) == IF DOMAIN trie = {} THEN Num(0) ELSE Whole(trie).hash

\* The nodes from the root towards the key.
TrieProof(trie, key) == IF DOMAIN trie = {} THEN <<>> ELSE Whole(trie).towards[key]

-----------------------------------------------------------------------------
(* A state: its contracts, its root, its proofs. *)

ClassCommitment == Num(99)

ContractData(c, key) ==
  [class_hash |-> c.class_hash, nonce |-> c.nonce, root |-> TrieRoot(c.storage),
   storage_proofs |-> <<TrieProof(c.storage, key)>>]

ContractTrie(w) ==
  [a \in DOMAIN w |->
     ContractStateHash([class_hash |-> w[a].class_hash, nonce |-> w[a].nonce,
                        root |-> TrieRoot(w[a].storage)])]

WorldRoot(w) == GlobalRoot(TrieRoot(ContractTrie(w)), ClassCommitment)

\* getProof of an honest provider; the contract may not exist.
HonestProof(w, address, key) ==
  [class_commitment |-> ClassCommitment,
   state_commitment |-> WorldRoot(w),
   contract_proof |-> TrieProof(ContractTrie(w), address),
   contract_data |-> IF address \in DOMAIN w THEN ContractData(w[address], key) ELSE None]

\* The value of a slot, zero if it was never written.
SlotValue(w, address, key) ==
  IF address \in DOMAIN w /\ key \in DOMAIN w[address].storage
  THEN w[address].storage[key] ELSE Num(0)

\* A number, not a hash that was computed here.
IsData(x) == x[1] = "felt"

\* Claims are about slots; what is claimed may be any felt.
ASSUME ClaimsAssumption ==
  \A c \in Cases : c.claim.address \in Keys /\ c.claim.key \in Keys

\* Tries have keys, and data for leaves; a slot that is set to zero is deleted.
ASSUME WorldsAssumption ==
  \A w \in Worlds :
    /\ DOMAIN w \subseteq Keys
    /\ \A a \in DOMAIN w :
         /\ IsData(w[a].class_hash) /\ IsData(w[a].nonce)
         /\ DOMAIN w[a].storage \subseteq Keys
         /\ \A k \in DOMAIN w[a].storage :
              IsData(w[a].storage[k]) /\ w[a].storage[k] # Num(0)

\* What an answer contains is not None.
ASSUME NoneAssumption ==
  /\ None # ClassCommitment
  /\ \A w \in Worlds :
       /\ None # WorldRoot(w)
       /\ \A a \in DOMAIN w, k \in Keys :
            LET data == ContractData(w[a], k) IN None \notin {data, data.storage_proofs}

-----------------------------------------------------------------------------
(* Properties: what verify decides, against the reference. *)

\* The states with the root the caller trusts.
RootOf == [w \in Worlds |-> WorldRoot(w)]
Trusted == {w \in Worlds : RootOf[w] = claim.root}

HasHonestProof ==
  \E w \in Trusted : proof = HonestProof(w, claim.address, claim.key)

\* The honest proof of a written slot is a genuine one, accepted for the slot's
\* value and no other, and the honest proof of a slot that was never written is
\* accepted for no data, at every shape of the two tries, and the loops stay within
\* the key (proof.rs:288). (Nodes that leave the key's way half-way up may pass for
\* the hash of the node they end at, as the bits are not counted: proof.rs:314.)
HonestProofDecides ==
  phase = "end" /\ HasHonestProof =>
    \A w \in Trusted :
      LET v == SlotValue(w, claim.address, claim.key)
      IN  /\ claim.value # v /\ (v # Num(0) \/ IsData(claim.value)) => verdict = "error"
          /\ v # Num(0) => GenuineProof(claim, proof) /\ Shown(claim, proof) = v
          /\ claim.value = v /\ v # Num(0) => verdict = "ok"

\* Whatever slot, contract or state the nodes of an answer belong to: where they are
\* of some way, which the loops do not check, what is accepted never contradicts a
\* written slot of the trusted state (proof.rs:257-309).
NoWrittenSlotContradicted ==
  verdict = "ok" /\ OnSomeWay(proof) =>
    \A w \in Trusted :
      SlotValue(w, claim.address, claim.key) \in {claim.value, Num(0)}

\* The promise of doc/architecture.md:96, "pulls merkle proof for the value and
\* verifies that it is valid": what verify accepts is the slot's value in the state
\* with the trusted root. It does not hold (proof.rs:233-314): an edge that is not
\* the lowest is compared neither with the key nor with the next node, an edge of no
\* length has the hash of a binary node, and the bits are not counted.
AcceptedIsStored ==
  verdict = "ok" =>
    \A w \in Trusted : claim.value = SlotValue(w, claim.address, claim.key)
=============================================================================
